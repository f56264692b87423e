------------------------------ MODULE Settings ------------------------------
(***************************************************************************)
(* What the executors of approvals-executors.service.ts change: the legal  *)
(* switch of a market, a versioned parameter read through a cache          *)
(* (config-values.service.ts), and postings of the ledger, which has its   *)
(* own module.  now is the clock the versions and the cache are kept by.   *)
(***************************************************************************)
EXTENDS AuditTrail

CONSTANTS
    Values,       \* values of the parameter
    Seed,         \* the one of the first version
    TTL,          \* CACHE_TTL_MS
    MaxTime       \* bound of the clock

ASSUME SettingsAssumption ==
    Seed \in Values /\ TTL \in Nat \ {0} /\ MaxTime \in Nat

VARIABLES
    live,         \* Market.liveTrading
    config,       \* ConfigValue rows of the parameter
    cache,        \* the entry of the process for it
    now,
    inForce       \* per value, the last time it was written or was current

settingsVars == <<live, config, cache, now, inForce>>

Null == MaxTime + 1                    \* effectiveTo of an open row
NoEntry == [value |-> Seed, expiresAt |-> 0]
Never == -TTL

SettingsInit ==
    /\ live = FALSE
    /\ config = {[value |-> Seed, from |-> 0, to |-> Null]}
    /\ cache = NoEntry
    /\ now = 0
    /\ inForce = [v \in Values |-> IF v = Seed THEN 0 ELSE Never]

\* current: the row in effect at a time, the latest one winning.
Effective(rows, at) == {row \in rows : row.from <= at /\ at < row.to}
current(rows, at) ==
    {row \in Effective(rows, at) : \A q \in Effective(rows, at) : q.from <= row.from}

InForce(rows, at, written) ==
    inForce' = [v \in Values |->
        IF v \in written \cup {row.value : row \in current(rows, at)} THEN at ELSE inForce[v]]

Tick ==
    /\ now < MaxTime
    /\ now' = now + 1
    /\ InForce(config, now + 1, {})
    /\ UNCHANGED <<approvalVars, auditVars, live, config, cache>>

----------------------------------------------------------------------------
(* get; a valid entry is answered at once and changes nothing. *)

Cached == cache.expiresAt > now

GetConfig(h) ==
    /\ ~Cached
    /\ Start(h, "queryConfig", now, Nobody, "", 0)
    /\ UNCHANGED <<approvals, ran, crashes, auditVars, settingsVars>>

QueryConfig(h) ==
    /\ task[h].op = "queryConfig"
    /\ \E row \in current(config, task[h].id) :
          task' = [task EXCEPT ![h].op = "fillCache", ![h].seen = row.value]
    /\ UNCHANGED <<approvals, ran, calls, crashes, auditVars, settingsVars>>

\* Mutant: it counts from the answer.
ExpiryFromAnswer(h) == now + TTL
\* expiresAt counts from the start of the call, before the query.
Expiry(h) == task[h].id + TTL

FillCache(h) ==
    /\ task[h].op = "fillCache"
    /\ cache' = [value |-> task[h].seen, expiresAt |-> Expiry(h)]
    /\ Done(h)
    /\ UNCHANGED <<approvals, ran, calls, crashes, auditVars, live, config, now, inForce>>

----------------------------------------------------------------------------
(* set, as the executor of CONFIG_CHANGE. *)

SetConfig(h) ==
    /\ Executing(h, "CONFIG_CHANGE")
    /\ task' = [task EXCEPT ![h].op = "closeRows", ![h].id = now,
                            ![h].seen = approvals[task[h].appr].decision]
    /\ UNCHANGED <<approvals, ran, calls, crashes, auditVars, settingsVars>>

\* The update that closes the open rows locks them.  A second transaction waits
\* for the first, finds its rows closed, and does not see the row it created.
Closing(h) == task[h].op = "insertRowAndClose"

CloseRows(h) ==
    /\ task[h].op = "closeRows"
    /\ Goto(h, IF \E g \in Handlers : Closing(g) THEN "insertOnly" ELSE "insertRowAndClose")
    /\ UNCHANGED <<approvals, ran, calls, crashes, auditVars, settingsVars>>

Closed(rows, at) ==
    {IF row.to = Null /\ row.from <= at THEN [row EXCEPT !.to = at] ELSE row : row \in rows}

CommitSet(h) ==
    LET at == task[h].id
        kept == IF Closing(h) THEN Closed(config, at) ELSE config
        rows == kept \cup {[value |-> task[h].seen, from |-> at, to |-> Null]}
    IN
    /\ \/ Closing(h)
       \/ task[h].op = "insertOnly" /\ ~\E g \in Handlers : Closing(g)
    /\ config' = rows
    /\ InForce(rows, now, {task[h].seen})
    /\ Committed(h)
    /\ Goto(h, "dropCache")
    /\ UNCHANGED <<approvals, calls, crashes, auditVars, live, cache, now>>

DropCache(h) ==
    /\ task[h].op = "dropCache"
    /\ cache' = NoEntry
    /\ Record(h, EVENT)
    /\ UNCHANGED <<approvals, ran, calls, crashes, auditVars, live, config, now, inForce>>

----------------------------------------------------------------------------
(* The other executors. *)

\* liveTradingToggle is only asked for when it changes something.
RequestToggle(s) ==
    /\ Requested(s, "LIVE_TRADING_TOGGLE", 0, IF live THEN "CLOSED" ELSE "LIVE")
    /\ UNCHANGED <<task, auditVars, settingsVars>>

LiveTradingToggle(h) ==
    /\ Executing(h, "LIVE_TRADING_TOGGLE")
    /\ live' = (approvals[task[h].appr].decision = "LIVE")
    /\ Committed(h)
    /\ Record(h, LOG)
    /\ UNCHANGED <<approvals, calls, crashes, auditVars, config, cache, now, inForce>>

RequestConfigChange(s, v) ==
    /\ Requested(s, "CONFIG_CHANGE", 0, v)
    /\ UNCHANGED <<task, auditVars, settingsVars>>

\* LEDGER_ADJUST and LEDGER_REVERSAL, which have the same shape: the ledger posts,
\* or refuses.
RequestPosting(s) ==
    /\ Requested(s, "POSTING", 0, "")
    /\ UNCHANGED <<task, auditVars, settingsVars>>

ExecutePosting(h) ==
    /\ Executing(h, "POSTING")
    /\ \/ Committed(h) /\ Record(h, EVENT)
       \/ UNCHANGED ran /\ Throw(h)
    /\ UNCHANGED <<approvals, calls, crashes, auditVars, settingsVars>>

\* PAYMENT_FORCE_COMPLETE: the payment is settled, was already, or cannot be
\* (Deposits, Withdrawals); its log entry and its events are one of each.
RequestForceComplete(s) ==
    /\ Requested(s, "FORCE_COMPLETE", 0, "")
    /\ UNCHANGED <<task, auditVars, settingsVars>>

PaymentForceComplete(h) ==
    /\ Executing(h, "FORCE_COMPLETE")
    /\ \/ Committed(h) /\ Record(h, LOG)
       \/ UNCHANGED ran /\ (Return(h) \/ Throw(h))
    /\ UNCHANGED <<approvals, calls, crashes, auditVars, settingsVars>>

ConfigStep(h) ==
    \/ GetConfig(h)
    \/ QueryConfig(h)
    \/ FillCache(h)
    \/ SetConfig(h)
    \/ CloseRows(h)
    \/ CommitSet(h)
    \/ DropCache(h)

SwitchStep(h) ==
    \/ LiveTradingToggle(h)
    \/ ExecutePosting(h)
    \/ PaymentForceComplete(h)

----------------------------------------------------------------------------
\* What the cache answers was in force less than CACHE_TTL_MS ago
\* (config-values.service.ts:9 "Cache memoire de 30 s"), although a query that
\* was under way can put a value back after set dropped it.
ServedIsRecent == Cached => now - inForce[cache.value] < TTL
=============================================================================
