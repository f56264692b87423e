----------------------------- MODULE BackOffice -----------------------------
(***************************************************************************)
(* The back office as one process: approvals with the executors of the     *)
(* settings and of the reconciliation, the daily run, the notifications,   *)
(* the quotes, the fees, the placing of orders, the statements and the     *)
(* audit log, on the same handlers; and, on a clock of its own, the        *)
(* validity of an order.                                                   *)
(***************************************************************************)
EXTENDS Reconciliation, Notifications, OrderEntry, Portfolio, OrderValidity

CONSTANT Loads      \* bounds: the kinds of calls mixed in one behaviour, how many calls,
                    \* stops of the process and requests for an approval

VARIABLE load       \* those of this behaviour

vars == <<approvalVars, auditVars, reconVars, settingsVars, logs, quoteVars, schedules, entryVars,
          portfolioVars, validityVars, load>>

Runs(kind) == kind \in load.kinds

\* What only some of the calls look at is one thing for the others.
Initially ==
    /\ Runs("reconciliation") \/ \A r \in Refs : intents[r] = "NONE"
    /\ Runs("changes") \/ Runs("orders") \/ schedules = <<>>
    /\ ~Runs("orders") =>
          lastPrice = NoPrice /\ allowed /\ pilot.demo /\ pilot.connectorSimulated

Init ==
    /\ ApprovalsInit
    /\ AuditInit
    /\ ReconInit
    /\ SettingsInit
    /\ NotificationsInit
    /\ QuotesInit
    /\ FeesInit
    /\ EntryInit
    /\ PortfolioInit
    /\ ValidityInit
    /\ load \in Loads
    /\ Initially

\* The process stops: its cache is gone too.
Crash ==
    /\ CrashAudit
    /\ cache' = NoEntry
    /\ draft' = [h \in Handlers |-> NoDraft]
    /\ reading' = [h \in Handlers |-> NoReading]
    /\ UNCHANGED <<reconVars, live, config, now, inForce, logs, quoteVars, schedules,
                   pilot, allowed, placed, posted, statements, validityVars>>

Orders == <<quoteVars, schedules, entryVars>>
Reports == <<portfolioVars, validityVars>>
Rest == <<Orders, Reports>>

Serve(h) ==
    \/ ApprovalStep(h) /\ UNCHANGED <<auditVars, reconVars, settingsVars, logs, Rest>>
    \/ /\ \/ AuditStep(h)
          \/ Runs("entries") /\ \E kind \in {LOG, EVENT} : OtherEntry(h, kind)
       /\ UNCHANGED <<reconVars, settingsVars, logs, Rest>>
    \/ Runs("reconciliation") /\ ReconStep(h) /\ UNCHANGED <<settingsVars, logs, Rest>>
    \/ Runs("config") /\ ConfigStep(h) /\ UNCHANGED <<reconVars, logs, Rest>>
    \/ Runs("switches") /\ SwitchStep(h) /\ UNCHANGED <<reconVars, logs, Rest>>
    \/ Runs("notifications") /\ NotificationStep(h) /\ UNCHANGED <<reconVars, settingsVars, Rest>>
    \/ /\ Runs("quotes")
       /\ QuoteStep(h)
       /\ UNCHANGED <<reconVars, settingsVars, logs, schedules, entryVars, Reports>>
    \/ /\ \/ Runs("fees") /\ DirectFeeStep(h)
          \/ Runs("changes") /\ FeeChangeStep(h)
       /\ UNCHANGED <<reconVars, logs, quoteVars, entryVars, Reports>>
    \/ Runs("orders") /\ EntryStep(h) /\ UNCHANGED <<reconVars, logs, Reports>>
    \/ Runs("statements") /\ PortfolioStep(h) /\ UNCHANGED <<reconVars, logs, Orders, validityVars>>

\* Requests, and what happens outside the handlers.
Arrive ==
    \/ /\ Runs("reconciliation")
       /\ \/ \E s \in Staff, i \in ItemIds : RequestWriteOff(s, i)
          \/ \E r \in Refs, state \in {"PAID", "FAILED"} : PaymentSettles(r, state)
       /\ UNCHANGED <<settingsVars, logs, Rest>>
    \/ /\ load.kinds \cap {"config", "fees", "statements"} # {}
       /\ Tick
       /\ UNCHANGED <<reconVars, logs, Rest>>
    \/ /\ Runs("config")
       /\ \E s \in Staff, v \in Values : RequestConfigChange(s, v)
       /\ UNCHANGED <<reconVars, logs, Rest>>
    \/ /\ Runs("switches")
       /\ \E s \in Staff : RequestToggle(s) \/ RequestPosting(s) \/ RequestForceComplete(s)
       /\ UNCHANGED <<reconVars, logs, Rest>>
    \/ /\ Runs("changes")
       /\ \E s \in Staff, m \in MarketIds \cup {Global}, name \in DOMAIN RateOf :
              RequestFeeChange(s, m, name)
       /\ UNCHANGED <<reconVars, logs, quoteVars, entryVars, Reports>>
    \/ Runs("orders") /\ ClientChanges /\ UNCHANGED <<reconVars, logs, Reports>>
    \/ /\ Runs("validity")
       /\ ValidityStep
       /\ UNCHANGED <<approvalVars, auditVars, reconVars, settingsVars, logs, Orders, portfolioVars>>

Next ==
    /\ \/ \E h \in Handlers : Serve(h)
       \/ Arrive
       \/ Crash
    /\ UNCHANGED load
    /\ calls' <= load.calls
    /\ crashes' <= load.crashes
    /\ \A r \in RequestIds : r > load.requests => approvals'[r] = NoRequest

Spec == Init /\ [][Next]_vars
=============================================================================
