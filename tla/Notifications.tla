---------------------------- MODULE Notifications ----------------------------
(***************************************************************************)
(* Notifications (notifications.service.ts): one NotificationLog row and   *)
(* one attempt per channel, and a job that tries the failed ones again.    *)
(* The job is started every five minutes, whether or not the last run of   *)
(* it has ended.  Contents and recipients are left out.                    *)
(***************************************************************************)
EXTENDS AuditTrail

CONSTANTS
    LogIds,         \* bound: NotificationLog rows
    Templates,      \* what is dispatched: a category and the channels asked for
    MAX_ATTEMPTS

ASSUME NotificationsAssumption ==
    LogIds \subseteq Nat \ {0} /\ MAX_ATTEMPTS \in Nat \ {0} /\ IsFiniteSet(Handlers)

VARIABLE logs       \* NotificationLog

NoLog == [status |-> "NONE", attempts |-> 0]
NotificationsInit == logs = [l \in LogIds |-> NoLog]

\* NotificationChannel, numbered so that a list may hold rows or channels.
IN_APP == 1
PUSH == 2
EMAIL == 3
SMS == 4

Preferences == [orders : BOOLEAN, push : BOOLEAN, email : BOOLEAN, hasDevice : BOOLEAN]

allowedChannels(prefs, template) ==
    {c \in template.channels :
        \/ c = IN_APP
        \/ /\ template.category # "orders" \/ prefs.orders
           /\ c = PUSH => prefs.push /\ prefs.hasDevice
           /\ c = EMAIL => prefs.email}

\* dispatch, to a user whose preferences it has read.
Dispatch(h, template, prefs) ==
    /\ Start(h, "channel", 0, Nobody, "", 0)
    /\ todo' = [todo EXCEPT ![h] = allowedChannels(prefs, template)]
    /\ UNCHANGED <<approvals, ran, crashes, chain, chainLock, prevHash, logs>>

CreateLog(h) ==
    /\ task[h].op = "channel"
    /\ \E c \in todo[h], l \in LogIds :
          /\ logs[l] = NoLog
          /\ \A k \in LogIds : k < l => logs[k] # NoLog
          /\ logs' = [logs EXCEPT ![l].status = "QUEUED"]
          /\ todo' = [todo EXCEPT ![h] = @ \ {c}]
          /\ task' = [task EXCEPT ![h].op = "sendNew", ![h].id = l]
    /\ UNCHANGED <<approvals, ran, calls, crashes, chain, chainLock, prevHash>>

\* attempt: the adapter's answer is awaited, then written by the row's id.
Send(h, accepted) ==
    /\ task[h].op \in {"sendNew", "sendAgain"}
    /\ task' = [task EXCEPT ![h].op = IF @ = "sendNew" THEN "writeNew" ELSE "writeAgain",
                            ![h].seen = IF accepted THEN "SENT" ELSE "FAILED"]
    /\ UNCHANGED <<approvals, ran, calls, crashes, auditVars, logs>>

WriteAttempt(h) ==
    /\ task[h].op \in {"writeNew", "writeAgain"}
    /\ logs' = [logs EXCEPT ![task[h].id] = [status |-> task[h].seen, attempts |-> @.attempts + 1]]
    /\ Goto(h, IF task[h].op = "writeNew" THEN "channel" ELSE "failedLog")
    /\ UNCHANGED <<approvals, ran, calls, crashes, auditVars>>

\* retryFailed lists the rows to try again, then tries them one by one.
\* Mutant: the attempts are not counted.
ToRetryAll == {l \in LogIds : logs[l].status = "FAILED"}
ToRetry == {l \in LogIds : logs[l].status = "FAILED" /\ logs[l].attempts < MAX_ATTEMPTS}

RetryFailed(h) ==
    /\ ToRetry # {}
    /\ Start(h, "failedLog", 0, Nobody, "", 0)
    /\ todo' = [todo EXCEPT ![h] = ToRetry]
    /\ UNCHANGED <<approvals, ran, crashes, chain, chainLock, prevHash, logs>>

NextFailed(h) ==
    /\ task[h].op = "failedLog"
    /\ \E l \in todo[h] :
          /\ \A k \in todo[h] : l <= k
          /\ todo' = [todo EXCEPT ![h] = @ \ {l}]
          /\ task' = [task EXCEPT ![h].op = "sendAgain", ![h].id = l]
    /\ UNCHANGED <<approvals, ran, calls, crashes, chain, chainLock, prevHash, logs>>

EndOfList(h) ==
    /\ task[h].op \in {"channel", "failedLog"}
    /\ todo[h] = {}
    /\ Done(h)
    /\ UNCHANGED <<approvals, ran, calls, crashes, auditVars, logs>>

NotificationStep(h) ==
    \/ \E template \in Templates, prefs \in Preferences : Dispatch(h, template, prefs)
    \/ CreateLog(h)
    \/ \E accepted \in BOOLEAN : Send(h, accepted)
    \/ WriteAttempt(h)
    \/ RetryFailed(h)
    \/ NextFailed(h)
    \/ EndOfList(h)

----------------------------------------------------------------------------
\* "3 tentatives au plus" (notifications.service.ts:29) is exceeded by runs of
\* the job that overlap, but only by one attempt for each run that was under way:
\* no sequence of dispatches, failures and runs tries a message for ever.
RetriesAreBounded ==
    \A l \in LogIds : logs[l].attempts <= MAX_ATTEMPTS + Cardinality(Handlers) - 1
=============================================================================
