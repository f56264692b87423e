----------------------------- MODULE AuditTrail -----------------------------
(***************************************************************************)
(* The audit log (audit.service.ts) and the bus that feeds it              *)
(* (event-bus.service.ts).  Every entry carries the hash of the entry      *)
(* before it; appends run in transactions that an advisory lock orders.    *)
(* The hash is injective: it is the pair of what it is computed from.      *)
(***************************************************************************)
EXTENDS Approvals, Sequences

ASSUME HandlersAssumption == Nobody \notin Handlers

VARIABLES
    chain,        \* AuditLog rows in the order of seq
    chainLock,    \* who holds pg_advisory_xact_lock(42)
    prevHash,     \* what each transaction read as the last hash
    todo          \* rows of the list each handler is still walking through

auditVars == <<chain, chainLock, prevHash, todo>>

NoHash == <<>>
computeAuditHash(prev, body) == <<prev, body>>

AuditInit ==
    /\ chain = <<>>
    /\ chainLock = Nobody
    /\ prevHash = [h \in Handlers |-> NoHash]
    /\ todo = [h \in Handlers |-> {}]

\* A call to AuditService.log is followed by an event, an event stands alone.
LOG == 1
EVENT == 0
Record(h, kind) == task' = [task EXCEPT ![h].op = "lockChain", ![h].id = kind]

\* After its last entry a handler returns, or goes on with its list.
Resume(h) == IF task[h].seen = "run" THEN Goto(h, "line") ELSE Return(h)

----------------------------------------------------------------------------
\* Any handler outside this model that logs or publishes.
OtherEntry(h, kind) ==
    /\ Start(h, "lockChain", kind, Nobody, "", 0)
    /\ UNCHANGED <<approvals, ran, crashes, auditVars>>

\* Mutant: no advisory lock.
UnlockedOrNot == TRUE
Unlocked == chainLock = Nobody

LockChain(h) ==
    /\ task[h].op = "lockChain"
    /\ Unlocked
    /\ chainLock' = h
    /\ Goto(h, "readLast")
    /\ UNCHANGED <<approvals, ran, calls, crashes, chain, prevHash, todo>>

ReadLast(h) ==
    /\ task[h].op = "readLast"
    /\ prevHash' = [prevHash EXCEPT ![h] = IF chain = <<>> THEN NoHash ELSE chain[Len(chain)].hash]
    /\ Goto(h, "insertRow")
    /\ UNCHANGED <<approvals, ran, calls, crashes, chain, chainLock, todo>>

\* The row is created and committed, which frees the lock.
InsertRow(h) ==
    /\ task[h].op = "insertRow"
    /\ chain' = Append(chain, [prev |-> prevHash[h], body |-> task[h].who,
                               hash |-> computeAuditHash(prevHash[h], task[h].who)])
    /\ chainLock' = Nobody
    /\ prevHash' = [prevHash EXCEPT ![h] = NoHash]
    /\ IF task[h].id = LOG THEN Record(h, EVENT) ELSE Resume(h)
    /\ UNCHANGED <<approvals, ran, calls, crashes, todo>>

\* The transaction fails: log throws to its caller, the bus only logs the error.
AbortAppend(h) ==
    /\ task[h].op \in {"lockChain", "readLast", "insertRow"}
    /\ chainLock' = IF task[h].op = "lockChain" THEN chainLock ELSE Nobody
    /\ prevHash' = [prevHash EXCEPT ![h] = NoHash]
    /\ IF task[h].id = LOG THEN Throw(h) ELSE Resume(h)
    /\ UNCHANGED <<approvals, ran, calls, crashes, chain, todo>>

\* Rows that were not committed, the lock and the lists are gone.
CrashAudit ==
    /\ CrashTasks
    /\ chainLock' = Nobody
    /\ prevHash' = [h \in Handlers |-> NoHash]
    /\ todo' = [h \in Handlers |-> {}]
    /\ UNCHANGED chain

AuditStep(h) ==
    \/ LockChain(h)
    \/ ReadLast(h)
    \/ InsertRow(h)
    \/ AbortAppend(h)

----------------------------------------------------------------------------
\* verifyChain: the rows from a sequence number on, each after its predecessor.
verifyChain(from) ==
    \A i \in from .. Len(chain) :
        /\ chain[i].prev = IF i = 1 THEN NoHash ELSE chain[i - 1].hash
        /\ chain[i].hash = computeAuditHash(chain[i].prev, chain[i].body)

\* The chain verifies from any row at any time, whichever handlers append to it
\* at once and wherever their transactions fail (audit.service.ts:169 takes the
\* lock before 170 reads the last hash).
ChainVerifies == \A from \in 1 .. Len(chain) + 1 : verifyChain(from)
=============================================================================
