----------------------------- MODULE Approvals -----------------------------
(***************************************************************************)
(* Maker-checker (approvals.service.ts).  A sensitive action is a request  *)
(* row; a second member of staff approves or rejects it, and an approval   *)
(* runs the executor that the module owning the action registered.         *)
(*                                                                         *)
(* The process is single threaded, so what interleaves are the handlers    *)
(* between two awaits: task[h] is what handler h does next, with the data  *)
(* it read earlier.  The modules that own executors extend this one.       *)
(***************************************************************************)
EXTENDS Integers, FiniteSets

CONSTANTS
    Staff,        \* back-office users
    Checkers,     \* those holding ADMIN or COMPLIANCE and not blocked
    Handlers,     \* requests the server serves at the same time
    RequestIds,   \* bound: PendingApproval rows
    Nobody,       \* checkerId of a row nobody has decided; actor SYSTEM
    MaxCalls,     \* bound: calls served in a behaviour
    MaxCrashes    \* bound: times the process stops

ASSUME StaffAssumption == Checkers \subseteq Staff /\ Nobody \notin Staff
ASSUME RequestsAssumption == RequestIds \subseteq Nat \ {0}
ASSUME BoundsAssumption == MaxCalls \in Nat /\ MaxCrashes \in Nat

VARIABLES
    approvals,    \* PendingApproval
    ran,          \* per request, how often its executor's effect was committed
    task,         \* what each handler does next
    calls,
    crashes

approvalVars == <<approvals, ran, task, calls, crashes>>

NoRequest == [state |-> "NONE", action |-> "", target |-> 0, decision |-> "",
              maker |-> Nobody, checker |-> Nobody]

\* op: the next step; id: the row it is about; who: the acting user;
\* seen: what it read or was asked; appr: the approval it executes, or 0.
Idle == [op |-> "idle", id |-> 0, who |-> Nobody, seen |-> "", appr |-> 0]

ApprovalsInit ==
    /\ approvals = [r \in RequestIds |-> NoRequest]
    /\ ran = [r \in RequestIds |-> 0]
    /\ task = [h \in Handlers |-> Idle]
    /\ calls = 0
    /\ crashes = 0

Start(h, op, id, who, seen, appr) ==
    /\ task[h] = Idle
    /\ calls < MaxCalls
    /\ calls' = calls + 1
    /\ task' = [task EXCEPT ![h] = [op |-> op, id |-> id, who |-> who,
                                    seen |-> seen, appr |-> appr]]
Goto(h, op) == task' = [task EXCEPT ![h].op = op]
Done(h) == task' = [task EXCEPT ![h] = Idle]

----------------------------------------------------------------------------
\* request: the row is created PENDING; audit and event follow.
Requested(maker, action, target, decision) ==
    \E r \in RequestIds :
        /\ approvals[r] = NoRequest
        /\ \A q \in RequestIds : q < r => approvals[q] # NoRequest
        /\ approvals' = [approvals EXCEPT ![r] =
              [state |-> "PENDING", action |-> action, target |-> target,
               decision |-> decision, maker |-> maker, checker |-> Nobody]]
        /\ UNCHANGED <<ran, calls, crashes>>

\* assertChecker: not the maker, and allowed to check.
IsChecker(s, r) == s # approvals[r].maker /\ s \in Checkers

\* approve and reject both read the row and the checker before they claim it.
ReadRequest(h, r, s, verdict) ==
    /\ approvals[r].state = "PENDING"
    /\ IsChecker(s, r)
    /\ Start(h, verdict, r, s, "", 0)
    /\ UNCHANGED <<approvals, ran, crashes>>

\* The conditional updateMany PENDING -> state; count 0 is a 409.
ClaimAs(h, state) ==
    LET r == task[h].id IN
    approvals' = [approvals EXCEPT ![r].state = state, ![r].checker = task[h].who]
\* Mutant: the update does not ask for PENDING.
UnclaimedOrNot(h) == TRUE
Unclaimed(h) == approvals[task[h].id].state = "PENDING"

ClaimApproved(h) ==
    /\ task[h].op = "approve"
    /\ IF Unclaimed(h)
       THEN /\ ClaimAs(h, "APPROVED")
            /\ task' = [task EXCEPT ![h].op = "execute", ![h].appr = task[h].id]
       ELSE Done(h) /\ UNCHANGED approvals
    /\ UNCHANGED <<ran, calls, crashes>>

ClaimRejected(h) ==
    /\ task[h].op = "reject"
    /\ IF Unclaimed(h) THEN ClaimAs(h, "REJECTED") ELSE UNCHANGED approvals
    /\ Done(h)
    /\ UNCHANGED <<ran, calls, crashes>>

\* What the executor called by approve leaves behind: its effect committed, or a throw.
Executing(h, action) ==
    task[h].op = "execute" /\ approvals[task[h].appr].action = action
Committed(h) ==
    IF task[h].appr = 0
    THEN UNCHANGED ran
    ELSE ran' = [ran EXCEPT ![task[h].appr] = @ + 1]
\* The end of a step that may have run inside an executor.
Return(h) == IF task[h].appr = 0 THEN Done(h) ELSE Goto(h, "executed")
Throw(h) == IF task[h].appr = 0 THEN Done(h) ELSE Goto(h, "failed")

\* EXECUTED, or FAILED when the executor, its audit entry or this update throws.
Finish(h) ==
    LET r == task[h].appr IN
    /\ task[h].op \in {"executed", "failed"}
    /\ \E state \in {"EXECUTED", "FAILED"} :
          /\ state = "EXECUTED" => task[h].op = "executed"
          /\ approvals' = [approvals EXCEPT ![r].state = state]
    /\ Done(h)
    /\ UNCHANGED <<ran, calls, crashes>>

\* The process stops: every handler is gone, the rows stay.
CrashTasks ==
    /\ crashes < MaxCrashes
    /\ crashes' = crashes + 1
    /\ task' = [h \in Handlers |-> Idle]
    /\ UNCHANGED <<approvals, ran, calls>>

ApprovalStep(h) ==
    \/ \E r \in RequestIds, s \in Staff, verdict \in {"approve", "reject"} :
          ReadRequest(h, r, s, verdict)
    \/ ClaimApproved(h)
    \/ ClaimRejected(h)
    \/ Finish(h)

----------------------------------------------------------------------------
RequestStates == {"NONE", "PENDING", "APPROVED", "REJECTED", "EXECUTED", "FAILED"}

ApprovalsTypeOK ==
    /\ \A r \in RequestIds :
          /\ approvals[r].state \in RequestStates
          /\ approvals[r].maker \in Staff \cup {Nobody}
          /\ approvals[r].checker \in Staff \cup {Nobody}
    /\ ran \in [RequestIds -> Nat]
    /\ \A h \in Handlers : task[h].appr \in RequestIds \cup {0}
    /\ calls \in 0 .. MaxCalls
    /\ crashes \in 0 .. MaxCrashes

\* Every effect of a request was agreed by two people, once: the executor ran
\* at most once, only after a checker other than the maker approved, never for
\* a rejected request, and EXECUTED is not reported without it
\* (approvals.service.ts:106 "deux checkers simultanes ne peuvent pas executer
\* deux fois").  Two checkers may decide at the same time and the process may
\* stop anywhere.
EffectsNeedTwoPeople ==
    \A r \in RequestIds :
        /\ ran[r] <= 1
        /\ ran[r] = 1 =>
              /\ approvals[r].state \in {"APPROVED", "EXECUTED", "FAILED"}
              /\ approvals[r].checker \in Checkers \ {approvals[r].maker}
        /\ approvals[r].state = "EXECUTED" => ran[r] = 1
============================================================================
