--------------------------- MODULE ReviewsProofs ---------------------------
(***************************************************************************)
(* What holds of approvals, identity files and compliance cases for every  *)
(* staff, every number of handlers, requests, cases and alerts, and any    *)
(* number of stops: the types, that every effect was agreed by two people, *)
(* once, that whoever may trade has an approved case, and that a case is   *)
(* closed by two people.                                                   *)
(***************************************************************************)
EXTENDS Compliance, TLAPS

USE StaffAssumption, RequestsAssumption, BoundsAssumption, KycAssumption, FilesAssumption

FileStates == {"NONE", "OPEN", "UNDER_REVIEW", "ESCALATED"} \cup TERMINAL_STATES
Verdicts == {"VALIDATED", "REJECTED"}
Words == {"", "clean", "hits", "doubt"} \cup Verdicts \cup COMPLIANCE_DECISIONS \cup FileStates

\* What a handler works on at each step: a case, a file or a request.
KycOps == {"submit", "verify", "autoApprove", "toReview", "requestKyc",
           "apply", "validate", "refuse", "account"}
FileOps == {"reviewFile", "decideFile"}
ClaimOps == {"approve", "reject"}
OtherOps == {"idle", "createDraft", "raise", "createAlert", "createFile"}
EndOps == {"execute", "executed", "failed"}
Ops == KycOps \cup FileOps \cup ClaimOps \cup OtherOps \cup EndOps

\* The steps of an executor, before and after its effect is committed.
BeforeCommit == {"execute", "apply", "validate", "refuse", "decideFile", "failed"}
AfterCommit == {"account", "executed"}

Tasks == [op : Ops, id : Nat, who : Staff \cup {Nobody}, seen : Words, appr : RequestIds \cup {0}]
Actions == {"", "KYC_DECISION", "USER_UNBLOCK", "FILE_DECISION"}
Requests == [state : RequestStates, action : Actions, target : Nat, decision : Words,
             maker : Staff \cup {Nobody}, checker : Staff \cup {Nobody}]

\* What a request says of its effect, whoever executes it.
RequestRows ==
    \A r \in RequestIds :
        /\ approvals[r].state \in {"NONE", "PENDING", "REJECTED"} => ran[r] = 0
        /\ approvals[r].state \in {"NONE", "PENDING"} => approvals[r].checker = Nobody
        /\ approvals[r].state \in {"APPROVED", "EXECUTED", "FAILED"} =>
              approvals[r].checker \in Checkers \ {approvals[r].maker}
        /\ approvals[r].state = "EXECUTED" => ran[r] = 1
        /\ ran[r] <= 1
        /\ approvals[r].action = "FILE_DECISION" =>
              approvals[r].target \in Files /\ approvals[r].decision \in COMPLIANCE_DECISIONS
        /\ approvals[r].action = "KYC_DECISION" => approvals[r].target \in CaseIds

\* What a handler relies on: the rows it works on exist, the request it executes
\* is APPROVED, and its effect is still to come, or has been committed.
Duty(h) ==
    /\ task[h].op \in KycOps => task[h].id \in CaseIds
    /\ task[h].op \in FileOps => task[h].id \in Files
    /\ task[h].op = "createFile" => task[h].id \in AlertIds \cup {0}
    /\ task[h].op \in ClaimOps =>
          /\ task[h].id \in RequestIds /\ task[h].appr = 0
          /\ approvals[task[h].id].state # "NONE"
          /\ IsChecker(task[h].who, task[h].id)
    /\ task[h].op \in EndOps \cup {"decideFile"} => task[h].appr # 0
    /\ task[h].appr # 0 =>
          /\ task[h].op \in BeforeCommit \cup AfterCommit
          /\ approvals[task[h].appr].state = "APPROVED"
          /\ ran[task[h].appr] = IF task[h].op \in AfterCommit THEN 1 ELSE 0
    /\ task[h].op = "decideFile" =>
          /\ approvals[task[h].appr].action = "FILE_DECISION"
          /\ approvals[task[h].appr].target = task[h].id

OneExecutor ==
    \A g, h \in Handlers : task[g].appr = task[h].appr /\ task[g].appr # 0 => g = h

ApprovalTypes ==
    /\ approvals \in [RequestIds -> Requests]
    /\ ran \in [RequestIds -> Nat]
    /\ task \in [Handlers -> Tasks]
    /\ calls \in 0 .. MaxCalls
    /\ crashes \in 0 .. MaxCrashes

ApprovalInv == ApprovalTypes /\ RequestRows /\ (\A h \in Handlers : Duty(h)) /\ OneExecutor

----------------------------------------------------------------------------
(* Tasks. *)

LEMMA ZeroIsNoRequest == 0 \notin RequestIds
OBVIOUS

LEMMA IdleIsTask == Idle \in Tasks /\ Idle.op = "idle" /\ Idle.appr = 0
BY DEF Idle, Tasks, Ops, OtherOps, Words

LEMMA Moved ==
  ASSUME ApprovalTypes, NEW h \in Handlers, NEW next \in Tasks, task' = [task EXCEPT ![h] = next]
  PROVE  /\ task' \in [Handlers -> Tasks] /\ task'[h] = next
         /\ \A g \in Handlers \ {h} : task'[g] = task[g]
BY DEF ApprovalTypes

\* An idle handler relies on nothing.
LEMMA IdleDuty ==
  ASSUME NEW h \in Handlers, task[h] = Idle
  PROVE  Duty(h)
BY IdleIsTask DEF Duty, KycOps, FileOps, ClaimOps, EndOps

LEMMA GotoMoves ==
  ASSUME ApprovalTypes, NEW h \in Handlers, NEW op \in Ops, Goto(h, op)
  PROVE  /\ task' = [task EXCEPT ![h] = [task[h] EXCEPT !.op = op]]
         /\ [task[h] EXCEPT !.op = op] \in Tasks
         /\ [task[h] EXCEPT !.op = op].op = op
         /\ [task[h] EXCEPT !.op = op].id = task[h].id
         /\ [task[h] EXCEPT !.op = op].who = task[h].who
         /\ [task[h] EXCEPT !.op = op].seen = task[h].seen
         /\ [task[h] EXCEPT !.op = op].appr = task[h].appr
<1>1. task[h] \in Tasks
  BY DEF ApprovalTypes
<1>2. task' = [task EXCEPT ![h] = [task[h] EXCEPT !.op = op]]
  BY DEF Goto, ApprovalTypes
<1>3. QED
  BY <1>1, <1>2 DEF Tasks

\* A step of h that leaves the requests and their effects.
LEMMA TaskStep ==
  ASSUME ApprovalInv, NEW h \in Handlers, NEW next \in Tasks,
         task' = [task EXCEPT ![h] = next], UNCHANGED <<approvals, ran>>,
         calls' \in 0 .. MaxCalls, crashes' \in 0 .. MaxCrashes,
         next.appr \in {0, task[h].appr}, Duty(h)'
  PROVE  ApprovalInv'
<1>1. /\ task' \in [Handlers -> Tasks] /\ task'[h] = next
      /\ \A g \in Handlers \ {h} : task'[g] = task[g]
  BY Moved DEF ApprovalInv
<1>2. ApprovalTypes'
  BY <1>1 DEF ApprovalInv, ApprovalTypes
<1>3. RequestRows'
  BY DEF ApprovalInv, RequestRows
<1>4. ASSUME NEW g \in Handlers
      PROVE  Duty(g)'
  <2>1. CASE g = h
    BY <2>1
  <2>2. CASE g # h
    BY <1>1, <2>2 DEF ApprovalInv, Duty, IsChecker
  <2>3. QED
    BY <2>1, <2>2
<1>5. OneExecutor'
  BY <1>1 DEF ApprovalInv, OneExecutor
<1>6. QED
  BY <1>2, <1>3, <1>4, <1>5 DEF ApprovalInv

LEMMA DoneStep ==
  ASSUME ApprovalInv, NEW h \in Handlers, Done(h), UNCHANGED <<approvals, ran, calls, crashes>>
  PROVE  ApprovalInv'
<1>1. task' = [task EXCEPT ![h] = Idle]
  BY DEF Done
<1>2. task'[h] = Idle
  BY <1>1, IdleIsTask, Moved DEF ApprovalInv
<1>3. Duty(h)'
  BY <1>2, IdleIsTask DEF Duty, KycOps, FileOps, ClaimOps, EndOps
<1>4. QED
  BY <1>1, <1>3, IdleIsTask, TaskStep DEF ApprovalInv, ApprovalTypes

LEMMA StartMoves ==
  ASSUME ApprovalTypes, NEW h \in Handlers, NEW op \in Ops, NEW id \in Nat,
         NEW who \in Staff \cup {Nobody}, NEW seen \in Words, Start(h, op, id, who, seen, 0)
  PROVE  \E next \in Tasks :
           /\ task' = [task EXCEPT ![h] = next] /\ task'[h] = next
           /\ next.op = op /\ next.id = id /\ next.who = who /\ next.appr = 0
           /\ calls' \in 0 .. MaxCalls
<1> DEFINE next == [op |-> op, id |-> id, who |-> who, seen |-> seen, appr |-> 0]
<1>1. next \in Tasks
  BY DEF Tasks
<1>2. task' = [task EXCEPT ![h] = next] /\ calls' \in 0 .. MaxCalls
  BY DEF Start, ApprovalTypes
<1>3. task'[h] = next
  BY <1>1, <1>2, Moved
<1>4. QED
  BY <1>1, <1>2, <1>3

\* A call begins with a row it may work on.
LEMMA StartStep ==
  ASSUME ApprovalInv, NEW h \in Handlers, NEW op \in KycOps \cup FileOps \cup ClaimOps \cup OtherOps,
         NEW id \in Nat, NEW who \in Staff \cup {Nobody}, NEW seen \in Words,
         Start(h, op, id, who, seen, 0), UNCHANGED <<approvals, ran, crashes>>,
         op \in KycOps => id \in CaseIds,
         op \in FileOps => id \in Files /\ op # "decideFile",
         op = "createFile" => id \in AlertIds \cup {0},
         op \in ClaimOps => id \in RequestIds /\ approvals[id].state # "NONE" /\ IsChecker(who, id)
  PROVE  ApprovalInv'
<1>1. op \in Ops /\ op \notin EndOps
  BY DEF Ops, KycOps, FileOps, ClaimOps, OtherOps, EndOps
<1>2. PICK next \in Tasks :
           /\ task' = [task EXCEPT ![h] = next] /\ task'[h] = next
           /\ next.op = op /\ next.id = id /\ next.who = who /\ next.appr = 0
           /\ calls' \in 0 .. MaxCalls
  BY <1>1, StartMoves DEF ApprovalInv
<1>3. op # "decideFile"
  BY DEF FileOps, KycOps, ClaimOps, OtherOps
<1>4. Duty(h)'
  BY <1>1, <1>2, <1>3 DEF Duty, IsChecker
<1>5. QED
  BY <1>2, <1>4, TaskStep DEF ApprovalInv, ApprovalTypes

\* A step inside a call, or inside an executor on one side of its commit.
LEMMA GotoStep ==
  ASSUME ApprovalInv, NEW h \in Handlers, NEW op \in KycOps \cup OtherOps \cup EndOps,
         Goto(h, op), UNCHANGED <<approvals, ran, calls, crashes>>,
         op \in KycOps => task[h].id \in CaseIds,
         op = "createFile" => task[h].id \in AlertIds \cup {0},
         op \in EndOps => task[h].appr # 0,
         task[h].appr # 0 => \/ op \in BeforeCommit /\ task[h].op \in BeforeCommit
                             \/ op \in AfterCommit /\ task[h].op \in AfterCommit
  PROVE  ApprovalInv'
<1> DEFINE next == [task[h] EXCEPT !.op = op]
<1>1. op \in Ops /\ op \notin FileOps \cup ClaimOps \cup {"decideFile"}
  BY DEF Ops, KycOps, FileOps, ClaimOps, OtherOps, EndOps
<1>2. /\ task' = [task EXCEPT ![h] = next] /\ next \in Tasks
      /\ next.op = op /\ next.id = task[h].id /\ next.appr = task[h].appr
  BY <1>1, GotoMoves DEF ApprovalInv
<1>3. task'[h] = next
  BY <1>2, Moved DEF ApprovalInv
<1>4. BeforeCommit \cap AfterCommit = {}
  BY DEF BeforeCommit, AfterCommit
<1>5. Duty(h)
  BY DEF ApprovalInv
<1>6. Duty(h)'
  BY <1>1, <1>2, <1>3, <1>4, <1>5 DEF Duty
<1>7. QED
  BY <1>2, <1>6, TaskStep DEF ApprovalInv, ApprovalTypes

\* The steps of the identity file that touch no request.
LEMMA KycCallSteps ==
  ASSUME ApprovalInv, NEW h \in Handlers,
         \/ OpenKycCase(h) \/ CreateDraft(h) \/ \E c \in CaseIds : Submit(h, c)
         \/ MarkSubmitted(h) \/ ProviderDown(h) \/ AutoApprove(h) \/ ToManualReview(h)
         \/ \E s \in Staff, c \in CaseIds, d \in {"VALIDATED", "REJECTED"} : DecideKyc(h, s, c, d)
         \/ ApplyDecision(h) \/ RequestAccount(h)
  PROVE  ApprovalInv'
<1>d. Duty(h) /\ task[h] \in Tasks
  BY DEF ApprovalInv, ApprovalTypes
<1>w. "" \in Words /\ "VALIDATED" \in Words /\ "REJECTED" \in Words
  BY DEF Words, Verdicts
<1>k. CaseIds \subseteq Nat
  BY DEF CaseIds
<1>1. CASE OpenKycCase(h)
  BY <1>1, <1>w, StartStep DEF OpenKycCase, OtherOps, KycOps, FileOps, ClaimOps
<1>2. CASE CreateDraft(h)
  BY <1>2, DoneStep DEF CreateDraft
<1>3. ASSUME NEW c \in CaseIds, Submit(h, c)
      PROVE  ApprovalInv'
  BY <1>3, <1>w, <1>k, StartStep DEF Submit, OtherOps, KycOps, FileOps, ClaimOps
<1>4. CASE MarkSubmitted(h)
  BY <1>4, <1>d, GotoStep DEF MarkSubmitted, Duty, KycOps, OtherOps, EndOps, BeforeCommit, AfterCommit
<1>5. CASE ProviderDown(h)
  BY <1>5, <1>d, GotoStep DEF ProviderDown, Duty, KycOps, OtherOps, EndOps, BeforeCommit, AfterCommit
<1>6. CASE AutoApprove(h)
  BY <1>6, <1>d, GotoStep DEF AutoApprove, Duty, KycOps, OtherOps, EndOps, BeforeCommit, AfterCommit
<1>7. CASE ToManualReview(h)
  <2>1. CASE Done(h)
    BY <1>7, <2>1, DoneStep DEF ToManualReview
  <2>2. CASE Goto(h, "raise")
    BY <1>7, <1>d, <2>2, GotoStep
       DEF ToManualReview, Duty, KycOps, OtherOps, EndOps, BeforeCommit, AfterCommit
  <2>3. QED
    BY <1>7, <2>1, <2>2 DEF ToManualReview
<1>8. ASSUME NEW s \in Staff, NEW c \in CaseIds, NEW d \in {"VALIDATED", "REJECTED"},
             DecideKyc(h, s, c, d)
      PROVE  ApprovalInv'
  <2>1. d \in Words
    BY <1>w
  <2>2. PICK op \in {"requestKyc", "apply"} : Start(h, op, c, s, d, 0)
    BY <1>8 DEF DecideKyc
  <2>3. QED
    BY <1>8, <1>k, <2>1, <2>2, StartStep DEF DecideKyc, OtherOps, KycOps, FileOps, ClaimOps
<1>9. CASE ApplyDecision(h)
  <2>1. task[h].op = "apply" /\ UNCHANGED <<approvals, ran, calls, crashes>>
    BY <1>9 DEF ApplyDecision
  <2>2. CASE Done(h)
    BY <2>1, <2>2, DoneStep
  <2>3. ASSUME NEW op \in {"validate", "refuse"}, Goto(h, op)
        PROVE  ApprovalInv'
    BY <1>d, <2>1, <2>3, GotoStep DEF Duty, KycOps, OtherOps, EndOps, BeforeCommit, AfterCommit
  <2>4. CASE Goto(h, "failed") /\ task[h].appr # 0
    BY <1>d, <2>1, <2>4, GotoStep DEF Duty, KycOps, OtherOps, EndOps, BeforeCommit, AfterCommit
  <2>5. QED
    BY <1>9, <2>2, <2>3, <2>4 DEF ApplyDecision, Throw
<1>10. CASE RequestAccount(h)
  <2>1. task[h].op = "account" /\ UNCHANGED <<approvals, ran, calls, crashes>>
    BY <1>10 DEF RequestAccount
  <2>2. CASE Done(h)
    BY <2>1, <2>2, DoneStep
  <2>3. CASE Goto(h, "executed") /\ task[h].appr # 0
    BY <1>d, <2>1, <2>3, GotoStep DEF Duty, KycOps, OtherOps, EndOps, BeforeCommit, AfterCommit
  <2>4. QED
    BY <1>10, <2>2, <2>3 DEF RequestAccount, Return
<1>11. QED
  BY <1>1, <1>2, <1>3, <1>4, <1>5, <1>6, <1>7, <1>8, <1>9, <1>10

LEMMA AnswerStep ==
  ASSUME ApprovalInv, NEW h \in Handlers, NEW answer \in {"clean", "hits", "doubt"},
         ProviderAnswers(h, answer)
  PROVE  ApprovalInv'
<1> DEFINE op == IF answer = "clean" THEN "autoApprove" ELSE "toReview"
           next == [task[h] EXCEPT !.op = op, !.seen = answer]
<1>d. Duty(h) /\ task[h] \in Tasks /\ task[h].op = "verify"
  BY DEF ApprovalInv, ApprovalTypes, ProviderAnswers
<1>1. answer \in Words /\ op \in {"autoApprove", "toReview"}
  BY DEF Words
<1>2. op \in Ops
  BY <1>1 DEF Ops, KycOps
<1>3. /\ next \in Tasks /\ next.op = op /\ next.id = task[h].id /\ next.appr = task[h].appr
      /\ task' = [task EXCEPT ![h] = next]
  <2>1. next \in Tasks /\ next.op = op /\ next.id = task[h].id /\ next.appr = task[h].appr
    BY <1>d, <1>1, <1>2 DEF Tasks
  <2>2. task' = [task EXCEPT ![h] = next]
    BY DEF ProviderAnswers, ApprovalInv, ApprovalTypes
  <2>3. QED
    BY <2>1, <2>2
<1>4. task'[h] = next /\ UNCHANGED <<approvals, ran, calls, crashes>>
  BY <1>3, Moved DEF ApprovalInv, ProviderAnswers
<1>5. task[h].id \in CaseIds /\ task[h].appr = 0
  BY <1>d DEF Duty, KycOps, BeforeCommit, AfterCommit
<1>6. Duty(h)'
  BY <1>1, <1>3, <1>4, <1>5 DEF Duty, KycOps, FileOps, ClaimOps, EndOps
<1>7. QED
  BY <1>3, <1>4, <1>6, TaskStep DEF ApprovalInv, ApprovalTypes

\* The steps of alerts and files that touch no request.
LEMMA FileCallSteps ==
  ASSUME ApprovalInv, NEW h \in Handlers,
         \/ EventRaises(h) \/ FindAlert(h) \/ CreateAlert(h)
         \/ \E a \in AlertIds \cup {0} : OpenFile(h, a)
         \/ CreateFile(h) \/ \E f \in Files : AddNote(h, f)
         \/ ReviewFile(h)
  PROVE  ApprovalInv'
<1>d. Duty(h) /\ task[h] \in Tasks
  BY DEF ApprovalInv, ApprovalTypes
<1>w. "" \in Words
  BY DEF Words
<1>1. CASE EventRaises(h)
  BY <1>1, <1>w, StartStep DEF EventRaises, OtherOps, KycOps, FileOps, ClaimOps
<1>2. CASE FindAlert(h)
  <2>1. task[h].op = "raise" /\ UNCHANGED <<approvals, ran, calls, crashes>>
    BY <1>2 DEF FindAlert
  <2>2. CASE Done(h)
    BY <2>1, <2>2, DoneStep
  <2>3. CASE Goto(h, "createAlert")
    BY <1>d, <2>1, <2>3, GotoStep DEF Duty, KycOps, OtherOps, EndOps, BeforeCommit, AfterCommit
  <2>4. QED
    BY <1>2, <2>2, <2>3 DEF FindAlert
<1>3. CASE CreateAlert(h) \/ CreateFile(h) \/ ReviewFile(h)
  <2>1. Done(h) /\ UNCHANGED <<approvals, ran, calls, crashes>>
    BY <1>3 DEF CreateAlert, CreateFile, ReviewFile
  <2>2. QED
    BY <2>1, DoneStep
<1>4. ASSUME NEW a \in AlertIds \cup {0}, OpenFile(h, a)
      PROVE  ApprovalInv'
  <2>1. Start(h, "createFile", a, Nobody, "", 0) /\ UNCHANGED <<approvals, ran, crashes>>
    BY <1>4 DEF OpenFile
  <2>2. "createFile" \in OtherOps \ (KycOps \cup FileOps \cup ClaimOps)
    BY DEF OtherOps, KycOps, FileOps, ClaimOps
  <2>3. a \in Nat
    OBVIOUS
  <2>4. QED
    BY <1>w, <2>1, <2>2, <2>3, StartStep
<1>5. ASSUME NEW f \in Files, AddNote(h, f)
      PROVE  ApprovalInv'
  <2>1. Start(h, "reviewFile", f, Nobody, "", 0) /\ UNCHANGED <<approvals, ran, crashes>>
    BY <1>5 DEF AddNote
  <2>2. "reviewFile" \in FileOps \ (KycOps \cup ClaimOps)
    BY DEF KycOps, FileOps, ClaimOps
  <2>3. f \in Nat
    OBVIOUS
  <2>4. QED
    BY <1>w, <2>1, <2>2, <2>3, StartStep
<1>6. QED
  BY <1>1, <1>2, <1>3, <1>4, <1>5

\* The executors that begin with what the request says.
LEMMA ExecutorSteps ==
  ASSUME ApprovalInv, NEW h \in Handlers, ExecuteKycDecision(h) \/ ReadFile(h),
         files \in [Files -> [state : FileStates, decisions : SUBSET COMPLIANCE_DECISIONS]]
  PROVE  ApprovalInv'
<1> DEFINE r == task[h].appr
<1>d. Duty(h) /\ task[h] \in Tasks /\ task[h].op = "execute"
  BY DEF ApprovalInv, ApprovalTypes, ExecuteKycDecision, ReadFile, Executing
<1>r. r \in RequestIds /\ r # 0 /\ approvals[r] \in Requests /\ approvals[r].state = "APPROVED" /\ ran[r] = 0
  <2>1. r # 0 /\ r \in RequestIds
    BY <1>d DEF Duty, EndOps, Tasks
  <2>2. QED
    BY <1>d, <2>1 DEF Duty, AfterCommit, ApprovalInv, ApprovalTypes
<1>1. CASE ExecuteKycDecision(h)
  <2> DEFINE next == [task[h] EXCEPT !.op = "apply", !.id = approvals[r].target, !.seen = approvals[r].decision]
  <2>1. approvals[r].target \in CaseIds /\ approvals[r].target \in Nat
    BY <1>1, <1>r DEF ExecuteKycDecision, Executing, ApprovalInv, RequestRows, Requests
  <2>2. approvals[r].decision \in Words /\ "apply" \in Ops
    BY <1>r DEF Requests, Ops, KycOps
  <2>3. next \in Tasks /\ next.op = "apply" /\ next.id = approvals[r].target /\ next.appr = r
    BY <1>d, <2>1, <2>2 DEF Tasks
  <2>4. task' = [task EXCEPT ![h] = next] /\ UNCHANGED <<approvals, ran, calls, crashes>>
    BY <1>1 DEF ExecuteKycDecision, ApprovalInv, ApprovalTypes
  <2>5. task'[h] = next
    BY <2>3, <2>4, Moved DEF ApprovalInv
  <2>e. /\ task'[h].op = "apply" /\ task'[h].id \in CaseIds
        /\ task'[h].appr = r
    BY <2>1, <2>3, <2>5
  <2>6. Duty(h)'
    <3> HIDE DEF next
    <3>1. approvals'[r].state = "APPROVED" /\ ran'[r] = 0
      BY <1>r, <2>4
    <3>2. QED
      BY <1>r, <2>e, <3>1 DEF Duty, KycOps, FileOps, ClaimOps, EndOps, BeforeCommit, AfterCommit
  <2>7. QED
    BY <2>3, <2>4, <2>6, TaskStep DEF ApprovalInv, ApprovalTypes
<1>2. CASE ReadFile(h)
  <2> DEFINE f == approvals[r].target
             next == [task[h] EXCEPT !.op = "decideFile", !.id = f, !.seen = files[f].state]
  <2>1. approvals[r].action = "FILE_DECISION" /\ f \in Files /\ f \in Nat
    BY <1>2, <1>r DEF ReadFile, Executing, ApprovalInv, RequestRows, Requests
  <2>2. files[f].state \in Words /\ "decideFile" \in Ops
    BY <2>1 DEF Words, Ops, FileOps
  <2>3. next \in Tasks /\ next.op = "decideFile" /\ next.id = f /\ next.appr = r
    BY <1>d, <2>1, <2>2 DEF Tasks
  <2>4. task' = [task EXCEPT ![h] = next] /\ UNCHANGED <<approvals, ran, calls, crashes>>
    BY <1>2 DEF ReadFile, ApprovalInv, ApprovalTypes
  <2>5. task'[h] = next
    BY <2>3, <2>4, Moved DEF ApprovalInv
  <2>e. /\ task'[h].op = "decideFile" /\ task'[h].id = f /\ f \in Files
        /\ task'[h].appr = r
    BY <2>1, <2>3, <2>5
  <2>6. Duty(h)'
    <3> HIDE DEF next
    <3>1. /\ approvals'[r].state = "APPROVED" /\ ran'[r] = 0
          /\ approvals'[r].action = "FILE_DECISION" /\ approvals'[r].target = f
      BY <1>r, <2>1, <2>4
    <3>2. QED
      BY <1>r, <2>e, <3>1 DEF Duty, KycOps, FileOps, ClaimOps, EndOps, BeforeCommit, AfterCommit
  <2>7. QED
    BY <2>3, <2>4, <2>6, TaskStep DEF ApprovalInv, ApprovalTypes
<1>3. QED
  BY <1>1, <1>2

----------------------------------------------------------------------------
(* Requests. *)

\* Once decided, a request keeps its checker; once made, what it asks for.
RowsGrow ==
    \A r \in RequestIds :
        /\ approvals[r].state # "NONE" =>
              /\ approvals'[r].state # "NONE" /\ approvals'[r].action = approvals[r].action
              /\ approvals'[r].target = approvals[r].target
              /\ approvals'[r].decision = approvals[r].decision
              /\ approvals'[r].maker = approvals[r].maker
        /\ approvals[r].state \notin {"NONE", "PENDING"} =>
              /\ approvals'[r].checker = approvals[r].checker
              /\ approvals'[r].state \notin {"NONE", "PENDING"}

\* What a step does to the request r, or its effect, disturbs nobody who executes another.
LEMMA DutyKept ==
  ASSUME ApprovalInv, NEW g \in Handlers, task'[g] = task[g], RowsGrow,
         NEW r \in RequestIds, task[g].appr # r,
         \A q \in RequestIds \ {r} : approvals'[q] = approvals[q] /\ ran'[q] = ran[q]
  PROVE  Duty(g)'
<1>1. Duty(g) /\ task[g] \in Tasks
  BY DEF ApprovalInv, ApprovalTypes
<1>2. task[g].appr # 0 => task[g].appr \in RequestIds \ {r}
  BY <1>1 DEF Tasks
<1>3. task[g].appr # 0 => /\ approvals'[task[g].appr] = approvals[task[g].appr]
                          /\ ran'[task[g].appr] = ran[task[g].appr]
  BY <1>2
<1>4. task[g].op \in ClaimOps => /\ approvals'[task[g].id].state # "NONE"
                                /\ approvals'[task[g].id].maker = approvals[task[g].id].maker
  BY <1>1 DEF Duty, RowsGrow
<1>5. task[g].op = "decideFile" => task[g].appr # 0
  BY <1>1 DEF Duty
<1>6. QED
  BY <1>1, <1>3, <1>4, <1>5 DEF Duty, IsChecker

\* A handler whose effect is committed goes on after the commit.
LEMMA CommitStep ==
  ASSUME ApprovalInv, NEW h \in Handlers, task[h].op \in BeforeCommit \ {"failed"}, Committed(h),
         UNCHANGED <<approvals, calls, crashes>>,
         \/ Goto(h, "account") /\ task[h].id \in CaseIds
         \/ Return(h)
  PROVE  ApprovalInv'
<1> DEFINE r == task[h].appr
<1>d. Duty(h) /\ task[h] \in Tasks
  BY DEF ApprovalInv, ApprovalTypes
<1>1. CASE r = 0
  <2>1. UNCHANGED ran
    BY <1>1 DEF Committed
  <2>2. CASE Done(h)
    BY <2>1, <2>2, DoneStep
  <2>3. CASE Goto(h, "account") /\ task[h].id \in CaseIds
    BY <1>1, <2>1, <2>3, GotoStep DEF KycOps, EndOps
  <2>4. QED
    BY <1>1, <2>2, <2>3 DEF Return
<1>2. CASE r # 0
  <2>1. r \in RequestIds /\ approvals[r].state = "APPROVED" /\ ran[r] = 0
    BY <1>d, <1>2 DEF Duty, Tasks, BeforeCommit, AfterCommit
  <2>2. ran' = [ran EXCEPT ![r] = @ + 1]
    BY <1>2 DEF Committed
  <2>3. /\ ran' \in [RequestIds -> Nat] /\ ran'[r] = 1
        /\ \A q \in RequestIds \ {r} : ran'[q] = ran[q]
    BY <2>1, <2>2 DEF ApprovalInv, ApprovalTypes
  <2>4. PICK op \in {"account", "executed"} : Goto(h, op) /\ (op = "account" => task[h].id \in CaseIds)
    BY <1>2 DEF Return
  <2> DEFINE next == [task[h] EXCEPT !.op = op]
  <2>5. /\ task' = [task EXCEPT ![h] = next] /\ next \in Tasks
        /\ next.op = op /\ next.id = task[h].id /\ next.appr = r
    BY <2>4, GotoMoves DEF ApprovalInv, Ops, KycOps, EndOps
  <2>6. /\ task' \in [Handlers -> Tasks] /\ task'[h] = next
        /\ \A g \in Handlers \ {h} : task'[g] = task[g]
    BY <2>5, Moved DEF ApprovalInv
  <2>7. ApprovalTypes'
    BY <2>3, <2>6 DEF ApprovalInv, ApprovalTypes
  <2>8. RequestRows'
    <3>1. ASSUME NEW q \in RequestIds
          PROVE  /\ approvals[q].state \in {"NONE", "PENDING", "REJECTED"} => ran'[q] = 0
                 /\ approvals[q].state = "EXECUTED" => ran'[q] = 1
                 /\ ran'[q] <= 1
      BY <2>1, <2>3 DEF ApprovalInv, RequestRows
    <3>2. QED
      BY <3>1 DEF ApprovalInv, RequestRows
  <2>9. Duty(h)'
    BY <1>2, <2>1, <2>3, <2>4, <2>5, <2>6
       DEF Duty, KycOps, FileOps, ClaimOps, EndOps, BeforeCommit, AfterCommit
  <2>10. ASSUME NEW g \in Handlers \ {h}
         PROVE  Duty(g)'
    <3>1. task[g].appr # r
      BY <1>2 DEF ApprovalInv, OneExecutor
    <3>2. RowsGrow
      BY DEF RowsGrow
    <3>3. QED
      BY <2>1, <2>3, <2>6, <3>1, <3>2, DutyKept
  <2>11. OneExecutor'
    BY <2>5, <2>6 DEF ApprovalInv, OneExecutor
  <2>12. QED
    BY <2>7, <2>8, <2>9, <2>10, <2>11 DEF ApprovalInv
<1>3. QED
  BY <1>1, <1>2

LEMMA CommittingSteps ==
  ASSUME ApprovalInv, NEW h \in Handlers,
         Validate(h) \/ Refuse(h) \/ ExecuteUnblock(h) \/ DecideFile(h)
  PROVE  ApprovalInv'
<1>d. Duty(h)
  BY DEF ApprovalInv
<1>1. CASE Validate(h)
  BY <1>1, <1>d, CommitStep DEF Validate, Duty, KycOps, BeforeCommit
<1>2. CASE Refuse(h)
  BY <1>2, CommitStep DEF Refuse, BeforeCommit
<1>3. CASE ExecuteUnblock(h)
  BY <1>3, CommitStep DEF ExecuteUnblock, Executing, BeforeCommit
<1>4. CASE DecideFile(h)
  BY <1>4, CommitStep DEF DecideFile, BeforeCommit
<1>5. QED
  BY <1>1, <1>2, <1>3, <1>4

\* One request changes, and h, if its handler moves, moves with it.
LEMMA RequestStep ==
  ASSUME ApprovalInv, NEW r \in RequestIds, NEW row \in Requests,
         approvals' = [approvals EXCEPT ![r] = row], UNCHANGED <<ran, calls, crashes>>,
         RowsGrow, task' \in [Handlers -> Tasks],
         \A g \in Handlers :
            \/ Duty(g)'
            \/ task'[g] = task[g] /\ task[g].appr # r,
         \A g, f \in Handlers : task'[g].appr = task'[f].appr /\ task'[g].appr # 0 => g = f,
         row.state \in {"NONE", "PENDING", "REJECTED"} => ran[r] = 0,
         row.state \in {"NONE", "PENDING"} => row.checker = Nobody,
         row.state \in {"APPROVED", "EXECUTED", "FAILED"} => row.checker \in Checkers \ {row.maker},
         row.state = "EXECUTED" => ran[r] = 1,
         row.action = "FILE_DECISION" => row.target \in Files /\ row.decision \in COMPLIANCE_DECISIONS,
         row.action = "KYC_DECISION" => row.target \in CaseIds
  PROVE  ApprovalInv'
<1>1. /\ approvals' \in [RequestIds -> Requests] /\ approvals'[r] = row
      /\ \A q \in RequestIds \ {r} : approvals'[q] = approvals[q]
  BY DEF ApprovalInv, ApprovalTypes
<1>2. ApprovalTypes'
  BY <1>1 DEF ApprovalInv, ApprovalTypes
<1>3. RequestRows'
  BY <1>1 DEF ApprovalInv, RequestRows
<1>4. ASSUME NEW g \in Handlers
      PROVE  Duty(g)'
  BY <1>1, DutyKept
<1>5. OneExecutor'
  BY DEF OneExecutor
<1>6. QED
  BY <1>2, <1>3, <1>4, <1>5 DEF ApprovalInv

LEMMA RequestedGrows ==
  ASSUME ApprovalInv, NEW maker \in Staff \cup {Nobody}, NEW action \in Actions, NEW target \in Nat,
         NEW decision \in Words, Requested(maker, action, target, decision)
  PROVE  /\ RowsGrow
         /\ \E r \in RequestIds : \E row \in Requests :
              /\ approvals' = [approvals EXCEPT ![r] = row] /\ approvals[r].state = "NONE"
              /\ row.state = "PENDING" /\ row.checker = Nobody /\ row.action = action
              /\ row.target = target /\ row.decision = decision
<1>1. PICK r \in RequestIds :
        /\ approvals[r] = NoRequest
        /\ approvals' = [approvals EXCEPT ![r] =
              [state |-> "PENDING", action |-> action, target |-> target,
               decision |-> decision, maker |-> maker, checker |-> Nobody]]
  BY DEF Requested
<1> DEFINE row == [state |-> "PENDING", action |-> action, target |-> target,
                   decision |-> decision, maker |-> maker, checker |-> Nobody]
<1>2. row \in Requests
  BY DEF Requests, RequestStates
<1>3. approvals[r].state = "NONE"
  <2>1. NoRequest.state = "NONE"
    BY DEF NoRequest
  <2>2. QED
    BY <1>1, <2>1
<1>4. \A q \in RequestIds \ {r} : approvals'[q] = approvals[q]
  BY <1>1 DEF ApprovalInv, ApprovalTypes
<1>5. RowsGrow
  BY <1>3, <1>4 DEF RowsGrow
<1>6. QED
  BY <1>1, <1>2, <1>3, <1>5

\* Nobody works on a request that does not exist yet.
LEMMA RequestedStep ==
  ASSUME ApprovalInv, NEW maker \in Staff \cup {Nobody}, NEW action \in Actions, NEW target \in Nat,
         NEW decision \in Words, Requested(maker, action, target, decision),
         \/ UNCHANGED task
         \/ \E h \in Handlers : Done(h),
         action = "FILE_DECISION" => target \in Files /\ decision \in COMPLIANCE_DECISIONS,
         action = "KYC_DECISION" => target \in CaseIds
  PROVE  ApprovalInv'
<1>1. PICK r \in RequestIds : \E row \in Requests :
        /\ approvals' = [approvals EXCEPT ![r] = row] /\ approvals[r].state = "NONE"
        /\ row.state = "PENDING" /\ row.checker = Nobody /\ row.action = action
        /\ row.target = target /\ row.decision = decision
  BY RequestedGrows
<1>2. RowsGrow /\ UNCHANGED <<ran, calls, crashes>>
  BY RequestedGrows DEF Requested
<1>3. ran[r] = 0
  BY <1>1 DEF ApprovalInv, RequestRows
<1>4. \A g \in Handlers : task[g].appr # r
  <2>1. ASSUME NEW g \in Handlers, task[g].appr = r
        PROVE  approvals[r].state = "APPROVED"
    BY <2>1 DEF ApprovalInv, Duty
  <2>2. QED
    BY <1>1, <2>1
<1>5. /\ task' \in [Handlers -> Tasks]
      /\ \A g \in Handlers : task'[g] = task[g] \/ task'[g] = Idle
  <2>1. CASE UNCHANGED task
    BY <2>1 DEF ApprovalInv, ApprovalTypes
  <2>2. ASSUME NEW h \in Handlers, Done(h)
        PROVE  /\ task' \in [Handlers -> Tasks]
               /\ \A g \in Handlers : task'[g] = task[g] \/ task'[g] = Idle
    BY <2>2, Moved, IdleIsTask DEF Done, ApprovalInv
  <2>3. QED
    BY <2>1, <2>2
<1>6. \A g \in Handlers : Duty(g)' \/ (task'[g] = task[g] /\ task[g].appr # r)
  <2>1. ASSUME NEW g \in Handlers, task'[g] = Idle
        PROVE  Duty(g)'
    BY <2>1, IdleIsTask DEF Duty, KycOps, FileOps, ClaimOps, EndOps
  <2>2. QED
    BY <1>4, <1>5, <2>1
<1>7. \A g, f \in Handlers : task'[g].appr = task'[f].appr /\ task'[g].appr # 0 => g = f
  BY <1>5, IdleIsTask DEF ApprovalInv, OneExecutor
<1>8. PICK row \in Requests :
        /\ approvals' = [approvals EXCEPT ![r] = row]
        /\ row.state = "PENDING" /\ row.checker = Nobody /\ row.action = action
        /\ row.target = target /\ row.decision = decision
  BY <1>1
<1>9. /\ row.action = "FILE_DECISION" => row.target \in Files /\ row.decision \in COMPLIANCE_DECISIONS
      /\ row.action = "KYC_DECISION" => row.target \in CaseIds
  BY <1>8
<1>10. QED
  BY <1>2, <1>3, <1>5, <1>6, <1>7, <1>8, <1>9, RequestStep

LEMMA ClaimsGrow ==
  ASSUME ApprovalInv, NEW h \in Handlers, NEW state \in {"APPROVED", "REJECTED"},
         task[h].op \in ClaimOps, Unclaimed(h), ClaimAs(h, state)
  PROVE  LET r == task[h].id IN
         /\ RowsGrow /\ r \in RequestIds /\ approvals[r].state = "PENDING"
         /\ \E row \in Requests :
              /\ approvals' = [approvals EXCEPT ![r] = row] /\ row.state = state
              /\ row.checker \in Checkers \ {row.maker} /\ row.action = approvals[r].action
              /\ row.target = approvals[r].target /\ row.decision = approvals[r].decision
<1> DEFINE r == task[h].id
           row == [approvals[r] EXCEPT !.state = state, !.checker = task[h].who]
<1>d. Duty(h) /\ task[h] \in Tasks
  BY DEF ApprovalInv, ApprovalTypes
<1>1. r \in RequestIds /\ approvals[r] \in Requests /\ approvals[r].state = "PENDING"
  BY <1>d DEF Duty, ApprovalInv, ApprovalTypes, Unclaimed
<1>2. task[h].who \in Checkers /\ task[h].who # approvals[r].maker /\ task[h].who \in Staff
  BY <1>d DEF Duty, IsChecker
<1>3. /\ row \in Requests /\ row.state = state /\ row.checker = task[h].who
      /\ row.maker = approvals[r].maker /\ row.action = approvals[r].action
      /\ row.target = approvals[r].target /\ row.decision = approvals[r].decision
  BY <1>1, <1>2 DEF Requests, RequestStates
<1>4. approvals' = [approvals EXCEPT ![r] = row]
  BY DEF ClaimAs, ApprovalInv, ApprovalTypes
<1> HIDE DEF row
<1>5. approvals'[r] = row /\ \A q \in RequestIds \ {r} : approvals'[q] = approvals[q]
  BY <1>1, <1>3, <1>4 DEF ApprovalInv, ApprovalTypes
<1>6. RowsGrow
  BY <1>1, <1>3, <1>5 DEF RowsGrow
<1>7. QED
  BY <1>1, <1>2, <1>3, <1>4, <1>6

LEMMA ClaimSteps ==
  ASSUME ApprovalInv, NEW h \in Handlers, ClaimApproved(h) \/ ClaimRejected(h)
  PROVE  ApprovalInv'
<1>d. Duty(h) /\ task[h] \in Tasks /\ task[h].op \in ClaimOps
  BY DEF ApprovalInv, ApprovalTypes, ClaimApproved, ClaimRejected, ClaimOps
<1>0. UNCHANGED <<ran, calls, crashes>>
  BY DEF ClaimApproved, ClaimRejected
<1>1. CASE UNCHANGED approvals /\ Done(h)
  BY <1>0, <1>1, DoneStep
<1>2. CASE Unclaimed(h)
  <2>p. PICK r \in RequestIds : r = task[h].id
    BY <1>d DEF Duty
  <2>a. task[h].appr = 0
    BY <1>d DEF Duty
  <2>1. approvals[r].state = "PENDING" /\ ran[r] = 0 /\ approvals[r] \in Requests
    BY <1>2, <2>p DEF Unclaimed, ApprovalInv, ApprovalTypes, RequestRows
  <2>2. \A g \in Handlers : task[g].appr # r
    <3>1. ASSUME NEW g \in Handlers, task[g].appr = r
          PROVE  approvals[r].state = "APPROVED"
      BY <3>1 DEF ApprovalInv, Duty
    <3>2. QED
      BY <2>1, <3>1
  <2>3. CASE ClaimApproved(h)
    <3> DEFINE next == [task[h] EXCEPT !.op = "execute", !.appr = r]
    <3>1. PICK row \in Requests :
            /\ approvals' = [approvals EXCEPT ![r] = row] /\ row.state = "APPROVED"
            /\ row.checker \in Checkers \ {row.maker} /\ row.action = approvals[r].action
            /\ row.target = approvals[r].target /\ row.decision = approvals[r].decision
      BY <1>2, <1>d, <2>3, <2>p, ClaimsGrow DEF ClaimApproved
    <3>2. RowsGrow
      BY <1>2, <1>d, <2>3, ClaimsGrow DEF ClaimApproved
    <3>3. next \in Tasks /\ next.op = "execute" /\ next.appr = r
      BY <1>d DEF Tasks, Ops, EndOps
    <3>4. task' = [task EXCEPT ![h] = next]
      BY <1>2, <2>3, <2>p DEF ClaimApproved, ApprovalInv, ApprovalTypes
    <3> HIDE DEF next
    <3>5. /\ task' \in [Handlers -> Tasks] /\ task'[h].op = "execute" /\ task'[h].appr = r
          /\ \A g \in Handlers \ {h} : task'[g] = task[g]
      BY <3>3, <3>4, Moved DEF ApprovalInv
    <3>6. approvals'[r].state = "APPROVED" /\ ran'[r] = 0
      BY <1>0, <2>1, <3>1 DEF ApprovalInv, ApprovalTypes
    <3>7. Duty(h)'
      BY <3>5, <3>6, ZeroIsNoRequest DEF Duty, KycOps, FileOps, ClaimOps, EndOps, BeforeCommit, AfterCommit
    <3>8. \A g, f \in Handlers : task'[g].appr = task'[f].appr /\ task'[g].appr # 0 => g = f
      BY <2>2, <3>5 DEF ApprovalInv, OneExecutor
    <3>9. \A g \in Handlers : Duty(g)' \/ (task'[g] = task[g] /\ task[g].appr # r)
      BY <2>2, <3>5, <3>7
    <3>10. /\ row.action = "FILE_DECISION" => row.target \in Files /\ row.decision \in COMPLIANCE_DECISIONS
           /\ row.action = "KYC_DECISION" => row.target \in CaseIds
      BY <3>1 DEF ApprovalInv, RequestRows
    <3>11. QED
      BY <1>0, <3>1, <3>2, <3>5, <3>8, <3>9, <3>10, RequestStep
  <2>4. CASE ClaimRejected(h)
    <3>1. PICK row \in Requests :
            /\ approvals' = [approvals EXCEPT ![r] = row] /\ row.state = "REJECTED"
            /\ row.checker \in Checkers \ {row.maker} /\ row.action = approvals[r].action
            /\ row.target = approvals[r].target /\ row.decision = approvals[r].decision
      BY <1>2, <1>d, <2>4, <2>p, ClaimsGrow DEF ClaimRejected
    <3>2. RowsGrow
      BY <1>2, <1>d, <2>4, ClaimsGrow DEF ClaimRejected
    <3>3. task' = [task EXCEPT ![h] = Idle]
      BY <2>4 DEF ClaimRejected, Done
    <3>4. /\ task' \in [Handlers -> Tasks] /\ task'[h] = Idle
          /\ \A g \in Handlers \ {h} : task'[g] = task[g]
      BY <3>3, IdleIsTask, Moved DEF ApprovalInv
    <3>5. Duty(h)'
      BY <3>4, IdleIsTask DEF Duty, KycOps, FileOps, ClaimOps, EndOps
    <3>6. \A g, f \in Handlers : task'[g].appr = task'[f].appr /\ task'[g].appr # 0 => g = f
      BY <3>4, IdleIsTask DEF ApprovalInv, OneExecutor
    <3>7. \A g \in Handlers : Duty(g)' \/ (task'[g] = task[g] /\ task[g].appr # r)
      BY <2>2, <3>4, <3>5
    <3>8. /\ row.action = "FILE_DECISION" => row.target \in Files /\ row.decision \in COMPLIANCE_DECISIONS
          /\ row.action = "KYC_DECISION" => row.target \in CaseIds
      BY <3>1 DEF ApprovalInv, RequestRows
    <3>9. QED
      BY <1>0, <2>1, <3>1, <3>2, <3>4, <3>6, <3>7, <3>8, RequestStep
  <2>5. QED
    BY <2>3, <2>4
<1>3. QED
  BY <1>1, <1>2 DEF ClaimApproved, ClaimRejected

LEMMA FinishGrows ==
  ASSUME ApprovalInv, NEW h \in Handlers, Finish(h)
  PROVE  LET r == task[h].appr IN
         /\ RowsGrow /\ r \in RequestIds
         /\ \E row \in Requests :
              /\ approvals' = [approvals EXCEPT ![r] = row] /\ row.state \in {"EXECUTED", "FAILED"}
              /\ row.state = "EXECUTED" => ran[r] = 1
              /\ row.checker \in Checkers \ {row.maker} /\ row.action = approvals[r].action
              /\ row.target = approvals[r].target /\ row.decision = approvals[r].decision
<1> DEFINE r == task[h].appr
<1>d. Duty(h) /\ task[h] \in Tasks
  BY DEF ApprovalInv, ApprovalTypes
<1>1. PICK state \in {"EXECUTED", "FAILED"} :
        /\ state = "EXECUTED" => task[h].op = "executed"
        /\ approvals' = [approvals EXCEPT ![r].state = state]
  BY DEF Finish
<1>2. r \in RequestIds /\ approvals[r].state = "APPROVED" /\ approvals[r] \in Requests
  <2>1. r # 0 /\ r \in RequestIds
    BY <1>d DEF Finish, Duty, EndOps, Tasks
  <2>2. QED
    BY <1>d, <2>1 DEF Duty, ApprovalInv, ApprovalTypes
<1>3. state = "EXECUTED" => ran[r] = 1
  BY <1>1, <1>2, <1>d DEF Duty, AfterCommit, Tasks
<1>4. approvals[r].checker \in Checkers \ {approvals[r].maker}
  BY <1>2 DEF ApprovalInv, RequestRows
<1> DEFINE row == [approvals[r] EXCEPT !.state = state]
<1>5. /\ row \in Requests /\ row.state = state /\ row.checker = approvals[r].checker
      /\ row.maker = approvals[r].maker /\ row.action = approvals[r].action
      /\ row.target = approvals[r].target /\ row.decision = approvals[r].decision
  BY <1>2 DEF Requests, RequestStates
<1>6. approvals' = [approvals EXCEPT ![r] = row]
  BY <1>1 DEF ApprovalInv, ApprovalTypes
<1> HIDE DEF row
<1>7. approvals'[r] = row /\ \A q \in RequestIds \ {r} : approvals'[q] = approvals[q]
  BY <1>2, <1>5, <1>6 DEF ApprovalInv, ApprovalTypes
<1>8. RowsGrow
  BY <1>2, <1>5, <1>7 DEF RowsGrow
<1>9. QED
  BY <1>2, <1>3, <1>4, <1>5, <1>6, <1>8

LEMMA FinishStep ==
  ASSUME ApprovalInv, NEW h \in Handlers, Finish(h)
  PROVE  ApprovalInv'
<1>p. PICK r \in RequestIds : r = task[h].appr
  BY FinishGrows
<1>1. PICK row \in Requests :
        /\ approvals' = [approvals EXCEPT ![r] = row] /\ row.state \in {"EXECUTED", "FAILED"}
        /\ row.state = "EXECUTED" => ran[r] = 1
        /\ row.checker \in Checkers \ {row.maker} /\ row.action = approvals[r].action
        /\ row.target = approvals[r].target /\ row.decision = approvals[r].decision
  BY <1>p, FinishGrows
<1>2. RowsGrow /\ UNCHANGED <<ran, calls, crashes>>
  BY FinishGrows DEF Finish
<1>3. task' = [task EXCEPT ![h] = Idle]
  BY DEF Finish, Done
<1>4. /\ task' \in [Handlers -> Tasks] /\ task'[h] = Idle
      /\ \A g \in Handlers \ {h} : task'[g] = task[g]
  BY <1>3, IdleIsTask, Moved DEF ApprovalInv
<1>5. \A g \in Handlers \ {h} : task[g].appr # r
  BY <1>p, ZeroIsNoRequest DEF ApprovalInv, OneExecutor
<1>6. Duty(h)'
  BY <1>4, IdleIsTask DEF Duty, KycOps, FileOps, ClaimOps, EndOps
<1>7. \A g, f \in Handlers : task'[g].appr = task'[f].appr /\ task'[g].appr # 0 => g = f
  BY <1>4, IdleIsTask DEF ApprovalInv, OneExecutor
<1>8. \A g \in Handlers : Duty(g)' \/ (task'[g] = task[g] /\ task[g].appr # r)
  BY <1>4, <1>5, <1>6
<1>9. /\ row.action = "FILE_DECISION" => row.target \in Files /\ row.decision \in COMPLIANCE_DECISIONS
      /\ row.action = "KYC_DECISION" => row.target \in CaseIds
  BY <1>1 DEF ApprovalInv, RequestRows
<1>10. QED
  BY <1>1, <1>2, <1>4, <1>7, <1>8, <1>9, RequestStep

LEMMA ApprovalSteps ==
  ASSUME ApprovalInv, NEW h \in Handlers, ApprovalStep(h)
  PROVE  ApprovalInv'
<1>1. ASSUME NEW r \in RequestIds, NEW s \in Staff, NEW verdict \in {"approve", "reject"},
             ReadRequest(h, r, s, verdict)
      PROVE  ApprovalInv'
  <2>1. verdict \in ClaimOps /\ verdict \notin KycOps \cup FileOps /\ verdict # "createFile" /\ "" \in Words
    BY DEF ClaimOps, KycOps, FileOps, Words
  <2>2. approvals[r].state # "NONE" /\ r \in Nat
    BY <1>1 DEF ReadRequest
  <2>3. QED
    BY <1>1, <2>1, <2>2, StartStep DEF ReadRequest
<1>2. QED
  BY <1>1, ClaimSteps, FinishStep DEF ApprovalStep

\* What each case, and each decision on it, may ask for.
LEMMA RequestCalls ==
  ASSUME ApprovalInv
  PROVE  /\ \A h \in Handlers : RequestKycDecision(h) => ApprovalInv' /\ RowsGrow
         /\ \A s \in Staff : RequestUnblock(s) => ApprovalInv' /\ RowsGrow
         /\ \A s \in Staff, f \in Files, d \in COMPLIANCE_DECISIONS :
               RequestDecision(s, f, d) => ApprovalInv' /\ RowsGrow
<1>1. ASSUME NEW h \in Handlers, RequestKycDecision(h)
      PROVE  ApprovalInv' /\ RowsGrow
  <2>1. Duty(h) /\ task[h] \in Tasks /\ task[h].op = "requestKyc" /\ task[h].id \in CaseIds
    BY <1>1 DEF ApprovalInv, ApprovalTypes, RequestKycDecision, Duty, KycOps
  <2>2. task[h].id \in Nat /\ task[h].seen \in Words /\ task[h].who \in Staff \cup {Nobody}
    BY <2>1 DEF Tasks
  <2>3. QED
    BY <1>1, <2>1, <2>2, RequestedStep, RequestedGrows DEF RequestKycDecision, Actions
<1>2. ASSUME NEW s \in Staff, RequestUnblock(s)
      PROVE  ApprovalInv' /\ RowsGrow
  <2>1. "" \in Words /\ "USER_UNBLOCK" \in Actions
    BY DEF Words, Actions
  <2>2. QED
    BY <1>2, <2>1, RequestedStep, RequestedGrows DEF RequestUnblock
<1>3. ASSUME NEW s \in Staff, NEW f \in Files, NEW d \in COMPLIANCE_DECISIONS, RequestDecision(s, f, d)
      PROVE  ApprovalInv' /\ RowsGrow
  <2>1. d \in Words /\ "FILE_DECISION" \in Actions /\ f \in Nat
    BY DEF Words, Actions
  <2>2. QED
    BY <1>3, <2>1, RequestedStep, RequestedGrows DEF RequestDecision
<1>4. QED
  BY <1>1, <1>2, <1>3

LEMMA CrashStep ==
  ASSUME ApprovalInv, CrashTasks
  PROVE  ApprovalInv'
<1>1. task' = [h \in Handlers |-> Idle] /\ UNCHANGED <<approvals, ran, calls>>
  BY DEF CrashTasks
<1>2. crashes' \in 0 .. MaxCrashes
  <2>1. crashes \in 0 .. MaxCrashes
    BY DEF ApprovalInv, ApprovalTypes
  <2>2. QED
    BY <2>1 DEF CrashTasks
<1>3. ApprovalTypes'
  BY <1>1, <1>2, IdleIsTask DEF ApprovalInv, ApprovalTypes
<1>4. RequestRows'
  BY <1>1 DEF ApprovalInv, RequestRows
<1>5. \A h \in Handlers : Duty(h)'
  BY <1>1, IdleIsTask DEF Duty, KycOps, FileOps, ClaimOps, EndOps
<1>6. OneExecutor'
  BY <1>1, IdleIsTask DEF OneExecutor
<1>7. QED
  BY <1>3, <1>4, <1>5, <1>6 DEF ApprovalInv

----------------------------------------------------------------------------
(* Every step. *)

FileTypes ==
    /\ alerts \in [AlertIds -> [status : {"NONE", "OPEN", "ATTACHED", "DISMISSED"},
                                file : Files \cup {0}]]
    /\ files \in [Files -> [state : FileStates, decisions : SUBSET COMPLIANCE_DECISIONS]]

\* The actions, without the variables they leave alone.
Steps ==
    \/ \E h \in Handlers : ApprovalStep(h) \/ KycStep(h) \/ ComplianceStep(h)
    \/ \E c \in CaseIds : FillDraft(c)
    \/ \E state \in {"OPEN", "SUSPENDED"} : UpdateAccount(state)
    \/ BlockUser
    \/ \E s \in Staff : RequestUnblock(s)
    \/ \E s \in Staff, f \in Files, d \in COMPLIANCE_DECISIONS : RequestDecision(s, f, d)
    \/ CrashTasks

LEMMA NextSteps == Next => Steps
BY DEF Next, Steps, Crash

LEMMA ApprovalInvStep ==
  ASSUME ApprovalInv, FileTypes, Steps
  PROVE  ApprovalInv' /\ RowsGrow
<1>1. ASSUME UNCHANGED approvals
      PROVE  RowsGrow
  BY <1>1 DEF RowsGrow
<1>2. ASSUME NEW h \in Handlers, ApprovalStep(h)
      PROVE  ApprovalInv' /\ RowsGrow
  <2>1. ApprovalInv'
    BY <1>2, ApprovalSteps
  <2>2. ASSUME ClaimApproved(h) \/ ClaimRejected(h)
        PROVE  RowsGrow
    <3>1. task[h].op \in ClaimOps
      BY <2>2 DEF ClaimApproved, ClaimRejected, ClaimOps
    <3>2. QED
      BY <1>1, <2>2, <3>1, ClaimsGrow DEF ClaimApproved, ClaimRejected
  <2>3. Finish(h) => RowsGrow
    BY FinishGrows
  <2>4. QED
    BY <1>1, <1>2, <2>1, <2>2, <2>3 DEF ApprovalStep, ReadRequest
<1>3. ASSUME NEW h \in Handlers, KycStep(h)
      PROVE  ApprovalInv' /\ RowsGrow
  <2>1. CASE RequestKycDecision(h)
    BY <2>1, RequestCalls
  <2>2. CASE \/ OpenKycCase(h) \/ CreateDraft(h) \/ \E c \in CaseIds : Submit(h, c)
             \/ MarkSubmitted(h) \/ ProviderDown(h) \/ AutoApprove(h) \/ ToManualReview(h)
             \/ \E s \in Staff, c \in CaseIds, d \in {"VALIDATED", "REJECTED"} : DecideKyc(h, s, c, d)
             \/ ApplyDecision(h) \/ RequestAccount(h)
    <3>1. UNCHANGED approvals
      BY <2>2 DEF OpenKycCase, CreateDraft, Submit, MarkSubmitted, ProviderDown, AutoApprove,
         ToManualReview, DecideKyc, ApplyDecision, RequestAccount
    <3>2. QED
      BY <1>1, <2>2, <3>1, KycCallSteps
  <2>3. CASE \E answer \in {"clean", "hits", "doubt"} : ProviderAnswers(h, answer)
    BY <1>1, <2>3, AnswerStep DEF ProviderAnswers
  <2>4. CASE ExecuteKycDecision(h)
    BY <1>1, <2>4, ExecutorSteps DEF FileTypes, ExecuteKycDecision
  <2>5. CASE Validate(h) \/ Refuse(h) \/ ExecuteUnblock(h)
    BY <1>1, <2>5, CommittingSteps DEF Validate, Refuse, ExecuteUnblock
  <2>6. QED
    BY <1>3, <2>1, <2>2, <2>3, <2>4, <2>5 DEF KycStep
<1>4. ASSUME NEW h \in Handlers, ComplianceStep(h)
      PROVE  ApprovalInv' /\ RowsGrow
  <2>1. UNCHANGED approvals
    BY <1>4 DEF ComplianceStep, EventRaises, FindAlert, CreateAlert, OpenFile, CreateFile, AddNote,
       ReviewFile, ReadFile, DecideFile
  <2>2. CASE \/ EventRaises(h) \/ FindAlert(h) \/ CreateAlert(h)
             \/ \E a \in AlertIds \cup {0} : OpenFile(h, a)
             \/ CreateFile(h) \/ \E f \in Files : AddNote(h, f)
             \/ ReviewFile(h)
    BY <1>1, <2>1, <2>2, FileCallSteps
  <2>3. CASE ReadFile(h)
    BY <1>1, <2>1, <2>3, ExecutorSteps DEF FileTypes
  <2>4. CASE DecideFile(h)
    BY <1>1, <2>1, <2>4, CommittingSteps
  <2>5. QED
    BY <1>4, <2>2, <2>3, <2>4 DEF ComplianceStep
<1>5. CASE \/ \E c \in CaseIds : FillDraft(c)
           \/ \E state \in {"OPEN", "SUSPENDED"} : UpdateAccount(state)
           \/ BlockUser
  <2>1. UNCHANGED approvalVars
    BY <1>5 DEF FillDraft, UpdateAccount, BlockUser
  <2>2. UNCHANGED <<approvals, ran, task, calls, crashes>>
    BY <2>1 DEF approvalVars
  <2>3. ApprovalInv'
    BY <2>2 DEF ApprovalInv, ApprovalTypes, RequestRows, Duty, IsChecker, OneExecutor
  <2>4. QED
    BY <1>1, <2>2, <2>3
<1>6. CASE CrashTasks
  BY <1>1, <1>6, CrashStep DEF CrashTasks
<1>7. QED
  BY <1>2, <1>3, <1>4, <1>5, <1>6, RequestCalls DEF Steps

----------------------------------------------------------------------------
(* The identity file. *)

Users == [kyc : KycStatuses, resubmissions : Nat, blocked : BOOLEAN]
CaseRow == [status : KycStatuses, complete : BOOLEAN, hits : BOOLEAN]

\* A VALIDATED user has an approved case, blocked or not.
ValidatedHasCase ==
    user.kyc = "VALIDATED" =>
        \E c \in CaseIds : kyc[c].status \in {"VALIDATED", "AUTO_APPROVED"}

KycInv == KycTypeOK /\ ValidatedHasCase

\* A step that gives a case one status, and leaves the user's alone or follows.
LEMMA StatusStep ==
  ASSUME KycInv, NEW c \in CaseIds, NEW row \in CaseRow,
         kyc' = [kyc EXCEPT ![c] = row], user' \in Users,
         \/ user'.kyc = row.status
         \/ user'.kyc = user.kyc /\ row.status \in {kyc[c].status, "AUTO_APPROVED"},
         account' = account
  PROVE  KycInv'
<1>1. kyc \in [CaseIds -> CaseRow]
  BY DEF KycInv, KycTypeOK, CaseRow
<1>2. /\ kyc' \in [CaseIds -> CaseRow] /\ kyc'[c] = row
      /\ \A d \in CaseIds \ {c} : kyc'[d] = kyc[d]
  BY <1>1
<1>3. KycTypeOK'
  BY <1>2 DEF KycInv, KycTypeOK, CaseRow, Users
<1>4. ValidatedHasCase'
  BY <1>2 DEF KycInv, ValidatedHasCase
<1>5. QED
  BY <1>3, <1>4 DEF KycInv

LEMMA CaseEdits ==
  ASSUME KycInv, NEW c \in CaseIds
  PROVE  /\ \A s \in KycStatuses :
               /\ [kyc[c] EXCEPT !.status = s] \in CaseRow
               /\ [kyc[c] EXCEPT !.status = s].status = s
         /\ \A b \in BOOLEAN :
               /\ [kyc[c] EXCEPT !.hits = b] \in CaseRow
               /\ [kyc[c] EXCEPT !.hits = b].status = kyc[c].status
         /\ [kyc[c] EXCEPT !.complete = TRUE] \in CaseRow
         /\ [kyc[c] EXCEPT !.complete = TRUE].status = kyc[c].status
<1>1. kyc[c] \in CaseRow
  BY DEF KycInv, KycTypeOK, CaseRow
<1>2. QED
  BY <1>1 DEF CaseRow

LEMMA UserEdits ==
  ASSUME KycInv
  PROVE  /\ user \in Users
         /\ \A s \in KycStatuses :
               [user EXCEPT !.kyc = s] \in Users /\ [user EXCEPT !.kyc = s].kyc = s
         /\ \A b \in BOOLEAN :
               [user EXCEPT !.blocked = b] \in Users /\ [user EXCEPT !.blocked = b].kyc = user.kyc
<1>1. user \in Users
  BY DEF KycInv, KycTypeOK, Users
<1>2. QED
  BY <1>1 DEF Users

LEMMA SetBothStep ==
  ASSUME KycInv, NEW c \in CaseIds, NEW status \in KycStatuses, SetBoth(c, status),
         account' = account
  PROVE  KycInv'
<1>1. kyc' = [kyc EXCEPT ![c] = [kyc[c] EXCEPT !.status = status]]
  BY DEF SetBoth, SetStatus, KycInv, KycTypeOK
<1>2. user' = [user EXCEPT !.kyc = status]
  BY DEF SetBoth
<1>3. user' \in Users /\ user'.kyc = status
  BY <1>2, UserEdits
<1>4. QED
  BY <1>1, <1>3, CaseEdits, StatusStep

\* A step that leaves the cases and the user's status.
LEMMA UserStep ==
  ASSUME KycInv, kyc' = kyc, user' \in Users, user'.kyc = user.kyc,
         account' \in {"NONE", "REQUESTED", "OPEN", "SUSPENDED"}
  PROVE  KycInv'
BY DEF KycInv, KycTypeOK, Users, ValidatedHasCase

LEMMA KycInvStep ==
  ASSUME KycInv, ApprovalInv, [Next]_vars
  PROVE  KycInv'
<1>u. user \in Users /\ account \in {"NONE", "REQUESTED", "OPEN", "SUSPENDED"}
  BY UserEdits DEF KycInv, KycTypeOK
<1>k. \A h \in Handlers : task[h].op \in KycOps => task[h].id \in CaseIds
  BY DEF ApprovalInv, Duty
<1>s. {"NONE", "DRAFT", "VALIDATED", "REJECTED", "SUBMITTED", "AUTO_APPROVED", "MANUAL_REVIEW"} \subseteq KycStatuses
  BY DEF KycStatuses, IN_PROGRESS_STATUSES
<1>1. ASSUME UNCHANGED <<user, kyc, account>>
      PROVE  KycInv'
  BY <1>u, <1>1, UserStep
<1>2. ASSUME NEW h \in Handlers, KycStep(h)
      PROVE  KycInv'
  <2>1. CASE CreateDraft(h)
    <3>1. PICK c \in CaseIds : kyc' = [kyc EXCEPT ![c] = [NoCase EXCEPT !.status = "DRAFT"]]
      BY <2>1 DEF CreateDraft
    <3>2. [NoCase EXCEPT !.status = "DRAFT"] \in CaseRow /\ [NoCase EXCEPT !.status = "DRAFT"].status = "DRAFT"
      BY <1>s DEF NoCase, CaseRow
    <3>3. user' \in Users /\ user'.kyc = "DRAFT"
      BY <1>s, <2>1, UserEdits DEF CreateDraft
    <3>4. QED
      BY <2>1, <3>1, <3>2, <3>3, StatusStep DEF CreateDraft
  <2>2. CASE MarkSubmitted(h) \/ ToManualReview(h) \/ Validate(h)
    <3>1. task[h].id \in CaseIds /\ account' = account
      BY <1>k, <2>2 DEF MarkSubmitted, ToManualReview, Validate, KycOps
    <3>2. \E status \in {"SUBMITTED", "MANUAL_REVIEW", "VALIDATED"} : SetBoth(task[h].id, status)
      BY <2>2 DEF MarkSubmitted, ToManualReview, Validate
    <3>3. QED
      BY <1>s, <3>1, <3>2, SetBothStep
  <2>3. ASSUME NEW answer \in {"clean", "hits", "doubt"}, ProviderAnswers(h, answer)
        PROVE  KycInv'
    <3> DEFINE c == task[h].id
               hits == (answer = "hits")
    <3>1. c \in CaseIds
      BY <1>k, <2>3 DEF ProviderAnswers, KycOps
    <3>2. kyc' = [kyc EXCEPT ![c] = [kyc[c] EXCEPT !.hits = hits]] /\ UNCHANGED <<user, account>>
      BY <2>3 DEF ProviderAnswers, KycInv, KycTypeOK
    <3>3. hits \in BOOLEAN
      OBVIOUS
    <3>4. [kyc[c] EXCEPT !.hits = hits] \in CaseRow /\ [kyc[c] EXCEPT !.hits = hits].status = kyc[c].status
      BY <3>1, <3>3, CaseEdits, Zenon
    <3>5. QED
      BY <1>u, <3>1, <3>2, <3>4, StatusStep
  <2>4. CASE AutoApprove(h)
    <3>1. task[h].id \in CaseIds
      BY <1>k, <2>4 DEF AutoApprove, KycOps
    <3>2. /\ kyc' = [kyc EXCEPT ![task[h].id] = [kyc[task[h].id] EXCEPT !.status = "AUTO_APPROVED"]]
          /\ UNCHANGED <<user, account>>
      BY <2>4 DEF AutoApprove, SetStatus, KycInv, KycTypeOK
    <3>3. QED
      BY <1>s, <1>u, <3>1, <3>2, CaseEdits, StatusStep
  <2>5. CASE Refuse(h)
    <3>1. task[h].id \in CaseIds
      BY <1>k, <2>5 DEF Refuse, KycOps
    <3>2. /\ kyc' = [kyc EXCEPT ![task[h].id] = [kyc[task[h].id] EXCEPT !.status = "REJECTED"]]
          /\ account' = account
      BY <2>5 DEF Refuse, SetStatus, KycInv, KycTypeOK
    <3>3. user' \in Users /\ user'.kyc = "REJECTED"
      <4>1. user.resubmissions + 1 \in Nat
        BY <1>u DEF Users
      <4>2. QED
        BY <1>s, <1>u, <2>5, <4>1 DEF Refuse, Users
    <3>4. QED
      BY <1>s, <3>1, <3>2, <3>3, CaseEdits, StatusStep
  <2>6. CASE RequestAccount(h)
    BY <1>u, <2>6, UserStep DEF RequestAccount
  <2>7. CASE ExecuteUnblock(h)
    BY <1>u, <2>7, UserEdits, UserStep DEF ExecuteUnblock
  <2>8. QED
    BY <1>1, <1>2, <2>1, <2>2, <2>3, <2>4, <2>5, <2>6, <2>7
       DEF KycStep, kycVars, OpenKycCase, Submit, ProviderDown, DecideKyc, RequestKycDecision,
       ExecuteKycDecision, ApplyDecision
<1>3. ASSUME NEW h \in Handlers, ComplianceStep(h)
      PROVE  KycInv'
  <2>1. CASE DecideFile(h)
    <3>1. PICK b \in BOOLEAN : user' = [user EXCEPT !.blocked = b]
      BY <2>1 DEF DecideFile
    <3>2. QED
      BY <1>u, <2>1, <3>1, UserEdits, UserStep DEF DecideFile
  <2>2. QED
    BY <1>1, <1>3, <2>1
       DEF ComplianceStep, kycVars, EventRaises, FindAlert, CreateAlert, OpenFile, CreateFile, AddNote,
       ReviewFile, ReadFile
<1>4. ASSUME NEW c \in CaseIds, FillDraft(c)
      PROVE  KycInv'
  <2>1. kyc' = [kyc EXCEPT ![c] = [kyc[c] EXCEPT !.complete = TRUE]] /\ UNCHANGED <<user, account>>
    BY <1>4 DEF FillDraft, KycInv, KycTypeOK
  <2>2. QED
    BY <1>u, <2>1, CaseEdits, StatusStep
<1>5. ASSUME NEW state \in {"OPEN", "SUSPENDED"}, UpdateAccount(state)
      PROVE  KycInv'
  BY <1>u, <1>5, UserStep DEF UpdateAccount
<1>6. CASE BlockUser
  BY <1>u, <1>6, UserEdits, UserStep DEF BlockUser
<1>7. QED
  BY <1>1, <1>2, <1>3, <1>4, <1>5, <1>6 DEF Next, vars, kycVars, RequestUnblock, RequestDecision, Crash

----------------------------------------------------------------------------
(* The compliance cases. *)

\* Two people agreed on the state of this case.
Agreed(f) ==
    \E r \in RequestIds :
        /\ approvals[r].action = "FILE_DECISION"
        /\ approvals[r].target = f
        /\ approvals[r].decision \in files[f].decisions \cap DOMAIN DECISION_STATE
        /\ DECISION_STATE[approvals[r].decision] = files[f].state
        /\ approvals[r].checker \in Checkers \ {approvals[r].maker}

FileInv ==
    /\ FileTypes
    /\ \A f \in Files : files[f].state \in TERMINAL_STATES => Agreed(f)
    /\ \A a \in AlertIds : alerts[a].status \in {"ATTACHED", "DISMISSED"} => alerts[a].file \in Files
    /\ \A a \in AlertIds : alerts[a].status = "DISMISSED" => "CLEARED" \in files[alerts[a].file].decisions

\* A request that has a checker is decided: nothing in it changes but its end.
LEMMA AgreedStays ==
  ASSUME ApprovalInv, RowsGrow, NEW f \in Files, Agreed(f), files'[f].state = files[f].state,
         files[f].decisions \subseteq files'[f].decisions
  PROVE  Agreed(f)'
<1>1. PICK r \in RequestIds :
        /\ approvals[r].action = "FILE_DECISION"
        /\ approvals[r].target = f
        /\ approvals[r].decision \in files[f].decisions \cap DOMAIN DECISION_STATE
        /\ DECISION_STATE[approvals[r].decision] = files[f].state
        /\ approvals[r].checker \in Checkers \ {approvals[r].maker}
  BY DEF Agreed
<1>2. approvals[r].checker # Nobody
  BY <1>1
<1>3. approvals[r].state \notin {"NONE", "PENDING"}
  BY <1>2 DEF ApprovalInv, RequestRows
<1>4. /\ approvals'[r].action = approvals[r].action /\ approvals'[r].target = approvals[r].target
      /\ approvals'[r].decision = approvals[r].decision
      /\ approvals'[r].maker = approvals[r].maker /\ approvals'[r].checker = approvals[r].checker
  BY <1>3 DEF RowsGrow
<1>5. QED
  BY <1>1, <1>4 DEF Agreed

LEMMA FilesStay ==
  ASSUME FileInv, ApprovalInv, RowsGrow, UNCHANGED <<alerts, files>>
  PROVE  FileInv'
<1>1. \A f \in Files : files[f].state \in TERMINAL_STATES => Agreed(f)'
  BY AgreedStays DEF FileInv
<1>2. QED
  BY <1>1 DEF FileInv, FileTypes

FileRow == [state : FileStates, decisions : SUBSET COMPLIANCE_DECISIONS]
AlertRow == [status : {"NONE", "OPEN", "ATTACHED", "DISMISSED"}, file : Files \cup {0}]

LEMMA RowTypes ==
  ASSUME FileTypes
  PROVE  files \in [Files -> FileRow] /\ alerts \in [AlertIds -> AlertRow]
BY DEF FileTypes, FileRow, AlertRow

\* A step that gives one file a state that is not terminal, and no alert a dismissal.
LEMMA OneFileStep ==
  ASSUME FileInv, ApprovalInv, RowsGrow, NEW f \in Files, NEW state \in {"OPEN", "UNDER_REVIEW"},
         files' = [files EXCEPT ![f].state = state], FileTypes',
         \A a \in AlertIds : \/ alerts'[a] = alerts[a]
                             \/ alerts'[a].status = "ATTACHED" /\ alerts'[a].file \in Files
  PROVE  FileInv'
<1>1. files[f] \in FileRow /\ files \in [Files -> FileRow]
  BY RowTypes DEF FileInv
<1>2. /\ files'[f].state = state /\ files'[f].decisions = files[f].decisions
      /\ \A g \in Files \ {f} : files'[g] = files[g]
  BY <1>1 DEF FileRow
<1>3. state \notin TERMINAL_STATES
  BY DEF TERMINAL_STATES
<1>4. ASSUME NEW g \in Files, files'[g].state \in TERMINAL_STATES
      PROVE  Agreed(g)'
  BY <1>2, <1>3, <1>4, AgreedStays DEF FileInv
<1>5. \A a \in AlertIds : alerts'[a].status \in {"ATTACHED", "DISMISSED"} => alerts'[a].file \in Files
  BY DEF FileInv
<1>6. \A g \in Files : files'[g].decisions = files[g].decisions
  BY <1>2
<1>7. \A a \in AlertIds : alerts'[a].status = "DISMISSED" => "CLEARED" \in files'[alerts'[a].file].decisions
  BY <1>5, <1>6 DEF FileInv
<1>8. QED
  BY <1>4, <1>5, <1>7 DEF FileInv

LEMMA DecideStep ==
  ASSUME FileInv, ApprovalInv, RowsGrow, NEW h \in Handlers, DecideFile(h)
  PROVE  FileInv'
<1>1. /\ task[h].appr \in RequestIds /\ task[h].id \in Files
      /\ approvals[task[h].appr].action = "FILE_DECISION"
      /\ approvals[task[h].appr].target = task[h].id
      /\ approvals[task[h].appr].state = "APPROVED"
  <2>1. Duty(h) /\ task[h] \in Tasks /\ task[h].op = "decideFile"
    BY DEF ApprovalInv, ApprovalTypes, DecideFile
  <2>2. task[h].appr # 0 /\ task[h].id \in Files
    BY <2>1 DEF Duty, FileOps
  <2>3. task[h].appr \in RequestIds
    BY <2>1, <2>2 DEF Tasks
  <2>4. QED
    BY <2>1, <2>2, <2>3 DEF Duty
<1>2. PICK r \in RequestIds, f \in Files : r = task[h].appr /\ f = task[h].id
  BY <1>1
<1>3. PICK d : d = approvals[r].decision
  OBVIOUS
<1>4. /\ approvals[r].action = "FILE_DECISION" /\ approvals[r].target = f /\ approvals' = approvals
      /\ d \in COMPLIANCE_DECISIONS /\ approvals[r].checker \in Checkers \ {approvals[r].maker}
  BY <1>1, <1>2, <1>3 DEF ApprovalInv, RequestRows, DecideFile
<1>5. PICK state :
        /\ files' = [files EXCEPT ![f].decisions = files[f].decisions \cup {d}, ![f].state = state]
        /\ state = IF d \in DOMAIN DECISION_STATE THEN DECISION_STATE[d]
                   ELSE IF task[h].seen = "OPEN" THEN "ESCALATED" ELSE files[f].state
  BY <1>2, <1>3, RowTypes DEF DecideFile, FileInv, FileRow
<1>6. files \in [Files -> FileRow] /\ alerts \in [AlertIds -> AlertRow] /\ files[f] \in FileRow
  BY RowTypes DEF FileInv
<1>7. state \in FileStates
  <2>1. \A e \in DOMAIN DECISION_STATE : DECISION_STATE[e] \in TERMINAL_STATES
    BY DEF DECISION_STATE, TERMINAL_STATES, COMPLIANCE_DECISIONS
  <2>2. QED
    BY <1>5, <1>6, <2>1 DEF FileStates, FileRow
<1>8. files[f].decisions \cup {d} \in SUBSET COMPLIANCE_DECISIONS
  BY <1>4, <1>6 DEF FileRow
<1> DEFINE row == [files[f] EXCEPT !.decisions = files[f].decisions \cup {d}, !.state = state]
<1>9. /\ row \in FileRow /\ row.state = state /\ row.decisions = files[f].decisions \cup {d}
      /\ files' = [files EXCEPT ![f] = row]
  BY <1>5, <1>6, <1>7, <1>8 DEF FileRow
<1> HIDE DEF row
<1>10. /\ files' \in [Files -> FileRow] /\ files'[f] = row
       /\ \A g \in Files \ {f} : files'[g] = files[g]
  BY <1>6, <1>9
<1>11. \A g \in Files : files[g].decisions \subseteq files'[g].decisions
  BY <1>9, <1>10
<1>12. \A a \in AlertIds :
          \/ alerts'[a] = alerts[a]
          \/ /\ d = "CLEARED" /\ alerts[a].status = "ATTACHED" /\ alerts[a].file = f
             /\ alerts'[a] = [alerts[a] EXCEPT !.status = "DISMISSED"]
  <2>1. alerts' = [a \in AlertIds |->
          IF d = "CLEARED" /\ a \in DismissedWith(f)
          THEN [alerts[a] EXCEPT !.status = "DISMISSED"] ELSE alerts[a]]
    BY <1>2, <1>3 DEF DecideFile
  <2>2. \A a \in AlertIds : a \in DismissedWith(f) => alerts[a].status = "ATTACHED" /\ alerts[a].file = f
    BY DEF DismissedWith
  <2>3. QED
    BY <2>1, <2>2
<1>13. alerts' \in [AlertIds -> AlertRow]
       /\ \A a \in AlertIds : alerts'[a].file = alerts[a].file
  <2>1. ASSUME NEW a \in AlertIds
        PROVE  alerts'[a] \in AlertRow /\ alerts'[a].file = alerts[a].file
    <3>1. alerts[a] \in AlertRow
      BY <1>6
    <3>2. /\ [alerts[a] EXCEPT !.status = "DISMISSED"] \in AlertRow
          /\ [alerts[a] EXCEPT !.status = "DISMISSED"].file = alerts[a].file
      BY <3>1 DEF AlertRow
    <3>3. \/ alerts'[a] = alerts[a]
          \/ alerts'[a] = [alerts[a] EXCEPT !.status = "DISMISSED"]
      BY <1>12
    <3>4. QED
      BY <3>1, <3>2, <3>3
  <2>2. alerts' = [a \in AlertIds |-> alerts'[a]]
    BY DEF DecideFile
  <2>3. QED
    BY <2>1, <2>2
<1>14. FileTypes'
  BY <1>10, <1>13 DEF FileTypes, FileRow, AlertRow
<1>15. ASSUME NEW g \in Files, files'[g].state \in TERMINAL_STATES
       PROVE  Agreed(g)'
  <2>1. CASE g = f /\ d \in DOMAIN DECISION_STATE
    <3>1. /\ approvals'[r].decision \in files'[g].decisions \cap DOMAIN DECISION_STATE
          /\ DECISION_STATE[approvals'[r].decision] = files'[g].state
      BY <1>3, <1>4, <1>5, <1>9, <1>10, <2>1
    <3>2. QED
      BY <1>4, <2>1, <3>1 DEF Agreed
  <2>2. CASE files'[g].state = files[g].state
    <3>1. Agreed(g)
      BY <1>15, <2>2 DEF FileInv
    <3>2. QED
      BY <1>11, <2>2, <3>1, AgreedStays
  <2>3. CASE g = f /\ files'[g].state = "ESCALATED"
    BY <1>15, <2>3 DEF TERMINAL_STATES
  <2>4. QED
    BY <1>5, <1>9, <1>10, <2>1, <2>2, <2>3
<1>16. \A a \in AlertIds : alerts'[a].status \in {"ATTACHED", "DISMISSED"} => alerts'[a].file \in Files
  BY <1>12, <1>13 DEF FileInv
<1>17. ASSUME NEW a \in AlertIds, alerts'[a].status = "DISMISSED"
       PROVE  "CLEARED" \in files'[alerts'[a].file].decisions
  <2>1. CASE alerts'[a] = alerts[a]
    <3>1. alerts[a].file \in Files /\ "CLEARED" \in files[alerts[a].file].decisions
      BY <1>17, <2>1 DEF FileInv
    <3>2. QED
      BY <1>11, <2>1, <3>1
  <2>2. CASE d = "CLEARED" /\ alerts[a].file = f
    BY <1>9, <1>10, <1>13, <2>2
  <2>3. QED
    BY <1>12, <2>1, <2>2
<1>18. QED
  BY <1>14, <1>15, <1>16, <1>17 DEF FileInv

LEMMA FileInvStep ==
  ASSUME FileInv, ApprovalInv, RowsGrow, [Next]_vars
  PROVE  FileInv'
<1>t. files \in [Files -> FileRow] /\ alerts \in [AlertIds -> AlertRow]
  BY RowTypes DEF FileInv
<1>1. CASE UNCHANGED <<alerts, files>>
  BY <1>1, FilesStay
<1>2. ASSUME NEW h \in Handlers, CreateAlert(h)
      PROVE  FileInv'
  <2>1. PICK b \in AlertIds : alerts[b] = NoAlert /\ alerts' = [alerts EXCEPT ![b].status = "OPEN"]
    BY <1>2 DEF CreateAlert
  <2>2. /\ alerts' \in [AlertIds -> AlertRow] /\ alerts'[b].status = "OPEN"
        /\ \A a \in AlertIds \ {b} : alerts'[a] = alerts[a]
    BY <1>t, <2>1 DEF AlertRow
  <2>3. files' = files
    BY <1>2 DEF CreateAlert
  <2>4. FileTypes'
    BY <1>t, <2>2, <2>3 DEF FileTypes, FileRow, AlertRow
  <2>5. \A f \in Files : files'[f].state \in TERMINAL_STATES => Agreed(f)'
    BY <2>3, AgreedStays DEF FileInv
  <2>6. ASSUME NEW a \in AlertIds
        PROVE  /\ alerts'[a].status \in {"ATTACHED", "DISMISSED"} => alerts'[a].file \in Files
               /\ alerts'[a].status = "DISMISSED" => "CLEARED" \in files'[alerts'[a].file].decisions
    BY <2>2, <2>3 DEF FileInv
  <2>7. QED
    BY <2>4, <2>5, <2>6 DEF FileInv
<1>3. ASSUME NEW h \in Handlers, CreateFile(h)
      PROVE  FileInv'
  <2>1. PICK f \in Files :
          /\ files' = [files EXCEPT ![f].state = "OPEN"]
          /\ alerts' = [a \in AlertIds |-> IF a = task[h].id
                                          THEN [status |-> "ATTACHED", file |-> f] ELSE alerts[a]]
    BY <1>3 DEF CreateFile
  <2>2. /\ alerts' \in [AlertIds -> AlertRow]
        /\ \A a \in AlertIds : \/ alerts'[a] = alerts[a]
                               \/ alerts'[a].status = "ATTACHED" /\ alerts'[a].file \in Files
    BY <1>t, <2>1 DEF AlertRow
  <2>3. files' \in [Files -> FileRow]
    BY <1>t, <2>1 DEF FileRow, FileStates
  <2>4. FileTypes'
    BY <2>2, <2>3 DEF FileTypes, FileRow, AlertRow
  <2>5. QED
    BY <2>1, <2>2, <2>4, OneFileStep
<1>4. ASSUME NEW h \in Handlers, ReviewFile(h)
      PROVE  FileInv'
  <2>1. task[h].id \in Files
    BY <1>4 DEF ReviewFile, ApprovalInv, Duty, FileOps
  <2>2. files' = [files EXCEPT ![task[h].id].state = "UNDER_REVIEW"] /\ alerts' = alerts
    BY <1>4 DEF ReviewFile
  <2>3. files' \in [Files -> FileRow]
    BY <1>t, <2>1, <2>2 DEF FileRow, FileStates
  <2>4. FileTypes'
    BY <1>t, <2>2, <2>3 DEF FileTypes, FileRow, AlertRow
  <2>5. QED
    BY <2>1, <2>2, <2>4, OneFileStep
<1>5. ASSUME NEW h \in Handlers, ComplianceStep(h)
      PROVE  FileInv'
  BY <1>1, <1>2, <1>3, <1>4, <1>5, DecideStep
     DEF ComplianceStep, complianceVars, EventRaises, FindAlert, OpenFile, AddNote, ReadFile
<1>6. QED
  BY <1>1, <1>5 DEF Next, vars, complianceVars, RequestDecision, Crash

----------------------------------------------------------------------------
(* The invariant, and what follows from it. *)

Inv == ApprovalInv /\ KycInv /\ FileInv

LEMMA InitInv == Init => Inv
<1> SUFFICES ASSUME Init PROVE Inv
  OBVIOUS
<1> USE DEF Init, ApprovalsInit, KycInit
<1>1. ApprovalTypes
  <2>1. NoRequest \in Requests
    BY DEF NoRequest, Requests, RequestStates, Actions, Words
  <2>2. QED
    BY <2>1, IdleIsTask DEF ApprovalTypes
<1>2. RequestRows
  <2>1. ASSUME NEW r \in RequestIds
        PROVE  /\ approvals[r].state = "NONE" /\ approvals[r].checker = Nobody
               /\ approvals[r].action = "" /\ ran[r] = 0
               /\ ran[r] <= 1
               /\ approvals[r].state \notin {"APPROVED", "EXECUTED", "FAILED"}
               /\ approvals[r].action \notin {"FILE_DECISION", "KYC_DECISION"}
    <3>1. approvals[r] = NoRequest /\ ran[r] = 0
      OBVIOUS
    <3>2. /\ NoRequest.state = "NONE" /\ NoRequest.checker = Nobody /\ NoRequest.action = ""
      BY DEF NoRequest
    <3>3. /\ NoRequest.state \notin {"APPROVED", "EXECUTED", "FAILED"}
          /\ NoRequest.action \notin {"FILE_DECISION", "KYC_DECISION"}
      BY <3>2
    <3>4. 0 <= 1
      OBVIOUS
    <3>5. QED
      BY ONLY <3>1, <3>2, <3>3, <3>4, Zenon
  <2>2. QED
    BY ONLY <2>1, Zenon DEF RequestRows
<1>3. \A h \in Handlers : Duty(h)
  BY IdleIsTask DEF Duty, KycOps, FileOps, ClaimOps, EndOps
<1>4. OneExecutor
  BY IdleIsTask DEF OneExecutor
<1>5. KycInv
  <2>1. NoCase \in CaseRow /\ user \in Users
    BY DEF NoCase, CaseRow, Users, KycStatuses
  <2>2. QED
    BY <2>1 DEF KycInv, KycTypeOK, ValidatedHasCase, CaseRow, Users
<1>6. FileInv
  BY DEF FileInv, FileTypes, FileStates, NoAlert, NoFile, TERMINAL_STATES
<1>7. QED
  BY <1>1, <1>2, <1>3, <1>4, <1>5, <1>6 DEF Inv, ApprovalInv

LEMMA InvStep == Inv /\ [Next]_vars => Inv'
<1> SUFFICES ASSUME Inv, [Next]_vars PROVE Inv'
  OBVIOUS
<1>1. ApprovalInv' /\ RowsGrow
  <2>1. CASE Next
    BY <2>1, NextSteps, ApprovalInvStep DEF Inv, FileInv
  <2>2. CASE UNCHANGED vars
    <3>1. UNCHANGED <<approvals, ran, task, calls, crashes>>
      BY <2>2 DEF vars, approvalVars
    <3>2. QED
      BY <3>1 DEF Inv, ApprovalInv, ApprovalTypes, RequestRows, Duty, IsChecker, OneExecutor, RowsGrow
  <2>3. QED
    BY <2>1, <2>2
<1>2. KycInv'
  BY KycInvStep DEF Inv
<1>3. FileInv'
  BY <1>1, FileInvStep DEF Inv
<1>4. QED
  BY <1>1, <1>2, <1>3 DEF Inv

LEMMA InvAlways == Spec => []Inv
BY InitInv, InvStep, PTL DEF Spec

\* The rows of approvals, identity cases, alerts and compliance cases keep their
\* types, whoever calls approvals.service.ts, kyc.service.ts and
\* compliance.service.ts, in any order and with any stop.
THEOREM TypesHold == Spec => []TypeOK
<1>1. Inv => ApprovalsTypeOK
  BY DEF Inv, ApprovalInv, ApprovalTypes, Requests, Tasks, ApprovalsTypeOK
<1>2. Inv => TypeOK
  BY <1>1 DEF Inv, KycInv, FileInv, FileTypes, FileStates, TypeOK
<1>3. QED
  BY <1>2, InvAlways, PTL

\* Two people act once: whatever approve, reject and their executors do at the
\* same time, an effect is committed at most once, after a checker who is not
\* the maker approved, and EXECUTED is only recorded behind it
\* (approvals.service.ts approve, reject).
THEOREM EffectsAreAgreed == Spec => []EffectsNeedTwoPeople
<1>1. ASSUME Inv, NEW r \in RequestIds
      PROVE  /\ ran[r] <= 1
             /\ ran[r] = 1 =>
                   /\ approvals[r].state \in {"APPROVED", "EXECUTED", "FAILED"}
                   /\ approvals[r].checker \in Checkers \ {approvals[r].maker}
             /\ approvals[r].state = "EXECUTED" => ran[r] = 1
  <2>1. approvals[r].state \in RequestStates
    BY <1>1 DEF Inv, ApprovalInv, ApprovalTypes, Requests
  <2>2. ran[r] = 1 => approvals[r].state \in {"APPROVED", "EXECUTED", "FAILED"}
    <3>1. ran[r] = 1 => approvals[r].state \notin {"NONE", "PENDING", "REJECTED"}
      BY <1>1 DEF Inv, ApprovalInv, RequestRows
    <3>2. QED
      BY <2>1, <3>1 DEF RequestStates
  <2>3. QED
    BY <1>1, <2>2 DEF Inv, ApprovalInv, RequestRows
<1>2. Inv => EffectsNeedTwoPeople
  BY <1>1 DEF EffectsNeedTwoPeople
<1>3. QED
  BY <1>2, InvAlways, PTL

\* Whoever may trade has an identity case that was approved, by the provider or
\* by two people, however the submissions, answers and decisions of
\* kyc.service.ts interleave.
THEOREM TradersWereApproved == Spec => []TradingHasApprovedCase
<1>1. Inv => TradingHasApprovedCase
  BY DEF Inv, KycInv, KycTypeOK, ValidatedHasCase, TradingHasApprovedCase, isTradingAllowed, Cases
<1>2. QED
  BY <1>1, InvAlways, PTL

\* A compliance case ends, and an alert is dismissed, on a decision of two
\* people: executeDecision of compliance.service.ts is only reached through an
\* approved request, and no later note, decision or alert takes that away.
THEOREM CasesAreClosedByTwo == Spec => []ClosedByTwoPeople
<1>1. Inv => ClosedByTwoPeople
  BY DEF Inv, FileInv, Agreed, ClosedByTwoPeople
<1>2. QED
  BY <1>1, InvAlways, PTL
============================================================================
