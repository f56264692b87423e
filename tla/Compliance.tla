----------------------------- MODULE Compliance -----------------------------
(***************************************************************************)
(* Alerts and compliance cases (compliance.service.ts) on top of the KYC   *)
(* case and the approvals: every decision on a case is a request, and the  *)
(* executor applies it to the case, its alerts and the subject's account.  *)
(* The model has the alerts of one entity, about one subject.              *)
(***************************************************************************)
EXTENDS KycCases

CONSTANTS
    AlertIds,       \* bound: ComplianceAlert rows
    Files           \* bound: ComplianceCase rows, in the order of their references

ASSUME FilesAssumption == AlertIds \subseteq Nat \ {0} /\ Files \subseteq Nat \ {0}

VARIABLES
    alerts,         \* ComplianceAlert
    files           \* ComplianceCase with its decisions

complianceVars == <<alerts, files>>
vars == <<approvalVars, kycVars, complianceVars>>

NoAlert == [status |-> "NONE", file |-> 0]
NoFile == [state |-> "NONE", decisions |-> {}]

COMPLIANCE_DECISIONS == {"CLEARED", "REPORTED", "REPORTED_TO_ANIF", "ACCOUNT_BLOCKED", "CLOSED"}
TERMINAL_STATES == {"CLEARED", "REPORTED", "CLOSED"}
\* Mutant: the decision is taken for the state.
DECISION_AS_STATE == [d \in COMPLIANCE_DECISIONS \ {"ACCOUNT_BLOCKED"} |-> d]
\* ACCOUNT_BLOCKED has no state of its own.
DECISION_STATE == [d \in COMPLIANCE_DECISIONS \ {"ACCOUNT_BLOCKED"} |->
                      IF d = "REPORTED_TO_ANIF" THEN "REPORTED" ELSE d]

Init ==
    /\ ApprovalsInit
    /\ KycInit
    /\ alerts = [a \in AlertIds |-> NoAlert]
    /\ files = [f \in Files |-> NoFile]

----------------------------------------------------------------------------
(* Alerts. *)

OpenAlerts == {a \in AlertIds : alerts[a].status = "OPEN"}
Opened == {f \in Files : files[f].state # "NONE"}

\* An event of another module: a mismatch, a failed settlement, a large
\* payment.  The bus calls raiseAlert, as toManualReview does for hits.
EventRaises(h) ==
    /\ Start(h, "raise", 0, Nobody, "", 0)
    /\ UNCHANGED <<approvals, ran, crashes, kycVars, complianceVars>>

\* raiseAlert looks for an OPEN alert of the entity ...
FindAlert(h) ==
    /\ task[h].op = "raise"
    /\ IF OpenAlerts = {} THEN Goto(h, "createAlert") ELSE Done(h)
    /\ UNCHANGED <<approvals, ran, calls, crashes, kycVars, complianceVars>>

\* ... and creates one when it found none.
CreateAlert(h) ==
    /\ task[h].op = "createAlert"
    /\ \E a \in AlertIds :
          /\ alerts[a] = NoAlert
          /\ \A b \in AlertIds : b < a => alerts[b] # NoAlert
          /\ alerts' = [alerts EXCEPT ![a].status = "OPEN"]
    /\ Done(h)
    /\ UNCHANGED <<approvals, ran, calls, crashes, kycVars, files>>

----------------------------------------------------------------------------
(* Cases. *)

\* openCase, about an alert or about none (0): it counts the alerts that are OPEN,
\* then attaches them by their id.
OpenFile(h, a) ==
    /\ a \in OpenAlerts \cup {0}
    /\ Start(h, "createFile", a, Nobody, "", 0)
    /\ UNCHANGED <<approvals, ran, crashes, kycVars, complianceVars>>

\* The next reference is free in the end: a unique violation is tried again.
CreateFile(h) ==
    /\ task[h].op = "createFile"
    /\ \E f \in Files :
          /\ files[f] = NoFile
          /\ \A g \in Files : g < f => files[g] # NoFile
          /\ files' = [files EXCEPT ![f].state = "OPEN"]
          /\ alerts' = [a \in AlertIds |-> IF a = task[h].id
                                          THEN [status |-> "ATTACHED", file |-> f] ELSE alerts[a]]
    /\ Done(h)
    /\ UNCHANGED <<approvals, ran, calls, crashes, kycVars>>

\* addNote: the note itself is not kept; OPEN becomes UNDER_REVIEW, unconditionally.
AddNote(h, f) ==
    /\ files[f].state = "OPEN"
    /\ Start(h, "reviewFile", f, Nobody, "", 0)
    /\ UNCHANGED <<approvals, ran, crashes, kycVars, complianceVars>>

ReviewFile(h) ==
    /\ task[h].op = "reviewFile"
    /\ files' = [files EXCEPT ![task[h].id].state = "UNDER_REVIEW"]
    /\ Done(h)
    /\ UNCHANGED <<approvals, ran, calls, crashes, kycVars, alerts>>

RequestDecision(s, f, d) ==
    /\ f \in Opened
    /\ files[f].state \notin TERMINAL_STATES
    /\ Requested(s, "FILE_DECISION", f, d)
    /\ UNCHANGED <<task, kycVars, complianceVars>>

\* executeDecision reads the case ...
ReadFile(h) ==
    LET r == task[h].appr IN
    /\ Executing(h, "FILE_DECISION")
    /\ task' = [task EXCEPT ![h].op = "decideFile", ![h].id = approvals[r].target,
                            ![h].seen = files[approvals[r].target].state]
    /\ UNCHANGED <<approvals, ran, calls, crashes, kycVars, complianceVars>>

\* Mutant: the alerts of every case.
DismissedWithAny(f) == {a \in AlertIds : alerts[a].status = "ATTACHED"}
DismissedWith(f) == {a \in AlertIds : alerts[a] = [status |-> "ATTACHED", file |-> f]}

\* ... and in one transaction records the decision, moves the case by the
\* state it read, dismisses the alerts of a cleared case and blocks the user.
DecideFile(h) ==
    LET f == task[h].id
        d == approvals[task[h].appr].decision
    IN
    /\ task[h].op = "decideFile"
    /\ files' = [files EXCEPT
          ![f].decisions = @ \cup {d},
          ![f].state = IF d \in DOMAIN DECISION_STATE THEN DECISION_STATE[d]
                       ELSE IF task[h].seen = "OPEN" THEN "ESCALATED" ELSE @]
    /\ alerts' = [a \in AlertIds |->
          IF d = "CLEARED" /\ a \in DismissedWith(f)
          THEN [alerts[a] EXCEPT !.status = "DISMISSED"] ELSE alerts[a]]
    /\ user' = [user EXCEPT !.blocked = @ \/ d = "ACCOUNT_BLOCKED"]
    /\ Committed(h)
    /\ Return(h)
    /\ UNCHANGED <<approvals, calls, crashes, kyc, account>>

ComplianceStep(h) ==
    \/ EventRaises(h)
    \/ FindAlert(h)
    \/ CreateAlert(h)
    \/ \E a \in AlertIds \cup {0} : OpenFile(h, a)
    \/ CreateFile(h)
    \/ \E f \in Files : AddNote(h, f)
    \/ ReviewFile(h)
    \/ ReadFile(h)
    \/ DecideFile(h)

----------------------------------------------------------------------------
Crash == CrashTasks /\ UNCHANGED <<kycVars, complianceVars>>

Next ==
    \/ \E h \in Handlers :
          \/ ApprovalStep(h) /\ UNCHANGED <<kycVars, complianceVars>>
          \/ KycStep(h) /\ UNCHANGED complianceVars
          \/ ComplianceStep(h)
    \/ /\ \/ \E c \in CaseIds : FillDraft(c)
          \/ \E state \in {"OPEN", "SUSPENDED"} : UpdateAccount(state)
          \/ BlockUser
          \/ \E s \in Staff : RequestUnblock(s)
       /\ UNCHANGED complianceVars
    \/ \E s \in Staff, f \in Files, d \in COMPLIANCE_DECISIONS : RequestDecision(s, f, d)
    \/ Crash

Spec == Init /\ [][Next]_vars

----------------------------------------------------------------------------
TypeOK ==
    /\ ApprovalsTypeOK
    /\ KycTypeOK
    /\ alerts \in [AlertIds -> [status : {"NONE", "OPEN", "ATTACHED", "DISMISSED"},
                                file : Files \cup {0}]]
    /\ files \in [Files -> [state : {"NONE", "OPEN", "UNDER_REVIEW", "ESCALATED"} \cup TERMINAL_STATES,
                            decisions : SUBSET COMPLIANCE_DECISIONS]]

\* A case is closed, and an alert dismissed, only by two people: behind a
\* terminal state stands a recorded decision that a checker other than its
\* maker approved for this case, and behind a dismissed alert a CLEARED one
\* of the case it is attached to (compliance.service.ts:182, 199), however
\* notes, other decisions and other cases for the same alert interleave.
ClosedByTwoPeople ==
    /\ \A f \in Files : files[f].state \in TERMINAL_STATES =>
          \E r \in RequestIds :
              /\ approvals[r].action = "FILE_DECISION"
              /\ approvals[r].target = f
              /\ approvals[r].decision \in files[f].decisions \cap DOMAIN DECISION_STATE
              /\ DECISION_STATE[approvals[r].decision] = files[f].state
              /\ approvals[r].checker \in Checkers \ {approvals[r].maker}
    /\ \A a \in AlertIds : alerts[a].status = "DISMISSED" =>
          "CLEARED" \in files[alerts[a].file].decisions
=============================================================================
