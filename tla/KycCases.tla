------------------------------ MODULE KycCases ------------------------------
(***************************************************************************)
(* The identity file of one user (kyc.service.ts, broker-accounts.service  *)
(* .ts) and the blocking of that user (users.service.ts).  submit awaits   *)
(* the identity provider between its writes, and every status write after  *)
(* that is unconditional; administrators decide meanwhile.  Uploads and    *)
(* the provider's answer are reduced to what the decisions look at.        *)
(***************************************************************************)
EXTENDS Approvals

CONSTANTS
    MaxCases,           \* bound: KYC cases of the user
    MaxResubmissions    \* kyc.max_resubmissions

ASSUME KycAssumption == MaxCases \in Nat \ {0} /\ MaxResubmissions \in Nat

VARIABLES
    user,       \* kycStatus, kycResubmissions, isBlocked
    kyc,        \* case -> row, cases are numbered by createdAt
    account     \* state of the user's BrokerAccount

kycVars == <<user, kyc, account>>

CaseIds == 1 .. MaxCases
NoCase == [status |-> "NONE", complete |-> FALSE, hits |-> FALSE]

REVIEWABLE_STATUSES == {"SUBMITTED", "MANUAL_REVIEW"}
IN_PROGRESS_STATUSES == {"SUBMITTED", "AUTO_APPROVED", "MANUAL_REVIEW"}
KycStatuses == {"NONE", "DRAFT", "VALIDATED", "REJECTED"} \cup IN_PROGRESS_STATUSES

KycInit ==
    /\ user = [kyc |-> "NONE", resubmissions |-> 0, blocked |-> FALSE]
    /\ kyc = [c \in CaseIds |-> NoCase]
    /\ account = "NONE"

Cases == {c \in CaseIds : kyc[c].status # "NONE"}
latestCase(c) == c \in Cases /\ \A d \in Cases : d <= c
NextCase(c) == c \in CaseIds \ Cases /\ \A d \in CaseIds \ Cases : c <= d

\* What the orders, the withdrawals and the policy ask of KYC.
isTradingAllowed == ~user.blocked /\ user.kyc = "VALIDATED"

SetStatus(c, status) == kyc' = [kyc EXCEPT ![c].status = status]
SetBoth(c, status) ==
    /\ SetStatus(c, status)
    /\ user' = [user EXCEPT !.kyc = status]

----------------------------------------------------------------------------
(* The user's side. *)

\* openCase looks at the latest case and the user, then creates the draft.
OpenAllowed ==
    \A c \in CaseIds : latestCase(c) =>
        /\ kyc[c].status \notin {"DRAFT", "VALIDATED"} \cup IN_PROGRESS_STATUSES
        /\ kyc[c].status = "REJECTED" => user.resubmissions < MaxResubmissions

OpenKycCase(h) ==
    /\ OpenAllowed
    /\ Cases # CaseIds
    /\ Start(h, "createDraft", 0, Nobody, "", 0)
    /\ UNCHANGED <<approvals, ran, crashes, kycVars>>

CreateDraft(h) ==
    /\ task[h].op = "createDraft"
    /\ \E c \in CaseIds :
          /\ NextCase(c)
          /\ kyc' = [kyc EXCEPT ![c] = [NoCase EXCEPT !.status = "DRAFT"]]
    /\ user' = [user EXCEPT !.kyc = "DRAFT"]
    /\ Done(h)
    /\ UNCHANGED <<approvals, ran, calls, crashes, account>>

\* updateCase and addDocument, until nothing that submit asks for is missing.
FillDraft(c) ==
    /\ latestCase(c)
    /\ kyc[c].status = "DRAFT"
    /\ ~kyc[c].complete
    /\ kyc' = [kyc EXCEPT ![c].complete = TRUE]
    /\ UNCHANGED <<approvalVars, user, account>>

Submit(h, c) ==
    /\ latestCase(c)
    /\ kyc[c].status = "DRAFT"
    /\ kyc[c].complete
    /\ Start(h, "submit", c, Nobody, "", 0)
    /\ UNCHANGED <<approvals, ran, crashes, kycVars>>

MarkSubmitted(h) ==
    /\ task[h].op = "submit"
    /\ SetBoth(task[h].id, "SUBMITTED")
    /\ Goto(h, "verify")
    /\ UNCHANGED <<approvals, ran, calls, crashes, account>>

\* The provider answers: the screening is stored, then its reasons decide.
\* "doubt" is a bad document, a low liveness or a country not covered.
ProviderAnswers(h, answer) ==
    /\ task[h].op = "verify"
    /\ kyc' = [kyc EXCEPT ![task[h].id].hits = answer = "hits"]
    /\ task' = [task EXCEPT ![h].op = IF answer = "clean" THEN "autoApprove" ELSE "toReview",
                            ![h].seen = answer]
    /\ UNCHANGED <<approvals, ran, calls, crashes, user, account>>

ProviderDown(h) ==
    /\ task[h].op = "verify"
    /\ Goto(h, "toReview")
    /\ UNCHANGED <<approvals, ran, calls, crashes, kycVars>>

AutoApprove(h) ==
    /\ task[h].op = "autoApprove"
    /\ SetStatus(task[h].id, "AUTO_APPROVED")
    /\ Goto(h, "validate")
    /\ UNCHANGED <<approvals, ran, calls, crashes, user, account>>

\* Mutant: the user's status is forgotten.
ToManualReviewCaseOnly(h) ==
    /\ task[h].op = "toReview"
    /\ SetStatus(task[h].id, "MANUAL_REVIEW")
    /\ IF task[h].seen = "hits" THEN Goto(h, "raise") ELSE Done(h)
    /\ UNCHANGED <<approvals, ran, calls, crashes, user, account>>

\* toManualReview; its event tells compliance about the hits.
ToManualReview(h) ==
    /\ task[h].op = "toReview"
    /\ SetBoth(task[h].id, "MANUAL_REVIEW")
    /\ IF task[h].seen = "hits" THEN Goto(h, "raise") ELSE Done(h)
    /\ UNCHANGED <<approvals, ran, calls, crashes, account>>

----------------------------------------------------------------------------
(* The administrators' side. *)

Reviewable(c) == kyc[c].status \in REVIEWABLE_STATUSES /\ latestCase(c)

\* decide: a case with hits becomes a request, any other is applied.
DecideKyc(h, s, c, decision) ==
    /\ Reviewable(c)
    /\ Start(h, IF kyc[c].hits THEN "requestKyc" ELSE "apply", c, s, decision, 0)
    /\ UNCHANGED <<approvals, ran, crashes, kycVars>>

RequestKycDecision(h) ==
    /\ task[h].op = "requestKyc"
    /\ Requested(task[h].who, "KYC_DECISION", task[h].id, task[h].seen)
    /\ Done(h)
    /\ UNCHANGED kycVars

\* executeDecision hands a KYC decision to applyDecision, in the checker's name.
ExecuteKycDecision(h) ==
    LET r == task[h].appr IN
    /\ Executing(h, "KYC_DECISION")
    /\ task' = [task EXCEPT ![h].op = "apply", ![h].id = approvals[r].target,
                            ![h].seen = approvals[r].decision]
    /\ UNCHANGED <<approvals, ran, calls, crashes, kycVars>>

ApplyDecision(h) ==
    /\ task[h].op = "apply"
    /\ IF Reviewable(task[h].id)
       THEN Goto(h, IF task[h].seen = "VALIDATED" THEN "validate" ELSE "refuse")
       ELSE Throw(h)
    /\ UNCHANGED <<approvals, ran, calls, crashes, kycVars>>

Validate(h) ==
    /\ task[h].op = "validate"
    /\ SetBoth(task[h].id, "VALIDATED")
    /\ Committed(h)
    /\ Goto(h, "account")
    /\ UNCHANGED <<approvals, calls, crashes, account>>

Refuse(h) ==
    /\ task[h].op = "refuse"
    /\ SetStatus(task[h].id, "REJECTED")
    /\ user' = [user EXCEPT !.kyc = "REJECTED", !.resubmissions = @ + 1]
    /\ Committed(h)
    /\ Return(h)
    /\ UNCHANGED <<approvals, calls, crashes, account>>

\* requestBrokerAccount: one account per user and partner; none while no
\* partner is ACTIVE.
RequestAccount(h) ==
    /\ task[h].op = "account"
    /\ account' \in {account, IF account = "NONE" THEN "REQUESTED" ELSE account}
    /\ Return(h)
    /\ UNCHANGED <<approvals, ran, calls, crashes, user, kyc>>

\* BrokerAccountsService.update; OPEN asks for the SDB account number.
UpdateAccount(state) ==
    /\ account \notin {"NONE", state}
    /\ account' = state
    /\ UNCHANGED <<approvalVars, user, kyc>>

----------------------------------------------------------------------------
(* Blocking is immediate, unblocking is a request. *)

BlockUser ==
    /\ ~user.blocked
    /\ user' = [user EXCEPT !.blocked = TRUE]
    /\ UNCHANGED <<approvalVars, kyc, account>>

RequestUnblock(s) ==
    /\ user.blocked
    /\ Requested(s, "USER_UNBLOCK", 0, "")
    /\ UNCHANGED <<task, kycVars>>

ExecuteUnblock(h) ==
    /\ Executing(h, "USER_UNBLOCK")
    /\ user' = [user EXCEPT !.blocked = FALSE]
    /\ Committed(h)
    /\ Return(h)
    /\ UNCHANGED <<approvals, calls, crashes, kyc, account>>

KycStep(h) ==
    \/ OpenKycCase(h)
    \/ CreateDraft(h)
    \/ \E c \in CaseIds : Submit(h, c)
    \/ MarkSubmitted(h)
    \/ \E answer \in {"clean", "hits", "doubt"} : ProviderAnswers(h, answer)
    \/ ProviderDown(h)
    \/ AutoApprove(h)
    \/ ToManualReview(h)
    \/ \E s \in Staff, c \in CaseIds, d \in {"VALIDATED", "REJECTED"} : DecideKyc(h, s, c, d)
    \/ RequestKycDecision(h)
    \/ ExecuteKycDecision(h)
    \/ ApplyDecision(h)
    \/ Validate(h)
    \/ Refuse(h)
    \/ RequestAccount(h)
    \/ ExecuteUnblock(h)

----------------------------------------------------------------------------
KycTypeOK ==
    /\ user \in [kyc : KycStatuses, resubmissions : Nat, blocked : BOOLEAN]
    /\ kyc \in [CaseIds -> [status : KycStatuses, complete : BOOLEAN, hits : BOOLEAN]]
    /\ account \in {"NONE", "REQUESTED", "OPEN", "SUSPENDED"}

\* A user who may trade has a case that was approved: no order of submissions,
\* answers of the provider and decisions leaves the permission (kyc.service.ts
\* :85 isTradingAllowed, validate's transaction) behind a case that is not.
TradingHasApprovedCase ==
    isTradingAllowed =>
        \E c \in Cases : kyc[c].status \in {"VALIDATED", "AUTO_APPROVED"}
=============================================================================
