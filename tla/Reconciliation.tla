--------------------------- MODULE Reconciliation ---------------------------
(***************************************************************************)
(* The daily reconciliation (reconciliation.service.ts): the lines of the  *)
(* SDB's cash statement against the payment intents, the mirror check, and *)
(* the queue of exceptions.  A line is a reference that does or does not   *)
(* name an intent of the same amount.                                      *)
(***************************************************************************)
EXTENDS AuditTrail

CONSTANTS
    Refs,         \* bound: references a statement may carry
    Payouts       \* the references of withdrawals

ASSUME RefsAssumption == Refs \subseteq Nat \ {0} /\ Payouts \subseteq Refs

VARIABLES
    intents,      \* state of the PaymentIntent a reference names
    items,        \* state of the ReconciliationItem of a reference
    mirrorAlert   \* the mirror item has its ComplianceAlert

reconVars == <<intents, items, mirrorAlert>>

Mirror == 0       \* reference of the day's mirror item
ItemIds == Refs \cup {Mirror}
OpenStates == {"OPEN", "INVESTIGATING"}
ItemStates == {"NONE", "RESOLVED", "WRITTEN_OFF"} \cup OpenStates

ReconInit ==
    /\ intents \in [Refs -> {"NONE", "PENDING"}]
    /\ items = [i \in ItemIds |-> "NONE"]
    /\ mirrorAlert = FALSE

\* What the payments module does meanwhile (Deposits, Withdrawals).
PaymentSettles(r, state) ==
    /\ intents[r] = "PENDING"
    /\ intents' = [intents EXCEPT ![r] = state]
    /\ UNCHANGED <<approvalVars, auditVars, items, mirrorAlert>>

----------------------------------------------------------------------------
(* runDaily. *)

StartRun(h, lines) ==
    /\ Start(h, "line", 0, Nobody, "run", 0)
    /\ todo' = [todo EXCEPT ![h] = lines]
    /\ UNCHANGED <<approvals, ran, crashes, chain, chainLock, prevHash, reconVars>>

\* What a line leads to, by the intent read for it.
Outcome(r, sameAmount) ==
    IF intents[r] = "NONE" \/ ~sameAmount THEN "openItem"
    ELSE IF intents[r] = "PAID" THEN "closeItem"
    ELSE IF r \in Payouts /\ intents[r] = "PENDING" THEN "markPaid"
    ELSE "openItem"

ReadLine(h, r, sameAmount) ==
    /\ task[h].op = "line"
    /\ r \in todo[h]
    /\ todo' = [todo EXCEPT ![h] = @ \ {r}]
    /\ task' = [task EXCEPT ![h].op = Outcome(r, sameAmount), ![h].id = r]
    /\ UNCHANGED <<approvals, ran, calls, crashes, chain, chainLock, prevHash, reconVars>>

\* markWithdrawalPaid returns a PAID intent, pays a PENDING one, or throws.
MarkPaid(h) ==
    LET r == task[h].id IN
    /\ task[h].op = "markPaid"
    /\ \/ /\ intents[r] \in {"PENDING", "PAID"}
          /\ intents' = [intents EXCEPT ![r] = "PAID"]
          /\ Goto(h, "line")
       \/ /\ intents[r] # "PAID"
          /\ Goto(h, "openItem")
          /\ UNCHANGED intents
    /\ UNCHANGED <<approvals, ran, calls, crashes, auditVars, items, mirrorAlert>>

CloseMatchedItem(h) ==
    LET r == task[h].id IN
    /\ task[h].op = "closeItem"
    /\ items' = [items EXCEPT ![r] = IF @ \in OpenStates THEN "RESOLVED" ELSE @]
    /\ Goto(h, "line")
    /\ UNCHANGED <<approvals, ran, calls, crashes, auditVars, intents, mirrorAlert>>

\* openItem and mirrorCheck look for the item, whose state they leave alone ...
FindItem(h) ==
    /\ task[h].op = "openItem"
    /\ IF items[task[h].id] = "NONE" THEN Goto(h, "createItem")
       ELSE IF task[h].id = Mirror THEN Record(h, EVENT)
       ELSE Goto(h, "line")
    /\ UNCHANGED <<approvals, ran, calls, crashes, auditVars, reconVars>>

\* ... and create it; the unique index throws out of the whole run.
CreateItem(h) ==
    LET r == task[h].id IN
    /\ task[h].op = "createItem"
    /\ IF items[r] = "NONE"
       THEN /\ items' = [items EXCEPT ![r] = "OPEN"]
            /\ IF r = Mirror THEN Goto(h, "alertMirror") ELSE Record(h, EVENT)
            /\ UNCHANGED todo
       ELSE /\ Done(h)
            /\ todo' = [todo EXCEPT ![h] = {}]
            /\ UNCHANGED items
    /\ UNCHANGED <<approvals, ran, calls, crashes, chain, chainLock, prevHash, intents, mirrorAlert>>

\* The mirror item's alert, then its events (one entry stands for the two).
AlertMirror(h) ==
    /\ task[h].op = "alertMirror"
    /\ mirrorAlert' = TRUE
    /\ Record(h, EVENT)
    /\ UNCHANGED <<approvals, ran, calls, crashes, auditVars, intents, items>>

\* After the last line: the ledger's total is within the materiality, or not.
MirrorCheck(h, gap) ==
    /\ task[h].op = "line"
    /\ todo[h] = {}
    /\ IF gap
       THEN task' = [task EXCEPT ![h].op = "openItem", ![h].id = Mirror, ![h].seen = ""]
       ELSE Done(h)
    /\ UNCHANGED <<approvals, ran, calls, crashes, auditVars, reconVars>>

----------------------------------------------------------------------------
(* The queue. *)

\* Mutant: an item may be written off directly.
SettableAll == {"INVESTIGATING", "RESOLVED", "WRITTEN_OFF"}
Settable == {"INVESTIGATING", "RESOLVED"}

\* update reads an item that is not closed ...
UpdateItem(h, s, i, state) ==
    /\ items[i] \in OpenStates
    /\ state \in Settable
    /\ Start(h, "updateItem", i, s, state, 0)
    /\ UNCHANGED <<approvals, ran, crashes, auditVars, reconVars>>

\* ... and writes it by its id.
WriteUpdate(h) ==
    /\ task[h].op = "updateItem"
    /\ items' = [items EXCEPT ![task[h].id] = task[h].seen]
    /\ IF task[h].seen = "RESOLVED" THEN Record(h, EVENT) ELSE Done(h)
    /\ UNCHANGED <<approvals, ran, calls, crashes, auditVars, intents, mirrorAlert>>

RequestWriteOff(s, i) ==
    /\ items[i] \in OpenStates
    /\ Requested(s, "RECON_WRITE_OFF", i, "")
    /\ UNCHANGED <<task, auditVars, reconVars>>

\* applyWriteOff reads the item again, and closes it by its id.
ReadWriteOff(h) ==
    LET i == approvals[task[h].appr].target IN
    /\ Executing(h, "RECON_WRITE_OFF")
    /\ CASE items[i] \in OpenStates ->
              task' = [task EXCEPT ![h].op = "writeOff", ![h].id = i] /\ UNCHANGED ran
         [] items[i] = "WRITTEN_OFF" -> Return(h) /\ Committed(h)
         [] OTHER -> Throw(h) /\ UNCHANGED ran
    /\ UNCHANGED <<approvals, calls, crashes, auditVars, reconVars>>

WriteOff(h) ==
    /\ task[h].op = "writeOff"
    /\ items' = [items EXCEPT ![task[h].id] = "WRITTEN_OFF"]
    /\ Committed(h)
    /\ Record(h, EVENT)
    /\ UNCHANGED <<approvals, calls, crashes, auditVars, intents, mirrorAlert>>

ReconStep(h) ==
    \/ \E lines \in SUBSET Refs \ {{}} : StartRun(h, lines)
    \/ \E r \in Refs, sameAmount \in BOOLEAN : ReadLine(h, r, sameAmount)
    \/ MarkPaid(h)
    \/ CloseMatchedItem(h)
    \/ FindItem(h)
    \/ CreateItem(h)
    \/ AlertMirror(h)
    \/ \E gap \in BOOLEAN : MirrorCheck(h, gap)
    \/ \E s \in Staff, i \in ItemIds, state \in ItemStates : UpdateItem(h, s, i, state)
    \/ WriteUpdate(h)
    \/ ReadWriteOff(h)
    \/ WriteOff(h)

----------------------------------------------------------------------------
\* A mismatch is abandoned by two people only (reconciliation.service.ts:53 "un
\* abandon (WRITTEN_OFF) passe par le maker-checker"): however runs, updates and
\* write-offs interleave, a request for this item stands behind it that someone
\* other than its maker approved.
WrittenOffByTwoPeople ==
    \A i \in ItemIds : items[i] = "WRITTEN_OFF" =>
        \E r \in RequestIds :
            /\ approvals[r].action = "RECON_WRITE_OFF"
            /\ approvals[r].target = i
            /\ approvals[r].state \in {"APPROVED", "EXECUTED", "FAILED"}
            /\ approvals[r].checker \in Checkers \ {approvals[r].maker}
=============================================================================
