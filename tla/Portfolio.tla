----------------------------- MODULE Portfolio -----------------------------
(***************************************************************************)
(* The monthly statement of a client's cash (portfolio.service.ts), which  *)
(* works back from the current balance with three queries that no          *)
(* transaction holds together, while postings commit: the ledger dates a   *)
(* posting when its row is inserted, and it is seen when its transaction   *)
(* commits.  Every posting moves one unit on the client's accounts; a      *)
(* month lasts MonthLength ticks of the clock.                             *)
(***************************************************************************)
EXTENDS Settings

CONSTANT MonthLength

ASSUME PortfolioAssumption == MonthLength \in Nat \ {0} /\ IsFiniteSet(Handlers)

VARIABLES
    posted,         \* the date of each committed posting of the client, as they committed
    reading,        \* what each statement under way has read
    statements      \* the statements given out

portfolioVars == <<posted, reading, statements>>

NoReading == [queries |-> {}, movements |-> 0, after |-> 0, known |-> 0]

PortfolioInit ==
    /\ posted = <<>>
    /\ reading = [h \in Handlers |-> NoReading]
    /\ statements = {}

StartOf(month) == month * MonthLength
EndOf(month) == (month + 1) * MonthLength

Count(Test(_)) == Cardinality({i \in DOMAIN posted : Test(posted[i])})
Before(at) == Count(LAMBDA t : t < at)
InMonth(month) == Count(LAMBDA t : StartOf(month) <= t /\ t < EndOf(month))
\* Mutant: what was posted at the first instant of the next month is left out.
AfterMonthStrictly(month) == Count(LAMBDA t : t > EndOf(month))
AfterMonth(month) == Count(LAMBDA t : t >= EndOf(month))

\* Postings inserted before an instant that no other transaction sees yet.
InFlight(at) == Cardinality({h \in Handlers : task[h].op = "posting" /\ task[h].id < at})

----------------------------------------------------------------------------
\* Any posting of the ledger on the client's accounts: postedAt is the default of
\* the column, given at the insert; the transaction commits later, or does not.
InsertPosting(h) ==
    /\ Start(h, "posting", now, Nobody, "", 0)
    /\ UNCHANGED <<approvals, ran, crashes, auditVars, settingsVars, portfolioVars>>

CommitPosting(h) ==
    /\ task[h].op = "posting"
    /\ posted' = Append(posted, task[h].id)
    /\ Done(h)
    /\ UNCHANGED <<approvals, ran, calls, crashes, auditVars, settingsVars, reading, statements>>

RollBackPosting(h) ==
    /\ task[h].op = "posting"
    /\ Done(h)
    /\ UNCHANGED <<approvals, ran, calls, crashes, auditVars, settingsVars, portfolioVars>>

\* A month that has begun.
StartStatement(h, month) ==
    /\ StartOf(month) <= now
    /\ Start(h, "statement", month, Nobody, "", 0)
    /\ reading' = [reading EXCEPT ![h] = [NoReading EXCEPT !.queries = {"entries", "after"},
                                                           !.known = Len(posted)]]
    /\ UNCHANGED <<approvals, ran, crashes, auditVars, settingsVars, posted, statements>>

\* Two of the queries under Promise.all, in any order.
ReadEntries(h) ==
    /\ "entries" \in reading[h].queries
    /\ reading' = [reading EXCEPT ![h].queries = @ \ {"entries"},
                                  ![h].movements = InMonth(task[h].id)]
    /\ UNCHANGED <<approvalVars, auditVars, settingsVars, posted, statements>>

ReadAfter(h) ==
    /\ "after" \in reading[h].queries
    /\ reading' = [reading EXCEPT ![h].queries = @ \ {"after"},
                                  ![h].after = AfterMonth(task[h].id)]
    /\ UNCHANGED <<approvalVars, auditVars, settingsVars, posted, statements>>

\* userBalances, and the statement.
ReadBalances(h) ==
    LET closing == Len(posted) - reading[h].after IN
    /\ task[h].op = "statement"
    /\ reading[h].queries = {}
    /\ statements' = statements \cup
          {[month |-> task[h].id,
            opening |-> closing - reading[h].movements,
            closing |-> closing,
            over |-> EndOf(task[h].id) <= now,
            late |-> Len(posted) - reading[h].known,
            unseen |-> [opening |-> InFlight(StartOf(task[h].id)),
                        closing |-> InFlight(EndOf(task[h].id))]]}
    /\ reading' = [reading EXCEPT ![h] = NoReading]
    /\ Done(h)
    /\ UNCHANGED <<approvals, ran, calls, crashes, auditVars, settingsVars, posted>>

PortfolioStep(h) ==
    \/ InsertPosting(h)
    \/ CommitPosting(h)
    \/ RollBackPosting(h)
    \/ \E month \in 0 .. MaxTime : StartStatement(h, month)
    \/ ReadEntries(h)
    \/ ReadAfter(h)
    \/ ReadBalances(h)

----------------------------------------------------------------------------
\* The opening balance of a statement is that of the books at the start of its
\* month, and so is the closing one of a month that is over, whatever is posted
\* afterwards, but for two things: what committed while the statement was being
\* read (portfolio.service.ts:230 reads the balance after the entries it takes
\* away from it), and what had been dated before that instant and had not
\* committed yet (postedAt is given at the insert, ledger.service.ts:132).
StatementIsExact ==
    \A s \in statements :
        /\ Before(StartOf(s.month)) \in s.opening - s.late .. s.opening + s.unseen.opening
        /\ s.over => Before(EndOf(s.month)) \in s.closing - s.late .. s.closing + s.unseen.closing
=============================================================================
