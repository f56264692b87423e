--------------------------- MODULE OrderValidity ---------------------------
(***************************************************************************)
(* How long an order lives: its sessions are counted when it is placed     *)
(* (orders.service.ts), it is transmitted in a later batch, and the job of *)
(* the session close expires it by the sessions since then                 *)
(* (batches.service.ts).  Its fills are in Executions.                     *)
(***************************************************************************)
EXTENDS TradingDays

CONSTANT LastDay        \* bound: the days of a behaviour are 0 .. LastDay

ASSUME LastDayAssumption == LastDay \in Nat

VARIABLES
    order,      \* the row; until is its GTD date
    clock

validityVars == <<order, clock>>

Days == 0 .. LastDay
\* Around midnight, the cut-off and the close of each day.
Instants == {day * HalfHours + time - Offset :
                day \in Days, time \in {0, Cutoff - 1, Cutoff, SessionClose - 1, SessionClose}}
DAY == -1
NoOrder == [state |-> "NONE", until |-> DAY, sessions |-> 0, sent |-> 0]

ValidityInit ==
    /\ order = NoOrder
    /\ clock = -Offset

ClockAdvances ==
    /\ \E at \in Instants :
          /\ clock < at
          /\ \A i \in Instants : clock < i => at <= i
          /\ clock' = at
    /\ UNCHANGED order

\* placeOrder refuses a date that has no session left.
PlaceUntil(until) ==
    LET sessions == IF until = DAY THEN 1 ELSE sessionsForValidity(until, clock) IN
    /\ order = NoOrder
    /\ sessions # 0
    /\ order' = [state |-> "PENDING", until |-> until, sessions |-> sessions, sent |-> 0]
    /\ UNCHANGED clock

Transmit ==
    /\ order.state = "PENDING"
    /\ order' = [order EXCEPT !.state = "TRANSMITTED", !.sent = clock]
    /\ UNCHANGED clock

\* The job of the session close; a day may go by without it.
ExpireStaleJob ==
    /\ Over(clock, calendarDay(clock))
    /\ order.state = "TRANSMITTED"
    /\ isExpired(order.sent, order.sessions, clock)
    /\ order' = [order EXCEPT !.state = "EXPIRED"]
    /\ UNCHANGED clock

ValidityStep ==
    \/ ClockAdvances
    \/ \E until \in Days \cup {DAY} : PlaceUntil(until)
    \/ Transmit
    \/ ExpireStaleJob

----------------------------------------------------------------------------
\* An order is stale exactly when as many sessions as it was allowed have opened
\* to it and closed (trading-days.ts:128-132), over week-ends, around the cut-off
\* and around the close; and it is never expired while a session it can reach up
\* to its date is still to close, although its sessions are counted at the
\* placement (orders.service.ts:154) and used up from the transmission on
\* (batches.service.ts:384).
ValidityIsInSessions ==
    /\ order.state = "TRANSMITTED" =>
          (isExpired(order.sent, order.sessions, clock) <=>
              Cardinality({d \in Days : Opens(order.sent, d) /\ Over(clock, d)}) >= order.sessions)
    /\ order.state = "EXPIRED" =>
          \A d \in 0 .. order.until : Opens(order.sent, d) => Over(clock, d)
=============================================================================
