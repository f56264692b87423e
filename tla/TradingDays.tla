---------------------------- MODULE TradingDays ----------------------------
(***************************************************************************)
(* The calendar of the fixing sessions (trading-days.ts).  An instant is a *)
(* number of half hours since a Monday, 00:00 UTC; a day is numbered by    *)
(* its date in the market's zone, Africa/Douala, one hour ahead of UTC.    *)
(***************************************************************************)
EXTENDS Integers, FiniteSets

HalfHours == 48
Offset == 2
Cutoff == 19            \* market.cutoffTime '09:30'
SessionClose == 32      \* '16:00'

calendarDay(at) == (at + Offset) \div HalfHours
localTime(at) == (at + Offset) % HalfHours

isTradingDay(day) == day % 7 < 5

nextTradingDay(day) ==
    CHOOSE d \in day + 1 .. day + 3 :
        isTradingDay(d) /\ \A e \in day + 1 .. d - 1 : ~isTradingDay(e)

addTradingDays(day, n) ==
    LET step[i \in 0 .. n] == IF i = 0 THEN day ELSE nextTradingDay(step[i - 1])
    IN step[n]

tradingDaysInclusive(from, to) == Cardinality({d \in from .. to : isTradingDay(d)})

\* The same day before its cut-off, else the next trading day.
firstSession(at) ==
    IF isTradingDay(calendarDay(at)) /\ localTime(at) < Cutoff
    THEN calendarDay(at) ELSE nextTradingDay(calendarDay(at))

AtLeastOne(n) == IF n < 1 THEN 1 ELSE n

\* Mutant: the first session is not counted.
isExpiredLater(transmittedAt, sessions, now) ==
    LET last == addTradingDays(firstSession(transmittedAt), AtLeastOne(sessions))
    IN  \/ calendarDay(now) > last
        \/ calendarDay(now) = last /\ localTime(now) >= SessionClose

isExpired(transmittedAt, sessions, now) ==
    LET last == addTradingDays(firstSession(transmittedAt), AtLeastOne(sessions) - 1)
    IN  \/ calendarDay(now) > last
        \/ calendarDay(now) = last /\ localTime(now) >= SessionClose

\* GTD:until; 0 stands for null, the refusal.  DAY is one session.
sessionsForValidity(until, at) ==
    IF until < firstSession(at) THEN 0
    ELSE AtLeastOne(tradingDaysInclusive(firstSession(at), until))

----------------------------------------------------------------------------
(* The reference: a session of a trading day is reached by what is sent    *)
(* before its cut-off, and is over at its close.                           *)

CutoffOf(day) == day * HalfHours + Cutoff - Offset
CloseOf(day) == day * HalfHours + SessionClose - Offset
Opens(at, day) == isTradingDay(day) /\ at < CutoffOf(day)
Over(now, day) == isTradingDay(day) /\ CloseOf(day) <= now
=============================================================================
