------------------------------- MODULE Quotes -------------------------------
(***************************************************************************)
(* The quotes of one instrument (markets.service.ts): a row per trading    *)
(* day, entered by hand or from a file, and the current price kept on the  *)
(* instrument.  The current price stands for the four fields that          *)
(* upsertQuote refreshes together.                                         *)
(***************************************************************************)
EXTENDS AuditTrail

CONSTANTS
    TradeDates,     \* bound: the days quoted
    QuoteRows       \* bound: what is entered for them, a date and a close each

ASSUME TradeDatesAssumption ==
    TradeDates \subseteq Nat \ {0} /\ \A row \in QuoteRows : row.date \in TradeDates

VARIABLES
    quotes,         \* close of each InstrumentQuote, by its trade date
    lastPrice       \* of the instrument

quoteVars == <<quotes, lastPrice>>

NoPrice == "none"
Closes == {row.close : row \in QuoteRows}

\* createInstrument may give a first price.
QuotesInit ==
    /\ quotes = [d \in TradeDates |-> NoPrice]
    /\ lastPrice \in Closes \cup {NoPrice}

Quoted == {d \in TradeDates : quotes[d] # NoPrice}
latest(d) == d \in Quoted /\ \A e \in Quoted : e <= d

\* addQuote, or bulkQuotes with several rows, one after the other.
AddQuotes(h, rows) ==
    /\ Start(h, "quoteRow", 0, Nobody, "", 0)
    /\ todo' = [todo EXCEPT ![h] = rows]
    /\ UNCHANGED <<approvals, ran, crashes, chain, chainLock, prevHash, quoteVars>>

UpsertQuote(h) ==
    /\ task[h].op = "quoteRow"
    /\ \E row \in todo[h] :
          /\ quotes' = [quotes EXCEPT ![row.date] = row.close]
          /\ todo' = [todo EXCEPT ![h] = @ \ {row}]
          /\ task' = [task EXCEPT ![h].op = "readLatest", ![h].id = row.date]
    /\ UNCHANGED <<approvals, ran, calls, crashes, chain, chainLock, prevHash, lastPrice>>

\* Only the most recent day goes on to the instrument, with the close just read.
ReadLatestQuote(h) ==
    LET d == task[h].id IN
    /\ task[h].op = "readLatest"
    /\ task' = [task EXCEPT ![h].op = IF latest(d) THEN "refreshPrice" ELSE "quoteRow",
                            ![h].seen = quotes[d]]
    /\ UNCHANGED <<approvals, ran, calls, crashes, auditVars, quoteVars>>

RefreshPrice(h) ==
    /\ task[h].op = "refreshPrice"
    /\ lastPrice' = task[h].seen
    /\ Goto(h, "quoteRow")
    /\ UNCHANGED <<approvals, ran, calls, crashes, auditVars, quotes>>

\* The row of the ingestion log ends the call.
LogIngestion(h) ==
    /\ task[h].op = "quoteRow"
    /\ todo[h] = {}
    /\ Done(h)
    /\ UNCHANGED <<approvals, ran, calls, crashes, auditVars, quoteVars>>

QuoteStep(h) ==
    \/ \E rows \in SUBSET QuoteRows \ {{}} : AddQuotes(h, rows)
    \/ UpsertQuote(h)
    \/ ReadLatestQuote(h)
    \/ RefreshPrice(h)
    \/ LogIngestion(h)

----------------------------------------------------------------------------
\* "Les champs de prix courant (...) ne sont rafraichis que si ce jour est le plus
\* recent connu : un rattrapage d'historique ne reecrit pas le dernier cours"
\* (markets.service.ts:126-128): at rest, and as long as the process has not
\* stopped halfway, the current price is the close of the latest day.
LastPriceIsLatest ==
    (crashes = 0 /\ \A h \in Handlers : task[h] = Idle) =>
        \A d \in TradeDates : latest(d) => lastPrice = quotes[d]
=============================================================================
