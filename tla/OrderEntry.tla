----------------------------- MODULE OrderEntry -----------------------------
(***************************************************************************)
(* The checks an order passes before it is written: placeOrder of          *)
(* orders.service.ts and the rules of the policy module, read by read.     *)
(* What it relies on changes meanwhile: the market's switch, its fees, the *)
(* cap, the price, the client.  What the row and its reserve do then is    *)
(* in Orders.                                                              *)
(***************************************************************************)
EXTENDS Fees, Quotes

CONSTANTS
    Market,         \* of the instrument
    PriceOf,        \* the amount of each close, times the quantity ordered
    CapOf           \* pilot.order_cap_xaf, for each value of the parameter

ASSUME EntryAssumption ==
    /\ Market \in MarketIds
    /\ \A close \in Closes : PriceOf[close] \in Nat
    /\ CapOf \in [Values -> Nat]

VARIABLES
    pilot,          \* whether the client is a demo account; SDB_CONNECTOR is the simulated one
    allowed,        \* the client's KYC is VALIDATED and they are not blocked (KycCases)
    draft,          \* what each placeOrder has read so far
    placed          \* the orders written

entryVars == <<pilot, allowed, draft, placed>>

NoDraft == [side |-> "BUY", live |-> FALSE, price |-> 0, fee |-> 0]

EntryInit ==
    /\ pilot \in [demo : BOOLEAN, connectorSimulated : BOOLEAN]
    /\ allowed \in BOOLEAN
    /\ draft = [h \in Handlers |-> NoDraft]
    /\ placed = {}

isSimulatedTrading(isLive) == ~(isLive /\ ~pilot.connectorSimulated)

ruleCanTrade(isLive) == allowed /\ (isSimulatedTrading(isLive) => pilot.demo)

\* The cap of the version in effect, read past the cache of the config module.
orderCap == {CapOf[row.value] : row \in current(config, now)}

\* Cash needed for a BUY; the estimated total for a SELL.
maxAmount(d) == IF d.side = "BUY" THEN d.price + d.fee ELSE d.price

ruleCanPlaceOrder(d, cap, funded) ==
    /\ maxAmount(d) <= cap
    /\ isSimulatedTrading(d.live) \/ funded

----------------------------------------------------------------------------
\* KYC decisions and blocks (KycCases, Sessions).
ClientChanges ==
    /\ allowed' = ~allowed
    /\ UNCHANGED <<approvalVars, auditVars, settingsVars, schedules, quoteVars, pilot, draft, placed>>

\* loadInstrument: the market's switch, and the price that quote uses.
LoadInstrument(h, side) ==
    /\ Start(h, "canTrade", 0, Nobody, lastPrice, 0)
    /\ draft' = [draft EXCEPT ![h] = [NoDraft EXCEPT !.side = side, !.live = live]]
    /\ UNCHANGED <<approvals, ran, crashes, auditVars, settingsVars, schedules, quoteVars,
                   pilot, allowed, placed>>

\* canTrade reads the client, and the market's switch again; quote then needs a price.
CanTrade(h) ==
    /\ task[h].op = "canTrade"
    /\ IF ruleCanTrade(live) /\ task[h].seen # NoPrice
       THEN /\ task' = [task EXCEPT ![h].op = "quoteFee"]
            /\ draft' = [draft EXCEPT ![h].price = PriceOf[task[h].seen]]
       ELSE Done(h) /\ draft' = [draft EXCEPT ![h] = NoDraft]
    /\ UNCHANGED <<approvals, ran, calls, crashes, auditVars, settingsVars, schedules, quoteVars,
                   pilot, allowed, placed>>

\* computeFee, of the schedule found.
ChargeBy(h, i) ==
    draft' = [draft EXCEPT ![h].fee = applySchedule(RateOf[schedules[i].rate], draft[h].price)]

\* activeSchedule asks for the market's schedule ...
QuoteFee(h) ==
    LET specific == LatestOf(Market, now) IN
    /\ task[h].op = "quoteFee"
    /\ IF specific # {}
       THEN Goto(h, "canPlace") /\ \E i \in specific : ChargeBy(h, i)
       ELSE /\ task' = [task EXCEPT ![h].op = "quoteGlobalFee", ![h].id = now]
            /\ UNCHANGED draft
    /\ UNCHANGED <<approvals, ran, calls, crashes, auditVars, settingsVars, schedules, quoteVars,
                   pilot, allowed, placed>>

\* ... then for the global one, at the same instant; without one there is no fee.
QuoteGlobalFee(h) ==
    LET general == LatestOf(Global, task[h].id) IN
    /\ task[h].op = "quoteGlobalFee"
    /\ Goto(h, "canPlace")
    /\ IF general # {} THEN \E i \in general : ChargeBy(h, i) ELSE UNCHANGED draft
    /\ UNCHANGED <<approvals, ran, calls, crashes, auditVars, settingsVars, schedules, quoteVars,
                   pilot, allowed, placed>>

\* canPlaceOrder reads the cap in effect, and the balance or the position; a real
\* order also needs an active partner.
CanPlaceOrder(h, funded) ==
    /\ task[h].op = "canPlace"
    /\ \E cap \in orderCap :
          IF ruleCanPlaceOrder(draft[h], cap, funded)
          THEN Goto(h, "insertOrder") /\ UNCHANGED draft
          ELSE Done(h) /\ draft' = [draft EXCEPT ![h] = NoDraft]
    /\ UNCHANGED <<approvals, ran, calls, crashes, auditVars, settingsVars, schedules, quoteVars,
                   pilot, allowed, placed>>

\* The row, with the reserve of a real order, which the ledger may still refuse;
\* its events are one entry of the audit log.
InsertOrder(h) ==
    LET d == draft[h]
        order == [simulated |-> isSimulatedTrading(d.live), maxAmount |-> maxAmount(d)]
    IN
    /\ task[h].op = "insertOrder"
    /\ \/ placed' = placed \cup {order} /\ Record(h, EVENT)
       \/ ~order.simulated /\ Done(h) /\ UNCHANGED placed
    /\ draft' = [draft EXCEPT ![h] = NoDraft]
    /\ UNCHANGED <<approvals, ran, calls, crashes, auditVars, settingsVars, schedules, quoteVars,
                   pilot, allowed>>

EntryStep(h) ==
    \/ \E side \in {"BUY", "SELL"} : LoadInstrument(h, side)
    \/ CanTrade(h)
    \/ QuoteFee(h)
    \/ QuoteGlobalFee(h)
    \/ \E funded \in BOOLEAN : CanPlaceOrder(h, funded)
    \/ InsertOrder(h)

----------------------------------------------------------------------------
\* "Un ordre simule (paper trading, reserve aux comptes demo - D15)"
\* (orders.service.ts:66-67; docs/ARCHITECTURE.md:36, "refused unless the caller
\* is flagged as a demo user").  It is not so: what makes the order a paper one is
\* the market's switch as loadInstrument read it (:160), what lets the client
\* trade is the switch as canTrade reads it later, and LIVE_TRADING_TOGGLE may
\* run in between.
PaperOrdersAreDemo == \A o \in placed : o.simulated => pilot.demo
=============================================================================
