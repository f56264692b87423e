----------------------------- MODULE Executions -----------------------------
(***************************************************************************)
(* What the SDB executes: applyExecution of BatchesService, called for a   *)
(* line of an EXE file or an approved manual execution, and the settlement *)
(* or delivery failure of SettlementService.  The amounts of a line are    *)
(* what it takes from the reserve (BUY) or brings in (SELL); the clearing  *)
(* account stands for the SDB's and the fee accounts.                      *)
(***************************************************************************)
EXTENDS Orders

Fill(l) == Book!Posting(FillKey(l), IF side[l.order] = "BUY"
                                    THEN Move(l.amount, "reserved", "clearing")
                                    ELSE Move(l.amount, "clearing", "settling"))

-----------------------------------------------------------------------------
(* applyExecution                                                          *)

\* A line of an EXE file, for an order of the batch, or a manual execution; a
\* reference that is already there is a duplicate.
ExeLine(w, l) ==
  /\ batchId[l.order] # 0
  /\ executions[l] = "none"
  /\ Start(w, [at |-> "order", line |-> l])
  /\ UNCHANGED <<orders, executions, position, ledger>>

ManualExecution(w, l) ==
  /\ status[l.order] \in OPEN_AT_SDB
  /\ executions[l] = "none"
  /\ Start(w, [at |-> "order", line |-> l])
  /\ UNCHANGED <<orders, executions, position, ledger>>

\* The transaction reads the order, without a lock, and computes the fill.
ReadOrder(w) ==
  /\ At(w, "order")
  /\ LET l == h[w].line
         o == l.order
     IN IF status[o] \in OPEN_AT_SDB /\ fillAllowed(filled[o], l.qty, Quantity[o])
        THEN h' = [h EXCEPT ![w] = [at |-> "reserve", line |-> l, fill |-> filled[o]]]
        ELSE Finish(w)
  /\ UNCHANGED <<orders, executions, position, ledger, overlapped, starts>>

\* Mutant: the ledger's rule on RESERVED is the only guard.
CheckReserveNot(w) ==
  /\ At(w, "reserve")
  /\ Goto(w, "lock")
  /\ UNCHANGED <<orders, executions, position, ledger, overlapped, starts>>

\* postFill of a BUY: the debit must fit what the executions left of the reserve.
CheckReserve(w) ==
  /\ At(w, "reserve")
  /\ LET l == h[w].line
     IN IF side[l.order] = "SELL" \/ consumedReserve(l.order) + l.amount <= MaxAmount[l.order]
        THEN Goto(w, "lock") ELSE Finish(w)
  /\ UNCHANGED <<orders, executions, position, ledger, overlapped, starts>>

\* The posting takes the account locks; addPendingShares then reads the position.
LockAccounts(w) ==
  /\ At(w, "lock")
  /\ Free(FillAccounts(h[w].line.order))
  /\ h' = [h EXCEPT ![w] = [at |-> "write", line |-> h[w].line, fill |-> h[w].fill,
                            pending |-> position.pending]]
  /\ UNCHANGED <<orders, executions, position, ledger, overlapped, starts>>

\* Mutant: what is left of a SELL is computed from the order as it was read.
SharesAfterFillStale(o, seen, now, pending) ==
  IF side[o] = "BUY" THEN [position EXCEPT !.pending = pending]
  ELSE IF now = Quantity[o] THEN unreserveShares(Quantity[o] - seen) ELSE position

\* The position after a fill: pending shares of a BUY; releaseRemaining of a SELL
\* that is complete has nothing left to free.
SharesAfterFill(o, seen, now, pending) ==
  IF side[o] = "BUY" THEN [position EXCEPT !.pending = pending]
  ELSE IF now = Quantity[o] THEN unreserveShares(Quantity[o] - now) ELSE position

\* The rest of the transaction: the Execution (unique on its reference), the
\* FILL, the position, the order's counters and, when it is complete, the
\* release of what is left.
WriteExecution(w) ==
  LET l == h[w].line
      o == l.order
      now == h[w].fill + l.qty
      left == MaxAmount[o] - consumedReserve(o) - l.amount
      rest == IF side[o] = "BUY" /\ now = Quantity[o] /\ left > 0 THEN {Release(o, left)} ELSE {}
  IN /\ At(w, "write")
     /\ executions[l] = "none"
     /\ Book!PostAll({Fill(l)} \cup rest)
     /\ executions' = [executions EXCEPT ![l] = "UNSETTLED"]
     /\ position' = SharesAfterFill(o, h[w].fill, now, h[w].pending + l.qty)
     /\ filled' = [filled EXCEPT ![o] = now]
     /\ status' = [status EXCEPT ![o] = fillStatus(h[w].fill, l.qty, Quantity[o])]
     /\ Finish(w)
     /\ UNCHANGED <<side, batchId, batches, revived, overlapped, starts>>

-----------------------------------------------------------------------------
(* settleDue and failSettlement                                            *)

settleBuyShares(l) ==
  position' = [position EXCEPT !.pending = Floor(@ - l.qty), !.quantity = @ + l.qty]
settleSellShares(l) ==
  position' = [position EXCEPT !.reserved = Floor(@ - l.qty), !.quantity = Floor(@ - l.qty)]

postSellSettlement(l) ==
  /\ Free({"settling", "available"})
  /\ Book!PostAll({Book!Posting(<<"settlement", l.order, l.ref>>,
                                Move(l.amount, "settling", "available"))})

\* Mutant: an execution listed as due is settled without claiming it.
SettleUnclaimed(l) ==
  /\ side[l.order] = "BUY" /\ executions[l] \in {"UNSETTLED", "FAILED"}
  /\ executions' = [executions EXCEPT ![l] = "SETTLED"]
  /\ settleBuyShares(l)
  /\ AtOnce
  /\ UNCHANGED <<orders, ledger>>

\* The settlement of one due execution: its conditional claim makes it one step.
Settle(l) ==
  /\ executions[l] = "UNSETTLED"
  /\ executions' = [executions EXCEPT ![l] = "SETTLED"]
  /\ \/ side[l.order] = "BUY" /\ settleBuyShares(l) /\ UNCHANGED ledger
     \/ side[l.order] = "SELL" /\ postSellSettlement(l) /\ settleSellShares(l)
  /\ AtOnce
  /\ UNCHANGED orders

\* failSettlement reads the execution, outside its transaction.
FailSettlement(w, l) ==
  /\ executions[l] = "UNSETTLED"
  /\ Start(w, [at |-> "reverse", line |-> l])
  /\ UNCHANGED <<orders, executions, position, ledger>>

SharesAfterFailure(l) ==
  IF side[l.order] = "BUY" THEN [position EXCEPT !.pending = Floor(@ - l.qty)]
                           ELSE unreserveShares(l.qty)

\* Mutant: the execution that fails still counts.
RecountAll(o, failed) == SumFunction([m \in Standing(o) |-> m.qty])
Recount(o, failed) == SumFunction([m \in Standing(o) \ {failed} |-> m.qty])

\* The FILL is reversed (reverse refuses to do so twice) and the cash of a BUY
\* goes back to AVAILABLE.
reverseFill(l) ==
  LET o == l.order
      back == IF side[o] = "SELL" THEN {}
              ELSE {Book!Posting(<<"settlement-fail-release", o, l.ref>>,
                                 Move(l.amount, "reserved", "available"))}
  IN /\ ~Book!Reversed(FillKey(l))
     /\ Free(FillAccounts(o) \cup {"available"})
     /\ Book!PostAll({Book!Reversal(FillKey(l))} \cup back)

\* The transaction of failSettlement; the order's counters are recomputed.
ReverseFill(w) ==
  LET l == h[w].line
      o == l.order
  IN /\ At(w, "reverse")
     /\ reverseFill(l)
     /\ executions' = [executions EXCEPT ![l] = "FAILED"]
     /\ filled' = [filled EXCEPT ![o] = Recount(o, l)]
     /\ status' = [status EXCEPT ![o] = "ADJUSTED"]
     /\ position' = SharesAfterFailure(l)
     /\ Finish(w)
     /\ UNCHANGED <<side, batchId, batches, revived, overlapped, starts>>

-----------------------------------------------------------------------------
\* A statement or a posting throws: the transaction rolls back.
Throw(w) ==
  /\ h[w] # Idle
  /\ Finish(w)
  /\ UNCHANGED <<orders, executions, position, ledger, overlapped, starts>>

Request(w) ==
  \/ ListPending(w)
  \/ \E b \in 1..batches : ReadAck(w, b)
  \/ \E o \in OrderIds : ExpireStale(w, o) \/ ApplyReview(w, o)
  \/ \E l \in Lines : ExeLine(w, l) \/ ManualExecution(w, l) \/ FailSettlement(w, l)

Step(w) ==
  \/ RejectUnattached(w) \/ NextSequence(w) \/ WriteBatch(w)
  \/ AckAccepted(w) \/ AckRejected(w) \/ CloseAck(w) \/ WriteExpiry(w) \/ WriteReview(w)
  \/ ReadOrder(w) \/ CheckReserve(w) \/ LockAccounts(w) \/ WriteExecution(w)
  \/ ReverseFill(w)

Next == \/ \E w \in Workers : Request(w) \/ Step(w) \/ Throw(w)
        \/ \E o \in OrderIds : PlaceOrder(o) \/ Cancel(o)
        \/ \E l \in Lines : Settle(l)

Spec == Init /\ [][Next]_vars

-----------------------------------------------------------------------------
(* Properties.  What needs handlers not to overlap says so.                *)

BUYs == {o \in OrderIds : side[o] = "BUY"}
Unsettled(s) == {l \in Lines : side[l.order] = s /\ executions[l] = "UNSETTLED"}
Live == {o \in OrderIds : status[o] # "none" /\ ~isFinal(status[o])}

\* What the postings of an order have left in RESERVED.
PostingsOf(o) == {r \in journal : r.key[2] = o}
ReserveLeft(o) == SumFunction([r \in PostingsOf(o) |-> r.delta["reserved"]])

\* Every variable has its type.
TypeOK ==
  /\ side \in Sides
  /\ status \in [OrderIds -> Statuses \cup {"none"}]
  /\ filled \in [OrderIds -> Nat]
  /\ batchId \in [OrderIds -> Nat] /\ batches \in Nat /\ revived \subseteq OrderIds
  /\ executions \in [Lines -> {"none", "UNSETTLED", "SETTLED", "FAILED"}]
  /\ position \in [quantity : Nat, pending : Nat, reserved : Nat]
  /\ balance \in [Accounts -> Int]
  /\ overlapped \in BOOLEAN /\ starts \in 0..MaxStarts
  /\ h \in [Workers -> {Idle}
       \cup [at : {"classify"}, on : SUBSET OrderIds]
       \cup [at : {"batch"}, on : SUBSET OrderIds, seen : Nat]
       \cup [at : {"ack"}, byId : [OrderIds -> [status : Statuses \cup {"none"}, filled : Nat]]]
       \cup [at : {"expire", "review"}, on : OrderIds, seen : Statuses, fill : Nat, to : Statuses]
       \cup [at : {"order", "reverse"}, line : Lines]
       \cup [at : {"reserve", "lock"}, line : Lines, fill : Nat]
       \cup [at : {"write"}, line : Lines, fill : Nat, pending : Nat]]

\* The SDB's account says what the executions that still stand moved, whatever
\* files are imported twice, and however settlements race delivery failures
\* (postFill, reverseFill; unique sdbExecRef; the claim of settleDue).
ClearingMatchesExecutions ==
  LET moved(s) == SumFunction([l \in {k \in Lines : k \in Standing(k.order) /\ side[k.order] = s}
                                 |-> l.amount])
  IN balance["clearing"] = moved("BUY") - moved("SELL")

\* A BUY spends and frees its own reserve and nothing of the user's other orders:
\* while it is live, what its executions have not consumed is still reserved
\* (reserveCash, postFill, releaseRemaining, reverseFill), handlers not overlapping.
\* An order that an ACK file rejected and then acknowledged is excepted: its reserve
\* is gone and its fills spend that of others.
OrderSpendsItsOwn ==
  ~overlapped => \A o \in BUYs \ revived :
    /\ ReserveLeft(o) >= 0
    /\ o \in Live => ReserveLeft(o) = MaxAmount[o] - consumedReserve(o)

\* The counter of an order is the quantity of its executions that stand, after
\* any sequence of fills and delivery failures (applyFill, failSettlement), and
\* never more than was ordered, handlers not overlapping.
FilledIsExecuted ==
  ~overlapped => \A o \in OrderIds :
    /\ filled[o] = SumFunction([l \in Standing(o) |-> l.qty])
    /\ filled[o] <= Quantity[o]

\* What the executions and the open orders of the SELL side need reserved.
SharesForSale ==
  SumFunction([l \in Unsettled("SELL") |-> l.qty])
  + SumFunction([o \in Live \ BUYs |-> Quantity[o] - filled[o]])

\* Shares are not sold twice: never more is reserved than is held, however handlers
\* overlap; and every share of a SELL stays reserved until its settlement
\* (reserveShares, unreserveShares, settleSellShares), handlers not overlapping and
\* no ACK file having acknowledged a SELL that it had rejected.
SharesStayReserved ==
  /\ position.reserved <= position.quantity
  /\ ~overlapped /\ revived \subseteq BUYs => position.reserved >= SharesForSale

\* "Shares of a SELL stay reserved on the Position until settlement"
\* (order-ledger.service.ts:25): the same of every SELL, when the files are
\* processed one after the other.
SharesReservedUntilSettled == ~overlapped => position.reserved >= SharesForSale

\* "Every transition the services perform is validated here, so the same rules
\* hold whatever the trigger" (order-state.ts:5-7).
TransitionsAreValid ==
  [][\A o \in OrderIds : status[o] \notin {"none", status'[o]}
       => canTransition(status[o], status'[o])]_vars

\* "RELEASE ... once final" (order-ledger.service.ts:21): an order that nothing
\* will touch again holds no cash, even when handlers never overlap.
FinalHoldsNoReserve ==
  ~overlapped => \A o \in BUYs : status[o] \in FINAL_STATUSES => ReserveLeft(o) = 0
=============================================================================
