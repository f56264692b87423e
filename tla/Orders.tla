------------------------------- MODULE Orders -------------------------------
(***************************************************************************)
(* Real orders of one user on one instrument, from placement to the files  *)
(* exchanged with the SDB: OrdersService and BatchesService, with the cash *)
(* and share reserve of OrderLedgerService.  One action is what runs        *)
(* between two awaits that matter: a transaction that starts with a        *)
(* conditional update of the order is one step (the row lock it takes      *)
(* keeps every other writer of the order out until it commits); the reads  *)
(* done before it are a step of their own.  Executions.tla adds fills and  *)
(* settlement, and the next-state relation.                                *)
(***************************************************************************)
EXTENDS OrderState, FiniteSets, Functions

CONSTANTS
  OrderIds,
  Sides,       \* what the orders may be: a set of OrderIds -> {"BUY", "SELL"}
  Quantity,    \* Order.quantity
  MaxAmount,   \* Order.maxAmount: the estimated total with its fees
  Lines,       \* execution lines: [ref, order, qty, amount]
  Cash,        \* AVAILABLE at the start
  Shares,      \* shares held at the start
  Workers,     \* requests and jobs being served
  MaxStarts    \* bound: handlers started

ASSUME OrderConstants ==
  /\ IsFiniteSet(OrderIds) /\ IsFiniteSet(Lines)
  /\ Sides \subseteq [OrderIds -> {"BUY", "SELL"}]
  /\ Quantity \in [OrderIds -> Nat \ {0}]
  /\ MaxAmount \in [OrderIds -> Nat \ {0}]
  /\ \A l \in Lines : l.order \in OrderIds /\ l.qty \in Nat \ {0} /\ l.amount \in Nat \ {0}
  /\ \A l, m \in Lines : l.ref = m.ref => l = m
  /\ Cash \in Nat /\ Shares \in Nat /\ MaxStarts \in Nat

VARIABLES
  side, status, filled,   \* Order; status is "none" before the row exists
  batchId, batches,       \* the ORD batch of each order, 0 when it has none; how many exist
  executions,             \* Execution.settlementState of each line; "none" before the row exists
  position,               \* Position: quantity, pendingQuantity, reservedQuantity
  journal, balance,       \* the ledger
  h,                      \* each handler: where it is and what it read
  overlapped,             \* two handlers, or a handler and a single-step request, have overlapped
  revived,                \* history: final orders that an ACCEPTED line acknowledged
  starts

orders == <<side, status, filled, batchId, batches, revived>>
ledger == <<journal, balance>>
vars == <<orders, executions, position, ledger, h, overlapped, starts>>

Accounts == {"available", "reserved", "settling", "clearing"}
Book == INSTANCE LedgerClient WITH UserAccounts <- {"available", "reserved", "settling"}

Move(x, from, to) == [a \in Accounts |-> IF a = from THEN -x ELSE IF a = to THEN x ELSE 0]

\* BrokerageKeys.
ReserveKey(o) == <<"reserve", o>>
ReleaseKey(o) == <<"release", o>>
FillKey(l) == <<"fill", l.order, l.ref>>

Idle == [at |-> "idle"]

Init ==
  /\ side \in Sides
  /\ status = [o \in OrderIds |-> "none"]
  /\ filled = [o \in OrderIds |-> 0]
  /\ batchId = [o \in OrderIds |-> 0] /\ batches = 0
  /\ revived = {}
  /\ executions = [l \in Lines |-> "none"]
  /\ position = [quantity |-> Shares, pending |-> 0, reserved |-> 0]
  /\ journal = {}
  /\ balance = [a \in Accounts |-> IF a = "available" THEN Cash ELSE 0]
  /\ h = [w \in Workers |-> Idle]
  /\ overlapped = FALSE
  /\ starts = 0

At(w, label) == h[w].at = label
Busy == \E w \in Workers : h[w] # Idle
Start(w, record) ==
  /\ h[w] = Idle
  /\ h' = [h EXCEPT ![w] = record]
  /\ overlapped' = (overlapped \/ Busy)
  /\ starts < MaxStarts /\ starts' = starts + 1
Finish(w) == h' = [h EXCEPT ![w] = Idle]
Goto(w, label) == h' = [h EXCEPT ![w].at = label]

\* A request that is served in one step.
AtOnce == overlapped' = (overlapped \/ Busy) /\ UNCHANGED <<h, starts>>

\* The ledger accounts whose rows a fill keeps locked from its posting to its commit.
FillAccounts(o) == IF side[o] = "BUY" THEN {"reserved", "clearing"} ELSE {"settling", "clearing"}
Free(A) == \A v \in Workers : At(v, "write") => FillAccounts(h[v].line.order) \cap A = {}

-----------------------------------------------------------------------------
(* The reserve                                                             *)

Floor(n) == IF n > 0 THEN n ELSE 0
LinesOf(o) == {l \in Lines : l.order = o}
Standing(o) == {l \in LinesOf(o) : executions[l] \in {"UNSETTLED", "SETTLED"}}

\* consumedReserve: what the executions that have not failed took.
consumedReserve(o) == SumFunction([l \in Standing(o) |-> l.amount])

\* Mutant: no floor at zero.
unreserveSharesUnfloored(n) == [position EXCEPT !.reserved = @ - Floor(n)]
\* Nothing is freed when n is not positive.
unreserveShares(n) == [position EXCEPT !.reserved = Floor(@ - Floor(n))]

Release(o, left) == Book!Posting(ReleaseKey(o), Move(left, "reserved", "available"))

\* releaseRemaining of an order read with f shares filled: the rest of the cash
\* of a BUY, the unfilled shares of a SELL.
releaseRemaining(o, f) ==
  \/ /\ side[o] = "BUY" /\ consumedReserve(o) < MaxAmount[o]
     /\ Free({"reserved", "available"})
     /\ Book!PostAll({Release(o, MaxAmount[o] - consumedReserve(o))})
     /\ UNCHANGED position
  \/ /\ side[o] = "BUY" /\ consumedReserve(o) >= MaxAmount[o]
     /\ UNCHANGED <<ledger, position>>
  \/ /\ side[o] = "SELL"
     /\ position' = unreserveShares(Quantity[o] - f)
     /\ UNCHANGED ledger

-----------------------------------------------------------------------------
(* placeOrder and cancel                                                   *)

reserveCash(o) ==
  /\ Free({"reserved", "available"})
  /\ Book!PostAll({Book!Posting(ReserveKey(o), Move(MaxAmount[o], "available", "reserved"))})
  /\ UNCHANGED position

\* One conditional update of the position.
reserveShares(o) ==
  /\ position.quantity - position.reserved >= Quantity[o]
  /\ position' = [position EXCEPT !.reserved = @ + Quantity[o]]
  /\ UNCHANGED ledger

\* The transaction of placeOrder: the row with its reserve.  The policy checks
\* before it read balances that nothing locks; the ledger and the conditional
\* update of the position decide.
PlaceOrder(o) ==
  /\ status[o] = "none"
  /\ \/ side[o] = "BUY" /\ reserveCash(o)
     \/ side[o] = "SELL" /\ reserveShares(o)
  /\ status' = [status EXCEPT ![o] = "PENDING"]
  /\ AtOnce
  /\ UNCHANGED <<side, filled, batchId, batches, revived, executions>>

Cancel(o) ==
  /\ status[o] = "PENDING"
  /\ status' = [status EXCEPT ![o] = "CANCELLED"]
  /\ releaseRemaining(o, filled[o])
  /\ AtOnce
  /\ UNCHANGED <<side, filled, batchId, batches, revived, executions>>

-----------------------------------------------------------------------------
(* buildBatch                                                              *)

\* findMany of the PENDING orders.
ListPending(w) ==
  LET pending == {o \in OrderIds : status[o] = "PENDING"}
  IN /\ pending # {}
     /\ Start(w, [at |-> "classify", on |-> pending])
     /\ UNCHANGED <<orders, executions, position, ledger>>

\* An order whose user has no open broker account is rejected, if still PENDING.
RejectUnattached(w) ==
  /\ At(w, "classify")
  /\ \E o \in h[w].on :
       /\ \/ /\ status[o] = "PENDING"
             /\ status' = [status EXCEPT ![o] = "REJECTED"]
             /\ releaseRemaining(o, 0)
          \/ status[o] # "PENDING" /\ UNCHANGED <<status, ledger, position>>
       /\ h' = [h EXCEPT ![w].on = @ \ {o}]
  /\ UNCHANGED <<side, filled, batchId, batches, revived, executions, overlapped, starts>>

\* nextSequence: the number of batches counted; no lines, no batch.
NextSequence(w) ==
  /\ At(w, "classify")
  /\ h' = [h EXCEPT ![w] = IF h[w].on = {} THEN Idle
                           ELSE [at |-> "batch", on |-> h[w].on, seen |-> batches]]
  /\ UNCHANGED <<orders, executions, position, ledger, overlapped, starts>>

\* The transaction that creates the batch (its fileName is unique) and transmits
\* every line listed, whatever has become of it; then the file is submitted.
WriteBatch(w) ==
  /\ At(w, "batch")
  /\ \/ h[w].seen # batches /\ UNCHANGED <<status, batchId, batches>>
     \/ /\ h[w].seen = batches
        /\ batches' = batches + 1
        /\ batchId' = [o \in OrderIds |-> IF o \in h[w].on THEN batches' ELSE batchId[o]]
        /\ status' = [o \in OrderIds |-> IF o \in h[w].on THEN "TRANSMITTED" ELSE status[o]]
  /\ Finish(w)
  /\ UNCHANGED <<side, filled, revived, executions, position, ledger, overlapped, starts>>

-----------------------------------------------------------------------------
(* processAck: every line of the file is decided on the orders of the batch *)
(* as they were read before the first one                                  *)

\* findMany of the batch's orders; one of another batch is not found.
ReadAck(w, b) ==
  LET NotFound == [status |-> "none", filled |-> 0]
      byId == [o \in OrderIds |-> IF batchId[o] = b
                                  THEN [status |-> status[o], filled |-> filled[o]]
                                  ELSE NotFound]
  IN /\ Start(w, [at |-> "ack", byId |-> byId])
     /\ UNCHANGED <<orders, executions, position, ledger>>

\* An ACCEPTED line of an order read TRANSMITTED: the update tests nothing.
AckAccepted(w) ==
  /\ At(w, "ack")
  /\ \E o \in OrderIds :
       /\ h[w].byId[o].status = "TRANSMITTED"
       /\ status' = [status EXCEPT ![o] = "ACKNOWLEDGED"]
       /\ revived' = IF isFinal(status[o]) THEN revived \cup {o} ELSE revived
  /\ UNCHANGED <<side, filled, batchId, batches, executions, position, ledger, h, overlapped, starts>>

\* A REJECTED line: the update matches nothing when the status is no longer the
\* one that was read.
AckRejected(w) ==
  /\ At(w, "ack")
  /\ \E o \in OrderIds :
       /\ h[w].byId[o].status \in {"TRANSMITTED", "ACKNOWLEDGED"}
       /\ status[o] = h[w].byId[o].status
       /\ status' = [status EXCEPT ![o] = "REJECTED"]
       /\ releaseRemaining(o, h[w].byId[o].filled)
  /\ UNCHANGED <<side, filled, batchId, batches, revived, executions, h, overlapped, starts>>

\* The last line is done; the batch's own state is not modelled.
CloseAck(w) ==
  /\ At(w, "ack")
  /\ Finish(w)
  /\ UNCHANGED <<orders, executions, position, ledger, overlapped, starts>>

-----------------------------------------------------------------------------
(* Expiry and review: read the order, then decide                          *)

\* The order as read, and the status it is to get.
Decide(w, at, o, to) ==
  /\ Start(w, [at |-> at, on |-> o, seen |-> status[o], fill |-> filled[o], to |-> to])
  /\ UNCHANGED <<orders, executions, position, ledger>>

\* expireStale: an open order that outlived its sessions (the calendar is not modelled).
ExpireStale(w, o) == status[o] \in OPEN_AT_SDB /\ Decide(w, "expire", o, "EXPIRED")

\* applyReview of an approved correction that is not an execution.
ApplyReview(w, o) ==
  /\ status[o] # "none"
  /\ \E to \in TRANSITIONS[status[o]] \ {"EXECUTED", "PARTIALLY_EXECUTED"} :
       Decide(w, "review", o, to)

\* Both write it only if it is still the one they read, ...
WriteIfUnchanged(w, released) ==
  LET o == h[w].on
  IN /\ \/ /\ status[o] = h[w].seen
           /\ status' = [status EXCEPT ![o] = h[w].to]
           /\ released
        \/ status[o] # h[w].seen /\ UNCHANGED <<status, ledger, position>>
     /\ Finish(w)
     /\ UNCHANGED <<side, filled, batchId, batches, revived, executions, overlapped, starts>>

\* ... and release what is left of the reserve in the same transaction.
WriteExpiry(w) ==
  /\ At(w, "expire")
  /\ WriteIfUnchanged(w, releaseRemaining(h[w].on, h[w].fill))

\* A correction may leave the order open.
WriteReview(w) ==
  /\ At(w, "review")
  /\ WriteIfUnchanged(w, IF isFinal(h[w].to) THEN releaseRemaining(h[w].on, h[w].fill)
                                             ELSE UNCHANGED <<ledger, position>>)
=============================================================================
