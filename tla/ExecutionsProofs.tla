-------------------------- MODULE ExecutionsProofs --------------------------
(***************************************************************************)
(* What holds of orders, fills and settlements for every set of orders,    *)
(* lines and handlers: the types; that the SDB's account says what the     *)
(* executions that stand moved; that every transaction posts what the      *)
(* ledger promises to journal; that a position never has more shares       *)
(* reserved than held; and, while handlers do not overlap, that the        *)
(* counter of an order is what its executions filled, that an order spends *)
(* its own reserve, unless an ACK file revived it, and that the shares of  *)
(* the live SELLs are reserved, as long as no ACK file revived a SELL.     *)
(***************************************************************************)
EXTENDS Executions, SumLemmas, TLAPS

USE OrderConstants

-----------------------------------------------------------------------------
(* The handlers                                                            *)

\* What processAck reads of an order.
Seen == [status : Statuses \cup {"none"}, filled : Nat]

\* What a handler may be: the set that TypeOK gives.
Handler ==
  {Idle}
    \cup [at : {"classify"}, on : SUBSET OrderIds]
    \cup [at : {"batch"}, on : SUBSET OrderIds, seen : Nat]
    \cup [at : {"ack"}, byId : [OrderIds -> Seen]]
    \cup [at : {"expire", "review"}, on : OrderIds, seen : Statuses, fill : Nat, to : Statuses]
    \cup [at : {"order", "reverse"}, line : Lines]
    \cup [at : {"reserve", "lock"}, line : Lines, fill : Nat]
    \cup [at : {"write"}, line : Lines, fill : Nat, pending : Nat]

\* A label tells which fields the record has, and what they are.
LEMMA HandlerFields ==
  ASSUME NEW x \in Handler
  PROVE  /\ x.at \in {"idle", "classify", "batch", "ack", "expire", "review",
                      "order", "reverse", "reserve", "lock", "write"}
         /\ x.at = "idle" <=> x = Idle
         /\ x.at = "classify" => x.on \in SUBSET OrderIds /\ x = [at |-> "classify", on |-> x.on]
         /\ x.at = "batch" => x.on \in SUBSET OrderIds /\ x.seen \in Nat
         /\ x.at = "ack" => x.byId \in [OrderIds -> Seen]
         /\ x.at \in {"expire", "review"} =>
              x.on \in OrderIds /\ x.seen \in Statuses /\ x.fill \in Nat /\ x.to \in Statuses
         /\ x.at \in {"order", "reverse", "reserve", "lock", "write"} => x.line \in Lines
         /\ x.at \in {"reserve", "lock", "write"} => x.fill \in Nat
         /\ x.at = "reserve" => x = [at |-> "reserve", line |-> x.line, fill |-> x.fill]
         /\ x.at = "write" => x.pending \in Nat
<1>1. CASE x = Idle
  BY <1>1 DEF Idle
<1>2. CASE x \in [at : {"classify"}, on : SUBSET OrderIds]
  BY <1>2 DEF Idle
<1>3. CASE x \in [at : {"batch"}, on : SUBSET OrderIds, seen : Nat]
  BY <1>3 DEF Idle
<1>4. CASE x \in [at : {"ack"}, byId : [OrderIds -> Seen]]
  BY <1>4 DEF Idle
<1>5. CASE x \in [at : {"expire", "review"}, on : OrderIds, seen : Statuses, fill : Nat,
                  to : Statuses]
  BY <1>5 DEF Idle
<1>6. CASE x \in [at : {"order", "reverse"}, line : Lines]
  BY <1>6 DEF Idle
<1>7. CASE x \in [at : {"reserve", "lock"}, line : Lines, fill : Nat]
  BY <1>7 DEF Idle
<1>8. CASE x \in [at : {"write"}, line : Lines, fill : Nat, pending : Nat]
  BY <1>8 DEF Idle
<1> QED
  BY <1>1, <1>2, <1>3, <1>4, <1>5, <1>6, <1>7, <1>8, Zenon DEF Handler

\* The records the steps make are handlers.
LEMMA HandlersMade ==
  /\ Idle \in Handler
  /\ \A S \in SUBSET OrderIds :
       /\ [at |-> "classify", on |-> S] \in Handler
       /\ \A n \in Nat : [at |-> "batch", on |-> S, seen |-> n] \in Handler
  /\ \A r \in [OrderIds -> Seen] : [at |-> "ack", byId |-> r] \in Handler
  /\ \A a \in {"expire", "review"}, o \in OrderIds, s, t \in Statuses, n \in Nat :
       [at |-> a, on |-> o, seen |-> s, fill |-> n, to |-> t] \in Handler
  /\ \A a \in {"order", "reverse"}, l \in Lines : [at |-> a, line |-> l] \in Handler
  /\ \A a \in {"reserve", "lock"}, l \in Lines, n \in Nat :
       [at |-> a, line |-> l, fill |-> n] \in Handler
  /\ \A l \in Lines, n, m \in Nat :
       [at |-> "write", line |-> l, fill |-> n, pending |-> m] \in Handler
BY DEF Handler

LEMMA TypeOKHandler == TypeOK => h \in [Workers -> Handler]
BY Zenon DEF TypeOK, Handler, Seen

-----------------------------------------------------------------------------
(* What a transaction posts                                                *)

\* The ledger's sums are the sums of the lemmas.
LEMMA SameBook == \A f : Book!SumFunction(f) = SumFunction(f)
BY Zenon DEF Book!SumFunctionOnSet, Book!SumFunction, Book!FoldFunctionOnSet,
   Book!MapThenFoldSet, SumFunctionOnSet, SumFunction, FoldFunctionOnSet, MapThenFoldSet

\* The postings of P that are not in the journal yet, and what they move on a.
Fresh(P) == {p \in P : ~\E r \in journal : r.key = p.key /\ r.rev = p.rev}
Moved(P, a) == SumFunctionOnSet([p \in Fresh(P) |-> p.delta[a]], Fresh(P))

Movement == [Accounts -> Int]

LEMMA SumOnDomain ==
  ASSUME NEW f, NEW S, DOMAIN f = S
  PROVE  SumFunction(f) = SumFunctionOnSet(f, S)
BY DEF SumFunction

\* PostAll appends the fresh postings and moves the balances by what they add up to.
LEMMA PostAllPosts ==
  ASSUME NEW P, Book!PostAll(P)
  PROVE  /\ journal' = journal \cup Fresh(P)
         /\ balance' = [a \in Accounts |-> balance[a] + Moved(P, a)]
<1> DEFINE F == {p \in P : ~\E r \in journal : r.key = p.key /\ r.rev = p.rev}
           M(a) == [p \in F |-> p.delta[a]]
<1>1. /\ journal' = journal \cup F
      /\ balance' = [a \in Accounts |-> balance[a] + Book!SumFunction(M(a))]
  BY Zenon DEF Book!PostAll
<1>2. F = Fresh(P)
  BY Zenon DEF Fresh
<1>3. ASSUME NEW a
      PROVE  Book!SumFunction(M(a)) = Moved(P, a)
  <2>1. SumFunction(M(a)) = SumFunctionOnSet(M(a), F)
    BY SumOnDomain
  <2>2. Book!SumFunction(M(a)) = SumFunction(M(a))
    BY SameBook
  <2> QED
    BY <1>2, <2>1, <2>2, Zenon DEF Moved
<1> QED
  BY <1>1, <1>2, <1>3

LEMMA FreshPart == ASSUME NEW P PROVE Fresh(P) \subseteq P /\ Fresh(P) \cap journal = {}
BY DEF Fresh

LEMMA MovedType ==
  ASSUME NEW P, IsFiniteSet(P), \A p \in P : p.delta \in Movement, NEW a \in Accounts
  PROVE  Moved(P, a) \in Int /\ IsFiniteSet(Fresh(P))
<1> DEFINE F == Fresh(P)
           g == [p \in F |-> p.delta[a]]
<1>1. IsFiniteSet(F)
  BY FreshPart, FS_Subset
<1>2. \A p \in F : g[p] \in Int
  BY FreshPart DEF Movement
<1>3. SumFunctionOnSet(g, F) \in Int
  BY <1>1, <1>2, SumType
<1> QED
  BY <1>1, <1>3 DEF Moved

\* When one posting at most moves a, that is what is moved.
LEMMA MovedByOne ==
  ASSUME NEW P, IsFiniteSet(P), \A p \in P : p.delta \in Movement, NEW a \in Accounts,
         NEW e \in P, \A p \in P : p # e => p.delta[a] = 0
  PROVE  Moved(P, a) = IF e \in Fresh(P) THEN e.delta[a] ELSE 0
<1> DEFINE F == Fresh(P)
           g == [p \in F |-> p.delta[a]]
<1>1. IsFiniteSet(F) /\ F \subseteq P
  BY FreshPart, FS_Subset
<1>2. \A p \in F : g[p] \in Int /\ (p # e => g[p] = 0)
  BY FreshPart DEF Movement
<1>3. CASE e \in F
  <2>1. SumFunctionOnSet(g, F) = g[e] + SumFunctionOnSet(g, F \ {e})
    BY <1>1, <1>2, <1>3, SumRemove
  <2>2. SumFunctionOnSet(g, F \ {e}) = 0
    BY <1>1, <1>2, FS_RemoveElement, SumOfZeros
  <2>3. g[e] = e.delta[a] /\ g[e] \in Int
    BY <1>2, <1>3
  <2> QED
    BY <1>3, <2>1, <2>2, <2>3 DEF Moved
<1>4. CASE e \notin F
  <2>1. SumFunctionOnSet(g, F) = 0
    BY <1>1, <1>2, <1>4, SumOfZeros
  <2> QED
    BY <1>4, <2>1 DEF Moved
<1> QED
  BY <1>3, <1>4

\* When nothing moves a, nothing is moved.
LEMMA MovedByNone ==
  ASSUME NEW P, IsFiniteSet(P), NEW a \in Accounts, \A p \in P : p.delta[a] = 0
  PROVE  Moved(P, a) = 0
<1> DEFINE F == Fresh(P)
           g == [p \in F |-> p.delta[a]]
<1>1. IsFiniteSet(F) /\ \A p \in F : g[p] = 0
  BY FreshPart, FS_Subset
<1>2. SumFunctionOnSet(g, F) = 0
  BY <1>1, SumOfZeros
<1> QED
  BY <1>2 DEF Moved

\* Two fresh postings.
LEMMA MovedByTwo ==
  ASSUME NEW p, NEW q, p # q, p.delta \in Movement, q.delta \in Movement, NEW a \in Accounts,
         p \in Fresh({p, q}), q \in Fresh({p, q})
  PROVE  Moved({p, q}, a) = p.delta[a] + q.delta[a]
<1> DEFINE F == {p, q}
           g == [r \in F |-> r.delta[a]]
<1>1. Fresh({p, q}) = F
  BY FreshPart
<1>2. IsFiniteSet({q}) /\ IsFiniteSet({p, q}) /\ F \ {p} = {q} /\ {q} \ {q} = {}
  <2>1. IsFiniteSet({q})
    BY FS_Singleton
  <2>2. {q} \cup {p} = F
    OBVIOUS
  <2>3. IsFiniteSet(F)
    <3>1. IsFiniteSet({q} \cup {p})
      BY <2>1, FS_AddElement
    <3> QED
      BY <2>2, <3>1, Zenon
  <2>4. F \ {p} = {q}
    OBVIOUS
  <2>5. {q} \ {q} = {}
    OBVIOUS
  <2> QED
    BY <2>1, <2>3, <2>4, <2>5
<1>3. g[p] \in Int /\ g[q] \in Int /\ g[p] = p.delta[a] /\ g[q] = q.delta[a]
  BY DEF Movement
<1>4. SumFunctionOnSet(g, F) = g[p] + SumFunctionOnSet(g, F \ {p})
  <2>1. \A r \in F : g[r] \in Int
    BY <1>3
  <2> QED
    BY <1>2, <2>1, SumRemove
<1>5. SumFunctionOnSet(g, {q}) = g[q] + SumFunctionOnSet(g, {q} \ {q})
  <2>1. \A r \in {q} : g[r] \in Int
    BY <1>3
  <2> QED
    BY <1>2, <2>1, SumRemove
<1>6. SumFunctionOnSet(g, {q} \ {q}) = 0
  BY <1>2, SumOfNothing
<1>7. SumFunctionOnSet(g, F) = p.delta[a] + q.delta[a]
  BY <1>2, <1>3, <1>4, <1>5, <1>6
<1> QED
  BY <1>1, <1>7 DEF Moved

\* The movements are movements, and what they do to each account.
LEMMA MoveFields ==
  ASSUME NEW x \in Int, NEW from \in Accounts, NEW to \in Accounts
  PROVE  /\ Move(x, from, to) \in Movement
         /\ Move(x, from, to)[from] = -x
         /\ from # to => Move(x, from, to)[to] = x
         /\ \A a \in Accounts \ {from, to} : Move(x, from, to)[a] = 0
BY DEF Move, Movement

LEMMA AccountNames ==
  /\ "available" \in Accounts /\ "reserved" \in Accounts
  /\ "settling" \in Accounts /\ "clearing" \in Accounts
BY DEF Accounts

\* The postings, field by field.
LEMMA FillFields ==
  ASSUME NEW l \in Lines
  PROVE  /\ Fill(l).key = FillKey(l) /\ Fill(l).rev = FALSE
         /\ FillKey(l)[1] = "fill" /\ FillKey(l)[2] = l.order
         /\ Fill(l).delta \in Movement
         /\ side[l.order] = "BUY" =>
              /\ Fill(l).delta["reserved"] = -l.amount /\ Fill(l).delta["clearing"] = l.amount
         /\ side[l.order] # "BUY" =>
              /\ Fill(l).delta["reserved"] = 0 /\ Fill(l).delta["clearing"] = -l.amount
<1> DEFINE d == IF side[l.order] = "BUY" THEN Move(l.amount, "reserved", "clearing")
                                         ELSE Move(l.amount, "clearing", "settling")
<1>1. l.amount \in Int
  OBVIOUS
<1>2. Fill(l).key = FillKey(l) /\ Fill(l).rev = FALSE /\ Fill(l).delta = d
  BY DEF Fill, Book!Posting
<1>3. FillKey(l)[1] = "fill" /\ FillKey(l)[2] = l.order
  BY DEF FillKey
<1>4. CASE side[l.order] = "BUY"
  <2>1. d = Move(l.amount, "reserved", "clearing")
    BY <1>4
  <2>2. d \in Movement /\ d["reserved"] = -l.amount /\ d["clearing"] = l.amount
    BY <1>1, <2>1, AccountNames, MoveFields
  <2> HIDE DEF d
  <2> QED
    BY <1>2, <1>3, <1>4, <2>2
<1>5. CASE side[l.order] # "BUY"
  <2>1. d = Move(l.amount, "clearing", "settling")
    BY <1>5
  <2>2. d \in Movement /\ d["reserved"] = 0 /\ d["clearing"] = -l.amount
    BY <1>1, <2>1, AccountNames, MoveFields
  <2> HIDE DEF d
  <2> QED
    BY <1>2, <1>3, <1>5, <2>2
<1> QED
  BY <1>4, <1>5

LEMMA FillKeysDiffer == ASSUME NEW l \in Lines, NEW m \in Lines, FillKey(l) = FillKey(m) PROVE l = m
BY DEF FillKey

FailKey(l) == <<"settlement-fail-release", l.order, l.ref>>
Repayment(l) == Book!Posting(FailKey(l), Move(l.amount, "reserved", "available"))

LEMMA LineKeys ==
  ASSUME NEW l \in Lines, NEW m \in Lines
  PROVE  /\ FillKey(l)[1] = "fill" /\ FillKey(l)[2] = l.order
         /\ FailKey(l)[1] = "settlement-fail-release" /\ FailKey(l)[2] = l.order
         /\ FillKey(l) # FailKey(m)
         /\ FillKey(l) = FillKey(m) => l = m
         /\ FailKey(l) = FailKey(m) => l = m
<1>1. FillKey(l)[1] = "fill" /\ FillKey(l)[2] = l.order
  BY DEF FillKey
<1>2. \A k \in {l, m} : /\ FailKey(k)[1] = "settlement-fail-release"
                       /\ FailKey(k)[2] = k.order /\ FailKey(k)[3] = k.ref
  BY DEF FailKey
<1>3. FillKey(l) # FailKey(m)
  BY <1>1, <1>2
<1>4. FillKey(l) = FillKey(m) => l = m
  BY FillKeysDiffer
<1>5. FailKey(l) = FailKey(m) => l = m
  <2>1. l.ref = m.ref => l = m
    OBVIOUS
  <2> QED
    BY <1>2, <2>1
<1> QED
  BY <1>1, <1>2, <1>3, <1>4, <1>5

LEMMA RepaymentFields ==
  ASSUME NEW l \in Lines
  PROVE  /\ Repayment(l).key = FailKey(l) /\ Repayment(l).rev = FALSE
         /\ FailKey(l)[1] = "settlement-fail-release" /\ FailKey(l)[2] = l.order
         /\ Repayment(l).delta \in Movement
         /\ Repayment(l).delta["reserved"] = -l.amount /\ Repayment(l).delta["clearing"] = 0
BY AccountNames, MoveFields DEF Repayment, Book!Posting, FailKey

LEMMA ReleaseFields ==
  ASSUME NEW o \in OrderIds, NEW n \in Int
  PROVE  /\ Release(o, n).key = ReleaseKey(o) /\ Release(o, n).rev = FALSE
         /\ Release(o, n).key[1] = "release" /\ Release(o, n).key[2] = o
         /\ Release(o, n).delta \in Movement
         /\ Release(o, n).delta["reserved"] = -n /\ Release(o, n).delta["clearing"] = 0
BY AccountNames, MoveFields DEF Release, Book!Posting, ReleaseKey

\* The reserve of an order, and the payment of a SELL.
Reserve(o) == Book!Posting(ReserveKey(o), Move(MaxAmount[o], "available", "reserved"))
Payment(l) == Book!Posting(<<"settlement", l.order, l.ref>>, Move(l.amount, "settling", "available"))

LEMMA ReserveFields ==
  ASSUME NEW o \in OrderIds
  PROVE  /\ Reserve(o).key = ReserveKey(o) /\ Reserve(o).rev = FALSE
         /\ Reserve(o).key[1] = "reserve" /\ Reserve(o).key[2] = o
         /\ Reserve(o).delta \in Movement
         /\ Reserve(o).delta["reserved"] = MaxAmount[o] /\ Reserve(o).delta["clearing"] = 0
BY AccountNames, MoveFields DEF Reserve, Book!Posting, ReserveKey

LEMMA PaymentFields ==
  ASSUME NEW l \in Lines
  PROVE  /\ Payment(l).key = <<"settlement", l.order, l.ref>> /\ Payment(l).rev = FALSE
         /\ Payment(l).key[1] = "settlement" /\ Payment(l).key[2] = l.order
         /\ Payment(l).delta \in Movement
         /\ Payment(l).delta["reserved"] = 0 /\ Payment(l).delta["clearing"] = 0
BY AccountNames, MoveFields DEF Payment, Book!Posting

-----------------------------------------------------------------------------
(* The invariant that holds however handlers overlap                       *)

\* What a journal row says of its order and of its line.
Sound(r) ==
  /\ r.delta \in Movement
  /\ r.key[2] \in OrderIds /\ status[r.key[2]] # "none"
  /\ \A l \in Lines :
       /\ r.key = FillKey(l) /\ ~r.rev => r = Fill(l) /\ executions[l] # "none"
       /\ r.key = FillKey(l) /\ r.rev => executions[l] = "FAILED"
       /\ r.key = FailKey(l) => executions[l] = "FAILED"

JournalInv == IsFiniteSet(journal) /\ \A r \in journal : Sound(r)

\* An execution has its FILL, one that failed its reversal too, and its order has
\* been transmitted.
Traced(l) ==
  /\ executions[l] # "none" => Fill(l) \in journal /\ status[l.order] \notin {"none", "PENDING"}
  /\ executions[l] = "FAILED" => Book!Reversed(FillKey(l))
LineInv == \A l \in Lines : Traced(l)

\* The batches, and the orders revived.
BatchType == batchId \in [OrderIds -> Nat] /\ batches \in Nat /\ revived \subseteq OrderIds

\* The part of TypeOK that is not about the handlers.
StateType ==
  /\ side \in [OrderIds -> {"BUY", "SELL"}]
  /\ side \in Sides
  /\ status \in [OrderIds -> Statuses \cup {"none"}]
  /\ filled \in [OrderIds -> Nat]
  /\ batchId \in [OrderIds -> Nat] /\ batches \in Nat /\ revived \subseteq OrderIds
  /\ executions \in [Lines -> {"none", "UNSETTLED", "SETTLED", "FAILED"}]
  /\ position \in [quantity : Nat, pending : Nat, reserved : Nat]
  /\ balance \in Movement

StateInv == StateType /\ JournalInv /\ LineInv

\* What a handler decided is a decision that its step may take.
Sensible(x) ==
  /\ x.at \in {"expire", "review"} => x.to # "PENDING"
  /\ x.at = "expire" => isFinal(x.to)
  /\ x.at = "reverse" => executions[x.line] # "none"

HandlersInv ==
  /\ h \in [Workers -> Handler]
  /\ overlapped \in BOOLEAN /\ starts \in 0..MaxStarts
  /\ \A w \in Workers : Sensible(h[w])

Base == StateInv /\ HandlersInv

LEMMA BaseTypes == Base => TypeOK
<1>1. h \in [Workers -> Handler] =>
        h \in [Workers -> {Idle}
         \cup [at : {"classify"}, on : SUBSET OrderIds]
         \cup [at : {"batch"}, on : SUBSET OrderIds, seen : Nat]
         \cup [at : {"ack"}, byId : [OrderIds -> [status : Statuses \cup {"none"}, filled : Nat]]]
         \cup [at : {"expire", "review"}, on : OrderIds, seen : Statuses, fill : Nat,
               to : Statuses]
         \cup [at : {"order", "reverse"}, line : Lines]
         \cup [at : {"reserve", "lock"}, line : Lines, fill : Nat]
         \cup [at : {"write"}, line : Lines, fill : Nat, pending : Nat]]
  BY Zenon DEF Handler, Seen
<1> QED
  BY <1>1, Zenon DEF Base, StateInv, StateType, HandlersInv, TypeOK, Movement

LEMMA InitBase == Init => Base
<1> SUFFICES ASSUME Init PROVE Base
  OBVIOUS
<1>1. StateType
  BY DEF Init, StateType, Movement
<1>2. JournalInv /\ LineInv
  BY FS_EmptySet DEF Init, JournalInv, LineInv, Traced
<1>3. HandlersInv
  <2>1. Idle \in Handler /\ Idle.at = "idle"
    BY HandlersMade DEF Idle
  <2>2. Sensible(Idle)
    BY <2>1 DEF Sensible
  <2>3. h \in [Workers -> Handler] /\ \A w \in Workers : h[w] = Idle
    BY <2>1 DEF Init
  <2>4. \A w \in Workers : Sensible(h[w])
    BY <2>2, <2>3, Zenon
  <2>5. overlapped \in BOOLEAN /\ starts \in 0..MaxStarts
    <3>1. starts = 0 /\ overlapped = FALSE
      BY DEF Init
    <3>2. MaxStarts \in Nat
      OBVIOUS
    <3>3. starts \in 0..MaxStarts
      BY ONLY <3>1, <3>2
    <3> QED
      BY <3>1, <3>3, Zenon
  <2> QED
    BY <2>3, <2>4, <2>5, Zenon DEF HandlersInv
<1> QED
  BY <1>1, <1>2, <1>3 DEF Base, StateInv

-----------------------------------------------------------------------------
(* What the steps do to orders, executions, position and ledger            *)

Nothing == UNCHANGED <<orders, executions, position, ledger>>

\* placeOrder.
Places(o) ==
  /\ status[o] = "none"
  /\ \/ side[o] = "BUY" /\ reserveCash(o)
     \/ side[o] = "SELL" /\ reserveShares(o)
  /\ status' = [status EXCEPT ![o] = "PENDING"]
  /\ UNCHANGED <<side, filled, batchId, batches, revived, executions>>

\* A final status, with the release of an order read with f shares filled.
Closes(o, f, to) ==
  /\ isFinal(to)
  /\ releaseRemaining(o, f)
  /\ status' = [status EXCEPT ![o] = to]
  /\ UNCHANGED <<side, filled, batchId, batches, revived, executions>>

\* A status that is not final and releases nothing.
Marks(o, to) ==
  /\ to \in Statuses \ {"PENDING"} /\ ~isFinal(to)
  /\ status' = [status EXCEPT ![o] = to]
  /\ revived' \in {revived, revived \cup {o}}
  /\ UNCHANGED <<side, filled, batchId, batches, executions, position, ledger>>

\* The lines of a batch.
Transmits(S) ==
  /\ batches' = batches + 1
  /\ batchId' = [o \in OrderIds |-> IF o \in S THEN batches' ELSE batchId[o]]
  /\ status' = [o \in OrderIds |-> IF o \in S THEN "TRANSMITTED" ELSE status[o]]
  /\ UNCHANGED <<side, filled, revived, executions, position, ledger>>

\* An execution of an order read with f shares filled, and n pending.
Executes(l, f, n) ==
  LET o == l.order
      now == f + l.qty
      left == MaxAmount[o] - consumedReserve(o) - l.amount
      rest == IF side[o] = "BUY" /\ now = Quantity[o] /\ left > 0 THEN {Release(o, left)} ELSE {}
  IN /\ executions[l] = "none"
     /\ Book!PostAll({Fill(l)} \cup rest)
     /\ executions' = [executions EXCEPT ![l] = "UNSETTLED"]
     /\ position' = SharesAfterFill(o, f, now, n + l.qty)
     /\ filled' = [filled EXCEPT ![o] = now]
     /\ status' = [status EXCEPT ![o] = fillStatus(f, l.qty, Quantity[o])]
     /\ UNCHANGED <<side, batchId, batches, revived>>

\* The settlement of an execution.
Settles(l) ==
  /\ executions[l] = "UNSETTLED"
  /\ executions' = [executions EXCEPT ![l] = "SETTLED"]
  /\ \/ side[l.order] = "BUY" /\ settleBuyShares(l) /\ UNCHANGED ledger
     \/ side[l.order] = "SELL" /\ postSellSettlement(l) /\ settleSellShares(l)
  /\ UNCHANGED orders

\* The failure of a delivery.
Fails(l) ==
  /\ executions[l] # "none"
  /\ reverseFill(l)
  /\ executions' = [executions EXCEPT ![l] = "FAILED"]
  /\ filled' = [filled EXCEPT ![l.order] = Recount(l.order, l)]
  /\ status' = [status EXCEPT ![l.order] = "ADJUSTED"]
  /\ position' = SharesAfterFailure(l)
  /\ UNCHANGED <<side, batchId, batches, revived>>

\* Every step does one of these to the shared state.
Effect ==
  \/ Nothing
  \/ \E o \in OrderIds : Places(o)
  \/ \E o \in OrderIds, f \in Nat, to \in Statuses : Closes(o, f, to)
  \/ \E o \in OrderIds, to \in Statuses : Marks(o, to)
  \/ \E S \in SUBSET OrderIds : Transmits(S)
  \/ \E l \in Lines, f \in Nat, n \in Nat : Executes(l, f, n)
  \/ \E l \in Lines : Settles(l)
  \/ \E l \in Lines : Fails(l)

LEMMA EffectOfWrites ==
  ASSUME Base, NEW w \in Workers, NEW x \in Handler, x = h[w]
  PROVE  /\ WriteBatch(w) => Nothing \/ Transmits(x.on)
         /\ WriteExpiry(w) => Nothing \/ Closes(x.on, x.fill, x.to)
         /\ WriteReview(w) => Nothing \/ Closes(x.on, x.fill, x.to) \/ Marks(x.on, x.to)
         /\ WriteExecution(w) => Executes(x.line, x.fill, x.pending)
         /\ ReverseFill(w) => Fails(x.line)
<1> USE DEF Nothing, orders, ledger
<1>1. WriteBatch(w) => Nothing \/ Transmits(x.on)
  BY DEF WriteBatch, Transmits
<1>3. WriteExpiry(w) => Nothing \/ Closes(x.on, x.fill, x.to)
  BY DEF WriteExpiry, WriteIfUnchanged, Closes, Base, HandlersInv, Sensible, At
<1>4. WriteReview(w) => Nothing \/ Closes(x.on, x.fill, x.to) \/ Marks(x.on, x.to)
  BY HandlerFields
  DEF WriteReview, WriteIfUnchanged, Closes, Marks, Base, HandlersInv, Sensible, At
<1>5. WriteExecution(w) => Executes(x.line, x.fill, x.pending)
  BY DEF WriteExecution, Executes
<1>6. ReverseFill(w) => Fails(x.line)
  BY DEF ReverseFill, Fails, Base, HandlersInv, Sensible, At
<1> QED
  BY <1>1, <1>3, <1>4, <1>5, <1>6

\* The lines of an ACK file: an order that was final is revived.
LEMMA EffectOfAcks ==
  ASSUME Base, NEW w \in Workers, NEW x \in Handler, x = h[w]
  PROVE  /\ AckAccepted(w) => \E o \in OrderIds :
              /\ x.byId[o].status = "TRANSMITTED"
              /\ Marks(o, "ACKNOWLEDGED") /\ (isFinal(status[o]) => o \in revived')
         /\ AckRejected(w) => \E o \in OrderIds :
              /\ status[o] \in {"TRANSMITTED", "ACKNOWLEDGED"} /\ x.byId[o].status = status[o]
              /\ x.byId[o].filled \in Nat
              /\ Closes(o, x.byId[o].filled, "REJECTED")
<1>1. ASSUME AckAccepted(w)
      PROVE  \E o \in OrderIds :
               /\ x.byId[o].status = "TRANSMITTED"
               /\ Marks(o, "ACKNOWLEDGED") /\ (isFinal(status[o]) => o \in revived')
  <2>1. PICK o \in OrderIds :
          /\ x.byId[o].status = "TRANSMITTED"
          /\ status' = [status EXCEPT ![o] = "ACKNOWLEDGED"]
          /\ revived' = IF isFinal(status[o]) THEN revived \cup {o} ELSE revived
    BY <1>1, Zenon DEF AckAccepted
  <2>2. UNCHANGED <<side, filled, batchId, batches, executions, position, ledger>>
    BY <1>1 DEF AckAccepted
  <2>3. "ACKNOWLEDGED" \in Statuses \ {"PENDING"} /\ ~isFinal("ACKNOWLEDGED")
    BY DEF Statuses, OPEN_AT_SDB, isFinal, FINAL_STATUSES
  <2> QED
    BY <2>1, <2>2, <2>3 DEF Marks
<1>2. ASSUME AckRejected(w)
      PROVE  \E o \in OrderIds :
               /\ status[o] \in {"TRANSMITTED", "ACKNOWLEDGED"} /\ x.byId[o].status = status[o]
               /\ x.byId[o].filled \in Nat
               /\ Closes(o, x.byId[o].filled, "REJECTED")
  <2>1. PICK o \in OrderIds :
          /\ x.byId[o].status \in {"TRANSMITTED", "ACKNOWLEDGED"}
          /\ status[o] = x.byId[o].status
          /\ status' = [status EXCEPT ![o] = "REJECTED"]
          /\ releaseRemaining(o, x.byId[o].filled)
    BY <1>2, Zenon DEF AckRejected
  <2>2. UNCHANGED <<side, filled, batchId, batches, revived, executions>>
    BY <1>2 DEF AckRejected
  <2>3. x.byId \in [OrderIds -> Seen]
    BY <1>2, HandlerFields DEF AckRejected, At
  <2>4. x.byId[o].filled \in Nat
    BY <2>3 DEF Seen
  <2> QED
    BY <2>1, <2>2, <2>4 DEF Closes, isFinal, FINAL_STATUSES
<1> QED
  BY <1>1, <1>2

LEMMA EffectOfSteps ==
  ASSUME Base, Next
  PROVE  Effect
<1>1. ASSUME NEW w \in Workers, Request(w) \/ Throw(w)
      PROVE  Nothing
  BY <1>1
  DEF Request, Throw, ListPending, ReadAck, ExpireStale, ApplyReview, Decide,
      ExeLine, ManualExecution, FailSettlement, Nothing
<1>2. ASSUME NEW w \in Workers, Step(w)
      PROVE  Effect
  <2>1. PICK x \in Handler : x = h[w]
    BY DEF Base, HandlersInv
  <2>2. CASE RejectUnattached(w)
    <3>1. x.at = "classify" /\ x.on \in SUBSET OrderIds
      BY <2>1, <2>2, HandlerFields DEF RejectUnattached, At
    <3>2. PICK o \in x.on :
            \/ /\ status' = [status EXCEPT ![o] = "REJECTED"]
               /\ releaseRemaining(o, 0)
            \/ UNCHANGED <<status, ledger, position>>
      BY <2>1, <2>2 DEF RejectUnattached
    <3>3. Nothing \/ Closes(o, 0, "REJECTED")
      BY <2>2, <3>2
      DEF RejectUnattached, Nothing, Closes, isFinal, FINAL_STATUSES, orders, ledger
    <3> QED
      BY <3>1, <3>3 DEF Effect, Statuses, FINAL_STATUSES
  <2>3. CASE NextSequence(w) \/ CloseAck(w) \/ ReadOrder(w) \/ CheckReserve(w) \/ LockAccounts(w)
    BY <2>3 DEF NextSequence, CloseAck, ReadOrder, CheckReserve, LockAccounts, Effect, Nothing
  <2>4. CASE WriteBatch(w)
    <3>1. x.on \in SUBSET OrderIds
      BY <2>1, <2>4, HandlerFields DEF WriteBatch, At
    <3> QED
      BY <2>1, <2>4, <3>1, EffectOfWrites DEF Effect
  <2>5. CASE AckAccepted(w) \/ AckRejected(w)
    <3>1. "ACKNOWLEDGED" \in Statuses /\ "REJECTED" \in Statuses
      BY DEF Statuses, OPEN_AT_SDB, FINAL_STATUSES
    <3> QED
      BY <2>1, <2>5, <3>1, EffectOfAcks DEF Effect
  <2>6. CASE WriteExpiry(w) \/ WriteReview(w)
    <3>1. x.on \in OrderIds /\ x.fill \in Nat /\ x.to \in Statuses
      BY <2>1, <2>6, HandlerFields DEF WriteExpiry, WriteReview, At
    <3>2. Nothing \/ Closes(x.on, x.fill, x.to) \/ Marks(x.on, x.to)
      BY <2>1, <2>6, EffectOfWrites
    <3> QED
      BY <3>1, <3>2 DEF Effect
  <2>7. CASE WriteExecution(w)
    <3>1. x.line \in Lines /\ x.fill \in Nat /\ x.pending \in Nat
      BY <2>1, <2>7, HandlerFields DEF WriteExecution, At
    <3> QED
      BY <2>1, <2>7, <3>1, EffectOfWrites DEF Effect
  <2>8. CASE ReverseFill(w)
    <3>1. x.line \in Lines
      BY <2>1, <2>8, HandlerFields DEF ReverseFill, At
    <3> QED
      BY <2>1, <2>8, <3>1, EffectOfWrites DEF Effect
  <2> QED
    BY <1>2, <2>2, <2>3, <2>4, <2>5, <2>6, <2>7, <2>8 DEF Step
<1>3. ASSUME NEW o \in OrderIds, PlaceOrder(o)
      PROVE  Places(o)
  BY <1>3 DEF PlaceOrder, Places
<1>4. ASSUME NEW o \in OrderIds, Cancel(o)
      PROVE  Closes(o, filled[o], "CANCELLED")
  BY <1>4 DEF Cancel, Closes, isFinal, FINAL_STATUSES
<1>5. ASSUME NEW l \in Lines, Settle(l)
      PROVE  Settles(l)
  BY <1>5 DEF Settle, Settles
<1>6. "CANCELLED" \in Statuses /\ \A o \in OrderIds : filled[o] \in Nat
  BY DEF Statuses, FINAL_STATUSES, Base, StateInv, StateType
<1> QED
  BY <1>1, <1>2, <1>3, <1>4, <1>5, <1>6 DEF Next, Effect

-----------------------------------------------------------------------------
(* The effects keep the invariant                                          *)

\* Nothing is forgotten: an order stays, once transmitted it is never pending
\* again, an execution stays and one that failed stays so.
Lasts ==
  /\ side' = side
  /\ \A o \in OrderIds :
       /\ status[o] # "none" => status'[o] # "none"
       /\ status[o] \notin {"none", "PENDING"} => status'[o] \notin {"none", "PENDING"}
  /\ \A l \in Lines :
       /\ executions[l] # "none" => executions'[l] # "none"
       /\ executions[l] = "FAILED" => executions'[l] = "FAILED"

LEMMA SoundLasts ==
  ASSUME Lasts, NEW r, Sound(r)
  PROVE  Sound(r)'
<1>1. \A l \in Lines : Fill(l)' = Fill(l)
  BY DEF Lasts, Fill
<1>2. /\ r.delta \in Movement /\ r.key[2] \in OrderIds /\ status'[r.key[2]] # "none"
  BY DEF Sound, Lasts
<1>3. ASSUME NEW l \in Lines
      PROVE  /\ r.key = FillKey(l) /\ ~r.rev => r = Fill(l)' /\ executions'[l] # "none"
             /\ r.key = FillKey(l) /\ r.rev => executions'[l] = "FAILED"
             /\ r.key = FailKey(l) => executions'[l] = "FAILED"
  BY <1>1 DEF Sound, Lasts
<1> QED
  BY <1>2, <1>3 DEF Sound

\* An effect keeps the invariant when what it posts is sound and the lines whose
\* execution it changes are traced.
LEMMA InvariantLasts ==
  ASSUME StateInv, StateType', Lasts, NEW P, IsFiniteSet(P),
         journal' = journal \cup P, \A p \in P : Sound(p)',
         \A l \in Lines : executions'[l] # executions[l] => Traced(l)'
  PROVE  StateInv'
<1>1. JournalInv'
  <2>1. IsFiniteSet(journal')
    BY FS_Union DEF StateInv, JournalInv
  <2>2. ASSUME NEW r \in journal'
        PROVE  Sound(r)'
    <3>1. CASE r \in P
      BY <3>1
    <3>2. CASE r \in journal
      BY <3>2, SoundLasts DEF StateInv, JournalInv
    <3> QED
      BY <3>1, <3>2
  <2> QED
    BY <2>1, <2>2 DEF JournalInv
<1>2. ASSUME NEW l \in Lines
      PROVE  Traced(l)'
  <2>1. CASE executions'[l] = executions[l]
    <3>1. Fill(l)' = Fill(l)
      BY DEF Lasts, Fill
    <3>2. Traced(l)
      BY DEF StateInv, LineInv
    <3>3. executions[l] # "none" => Fill(l)' \in journal'
      BY <3>1, <3>2 DEF Traced
    <3>4. executions[l] # "none" => status'[l.order] \notin {"none", "PENDING"}
      BY <3>2 DEF Traced, Lasts
    <3>5. Book!Reversed(FillKey(l)) => Book!Reversed(FillKey(l))'
      BY DEF Book!Reversed
    <3> QED
      BY <2>1, <3>2, <3>3, <3>4, <3>5 DEF Traced
  <2> QED
    BY <2>1
<1> QED
  BY <1>1, <1>2 DEF StateInv, LineInv

\* The balances after a posting.
LEMMA BalanceType ==
  ASSUME balance \in Movement, NEW P, IsFiniteSet(P), \A p \in P : p.delta \in Movement,
         Book!PostAll(P)
  PROVE  balance' \in Movement
<1>1. balance' = [a \in Accounts |-> balance[a] + Moved(P, a)]
  BY PostAllPosts
<1>2. ASSUME NEW a \in Accounts
      PROVE  balance[a] + Moved(P, a) \in Int
  <2>1. Moved(P, a) \in Int
    BY MovedType
  <2>2. balance[a] \in Int
    BY DEF Movement
  <2> QED
    BY <2>1, <2>2
<1> QED
  BY <1>1, <1>2 DEF Movement

\* A transaction whose executions do not change: it posts P, or nothing.
LEMMA PostingKeepsInvariant ==
  ASSUME StateInv, Lasts, executions' = executions, NEW P, IsFiniteSet(P),
         \A p \in P : Sound(p)', Book!PostAll(P),
         status' \in [OrderIds -> Statuses \cup {"none"}], filled' = filled,
         BatchType',
         position' \in [quantity : Nat, pending : Nat, reserved : Nat]
  PROVE  StateInv'
<1>1. \A p \in P : p.delta \in Movement
  BY DEF Sound
<1>2. balance' \in Movement
  BY <1>1, BalanceType DEF StateInv, StateType
<1>3. StateType'
  BY <1>2 DEF StateInv, StateType, BatchType, Lasts
<1>4. journal' = journal \cup Fresh(P) /\ IsFiniteSet(Fresh(P)) /\ Fresh(P) \subseteq P
  BY PostAllPosts, FreshPart, FS_Subset
<1> QED
  BY <1>1, <1>3, <1>4, InvariantLasts

LEMMA StillKeepsInvariant ==
  ASSUME StateInv, Lasts, executions' = executions, UNCHANGED ledger,
         status' \in [OrderIds -> Statuses \cup {"none"}], filled' = filled,
         BatchType',
         position' \in [quantity : Nat, pending : Nat, reserved : Nat]
  PROVE  StateInv'
<1>1. StateType'
  BY DEF StateInv, StateType, BatchType, Lasts, ledger
<1>2. journal' = journal \cup {}
  BY DEF ledger
<1> QED
  BY <1>1, <1>2, InvariantLasts, FS_EmptySet

LEMMA FloorType == \A n \in Int : Floor(n) \in Nat /\ Floor(n) >= n /\ (n >= 0 => Floor(n) = n)
BY DEF Floor

LEMMA PositionTypes ==
  ASSUME StateInv
  PROVE  /\ position.quantity \in Nat /\ position.pending \in Nat /\ position.reserved \in Nat
         /\ \A n \in Int :
              /\ unreserveShares(n) \in [quantity : Nat, pending : Nat, reserved : Nat]
              /\ unreserveShares(n).quantity = position.quantity
              /\ unreserveShares(n).reserved <= position.reserved
              /\ n >= 0 => unreserveShares(n).reserved = Floor(position.reserved - n)
<1>1. position \in [quantity : Nat, pending : Nat, reserved : Nat]
  BY DEF StateInv, StateType
<1>2. ASSUME NEW n \in Int
      PROVE  /\ Floor(position.reserved - Floor(n)) \in Nat
             /\ Floor(position.reserved - Floor(n)) <= position.reserved
             /\ n >= 0 => Floor(n) = n
  BY <1>1, FloorType DEF Floor
<1> QED
  BY <1>1, <1>2 DEF unreserveShares

LEMMA Fills ==
  ASSUME StateInv, NEW o \in OrderIds
  PROVE  /\ LinesOf(o) \subseteq Lines /\ Standing(o) \subseteq LinesOf(o)
         /\ IsFiniteSet(Standing(o))
         /\ consumedReserve(o) \in Nat
<1>1. LinesOf(o) \subseteq Lines /\ Standing(o) \subseteq LinesOf(o)
  BY DEF LinesOf, Standing
<1>2. IsFiniteSet(Standing(o))
  BY <1>1, FS_Subset
<1>3. consumedReserve(o) \in Nat
  <2> DEFINE g == [l \in Standing(o) |-> l.amount]
  <2>1. \A l \in Standing(o) : g[l] \in Nat
    BY <1>1
  <2>2. SumFunctionOnSet(g, Standing(o)) \in Nat
    BY <1>2, <2>1, SumType
  <2> QED
    BY <2>2 DEF consumedReserve, SumFunction
<1> QED
  BY <1>1, <1>2, <1>3

\* No posting of an order that is not a FILL, a reversal or a repayment can be
\* mistaken for one.
LEMMA OtherPostings ==
  ASSUME NEW p, p.delta \in Movement, p.key[2] \in OrderIds, status'[p.key[2]] # "none",
         p.key[1] \notin {"fill", "settlement-fail-release"}
  PROVE  Sound(p)'
<1>1. \A l \in Lines : p.key # FillKey(l) /\ p.key # FailKey(l)
  BY FillFields, RepaymentFields
<1> QED
  BY <1>1 DEF Sound

LEMMA PlacesKeeps ==
  ASSUME StateInv, NEW o \in OrderIds, Places(o)
  PROVE  StateInv' /\ Lasts
<1>1. status' = [status EXCEPT ![o] = "PENDING"] /\ status[o] = "none"
  BY DEF Places
<1>2. status' \in [OrderIds -> Statuses \cup {"none"}] /\ status'[o] = "PENDING"
  BY <1>1 DEF StateInv, StateType, Statuses
<1>3. UNCHANGED <<side, filled, batchId, batches, revived, executions>>
  BY DEF Places
<1>4. Lasts
  BY <1>1, <1>3 DEF Lasts, StateInv, StateType
<1>5. BatchType'
  BY <1>3 DEF StateInv, StateType, BatchType
<1>6. position \in [quantity : Nat, pending : Nat, reserved : Nat]
  BY DEF StateInv, StateType
<1>7. CASE reserveCash(o)
  <2>1. Book!PostAll({Reserve(o)}) /\ UNCHANGED position
    BY <1>7 DEF reserveCash, Reserve
  <2>2. Sound(Reserve(o))'
    BY <1>2, ReserveFields, OtherPostings
  <2> QED
    BY <1>2, <1>3, <1>4, <1>5, <1>6, <2>1, <2>2, FS_Singleton, PostingKeepsInvariant
<1>8. CASE reserveShares(o)
  <2>1. position' = [position EXCEPT !.reserved = @ + Quantity[o]] /\ UNCHANGED ledger
    BY <1>8 DEF reserveShares
  <2>2. position' \in [quantity : Nat, pending : Nat, reserved : Nat]
    BY <1>6, <2>1
  <2> QED
    BY <1>2, <1>3, <1>4, <1>5, <2>1, <2>2, StillKeepsInvariant
<1> QED
  BY <1>7, <1>8 DEF Places

LEMMA ClosesKeeps ==
  ASSUME StateInv, NEW o \in OrderIds, NEW f \in Nat, NEW to \in Statuses, Closes(o, f, to)
  PROVE  StateInv' /\ Lasts
<1>1. status' = [status EXCEPT ![o] = to] /\ to \notin {"none", "PENDING"}
  BY DEF Closes, isFinal, FINAL_STATUSES
<1>2. status' \in [OrderIds -> Statuses \cup {"none"}] /\ status'[o] = to
  BY <1>1 DEF StateInv, StateType
<1>3. UNCHANGED <<side, filled, batchId, batches, revived, executions>>
  BY DEF Closes
<1>4. Lasts
  BY <1>1, <1>3 DEF Lasts, StateInv, StateType
<1>5. BatchType'
  BY <1>3 DEF StateInv, StateType, BatchType
<1>6. position \in [quantity : Nat, pending : Nat, reserved : Nat]
  BY DEF StateInv, StateType
<1>7. PICK n \in Int : n = MaxAmount[o] - consumedReserve(o)
  <2>1. MaxAmount[o] \in Int /\ consumedReserve(o) \in Int
    BY Fills
  <2>2. MaxAmount[o] - consumedReserve(o) \in Int
    BY ONLY <2>1
  <2> QED
    BY <2>2
<1>8. CASE Book!PostAll({Release(o, n)}) /\ UNCHANGED position
  <2>1. Release(o, n).delta \in Movement
    BY ReleaseFields
  <2>2. Release(o, n).key[1] = "release" /\ Release(o, n).key[2] = o
    <3>1. o \in OrderIds /\ n \in Int
      OBVIOUS
    <3> QED
      BY ONLY <3>1, ReleaseFields
  <2>3. Sound(Release(o, n))'
    BY <1>1, <1>2, <2>1, <2>2, OtherPostings
  <2> QED
    BY <1>2, <1>3, <1>4, <1>5, <1>6, <1>8, <2>3, FS_Singleton, PostingKeepsInvariant
<1>9. CASE UNCHANGED <<ledger, position>>
  BY <1>2, <1>3, <1>4, <1>5, <1>6, <1>9, StillKeepsInvariant
<1>10. CASE position' = unreserveShares(Quantity[o] - f) /\ UNCHANGED ledger
  <2>1. position' \in [quantity : Nat, pending : Nat, reserved : Nat]
    BY <1>10, PositionTypes
  <2> QED
    BY <1>2, <1>3, <1>4, <1>5, <1>10, <2>1, StillKeepsInvariant
<1> QED
  BY <1>7, <1>8, <1>9, <1>10 DEF Closes, releaseRemaining

LEMMA MarksKeeps ==
  ASSUME StateInv, NEW o \in OrderIds, NEW to \in Statuses, Marks(o, to)
  PROVE  StateInv' /\ Lasts
<1>1. status' = [status EXCEPT ![o] = to] /\ to \notin {"none", "PENDING"}
  BY DEF Marks, Statuses, FINAL_STATUSES, OPEN_AT_SDB
<1>2. status' \in [OrderIds -> Statuses \cup {"none"}]
  BY <1>1 DEF StateInv, StateType
<1>3. UNCHANGED <<side, filled, batchId, batches, executions, position, ledger>>
  BY DEF Marks
<1>4. Lasts
  BY <1>1, <1>3 DEF Lasts, StateInv, StateType
<1>5. /\ BatchType'
      /\ position' \in [quantity : Nat, pending : Nat, reserved : Nat]
  BY <1>3 DEF Marks, StateInv, StateType, BatchType
<1> QED
  BY <1>2, <1>3, <1>4, <1>5, StillKeepsInvariant

LEMMA TransmitsKeeps ==
  ASSUME StateInv, NEW S \in SUBSET OrderIds, Transmits(S)
  PROVE  StateInv' /\ Lasts
<1>1. status' = [o \in OrderIds |-> IF o \in S THEN "TRANSMITTED" ELSE status[o]]
  BY DEF Transmits
<1>2. status' \in [OrderIds -> Statuses \cup {"none"}]
  BY <1>1 DEF StateInv, StateType, Statuses, OPEN_AT_SDB
<1>3. UNCHANGED <<side, filled, executions, position, ledger>>
  BY DEF Transmits
<1>4. Lasts
  BY <1>1, <1>3 DEF Lasts, StateInv, StateType
<1>5. /\ BatchType'
      /\ position' \in [quantity : Nat, pending : Nat, reserved : Nat]
  BY <1>3 DEF Transmits, StateInv, StateType, BatchType
<1> QED
  BY <1>2, <1>3, <1>4, <1>5, StillKeepsInvariant

\* What a completed BUY gives back with its last FILL.
Remainder(l) == MaxAmount[l.order] - consumedReserve(l.order) - l.amount
Rest(l, f) ==
  IF side[l.order] = "BUY" /\ f + l.qty = Quantity[l.order] /\ Remainder(l) > 0
  THEN {Release(l.order, Remainder(l))} ELSE {}

LEMMA RestIsFinite ==
  ASSUME StateInv, NEW l \in Lines, NEW f \in Nat
  PROVE  /\ Remainder(l) \in Int
         /\ IsFiniteSet(Rest(l, f)) /\ IsFiniteSet({Fill(l)} \cup Rest(l, f))
<1>1. Remainder(l) \in Int
  <2>1. l.order \in OrderIds /\ l.amount \in Int
    OBVIOUS
  <2>2. consumedReserve(l.order) \in Nat /\ MaxAmount[l.order] \in Int
    BY <2>1, Fills
  <2> QED
    BY <2>1, <2>2 DEF Remainder
<1>2. IsFiniteSet(Rest(l, f))
  BY FS_Singleton, FS_EmptySet DEF Rest
<1>3. IsFiniteSet({Fill(l)} \cup Rest(l, f))
  BY <1>2, FS_Singleton, FS_Union
<1> QED
  BY <1>1, <1>2, <1>3

LEMMA RestFields ==
  ASSUME StateInv, NEW l \in Lines, NEW f \in Nat, NEW q \in Rest(l, f)
  PROVE  /\ q.delta \in Movement /\ q.key = ReleaseKey(l.order) /\ q.rev = FALSE
         /\ q.key[1] = "release" /\ q.key[2] = l.order
         /\ q.delta["clearing"] = 0 /\ q.delta["reserved"] = -Remainder(l)
         /\ Rest(l, f) = {q} /\ side[l.order] = "BUY"
<1>1. /\ q = Release(l.order, Remainder(l))
      /\ Rest(l, f) = {q} /\ side[l.order] = "BUY"
  BY DEF Rest
<1>2. PICK u \in OrderIds, n \in Int : u = l.order /\ n = Remainder(l)
  <2>1. l.order \in OrderIds /\ Remainder(l) \in Int
    BY RestIsFinite
  <2> QED
    BY <2>1
<1>3. q = Release(u, n)
  BY <1>1, <1>2
<1>4. /\ Release(u, n).delta \in Movement /\ Release(u, n).key = ReleaseKey(u)
      /\ Release(u, n).rev = FALSE
      /\ Release(u, n).key[1] = "release" /\ Release(u, n).key[2] = u
      /\ Release(u, n).delta["clearing"] = 0 /\ Release(u, n).delta["reserved"] = -n
  <2>1. u \in OrderIds /\ n \in Int
    OBVIOUS
  <2> QED
    BY ONLY <2>1, ReleaseFields
<1> QED
  BY <1>1, <1>2, <1>3, <1>4

\* A line without an execution has no FILL.
LEMMA FillIsFresh ==
  ASSUME StateInv, NEW l \in Lines, executions[l] = "none", NEW P, Fill(l) \in P
  PROVE  Fill(l) \in Fresh(P)
<1>1. ASSUME NEW r \in journal, r.key = Fill(l).key, r.rev = Fill(l).rev
      PROVE  FALSE
  <2>1. r.key = FillKey(l) /\ ~r.rev
    BY <1>1, FillFields
  <2>2. Sound(r)
    BY <1>1 DEF StateInv, JournalInv
  <2> QED
    BY <2>1, <2>2 DEF Sound
<1> QED
  BY <1>1 DEF Fresh

LEMMA ExecutesPosts ==
  ASSUME StateInv, NEW l \in Lines, NEW f \in Nat, NEW n \in Nat, Executes(l, f, n)
  PROVE  /\ Book!PostAll({Fill(l)} \cup Rest(l, f))
         /\ Fill(l) \in Fresh({Fill(l)} \cup Rest(l, f))
<1>1. Book!PostAll({Fill(l)} \cup Rest(l, f))
  BY Zenon DEF Executes, Rest, Remainder
<1>2. executions[l] = "none"
  BY DEF Executes
<1> QED
  BY <1>1, <1>2, FillIsFresh

LEMMA ExecutesKeeps ==
  ASSUME StateInv, NEW l \in Lines, NEW f \in Nat, NEW n \in Nat, Executes(l, f, n)
  PROVE  StateInv' /\ Lasts
<1> DEFINE o == l.order
<1>1. PICK P : P = {Fill(l)} \cup Rest(l, f)
  OBVIOUS
<1>2. PICK p : p = Fill(l)
  OBVIOUS
<1>3. Book!PostAll(P) /\ p \in Fresh(P) /\ p \in P
  BY <1>1, <1>2, ExecutesPosts
<1>4. o \in OrderIds /\ l.qty \in Nat
  OBVIOUS
<1>5. PICK to \in {"EXECUTED", "PARTIALLY_EXECUTED"} : status' = [status EXCEPT ![o] = to]
  BY DEF Executes, fillStatus
<1>6. /\ status' \in [OrderIds -> Statuses \cup {"none"}]
      /\ status'[o] \notin {"none", "PENDING"}
      /\ \A u \in OrderIds : status'[u] # status[u] => status'[u] \notin {"none", "PENDING"}
  BY <1>4, <1>5 DEF StateInv, StateType, Statuses, OPEN_AT_SDB, FINAL_STATUSES
<1>7. executions' = [executions EXCEPT ![l] = "UNSETTLED"] /\ executions[l] = "none"
  BY DEF Executes
<1>8. /\ executions' \in [Lines -> {"none", "UNSETTLED", "SETTLED", "FAILED"}]
      /\ executions'[l] = "UNSETTLED" /\ \A m \in Lines \ {l} : executions'[m] = executions[m]
  BY <1>7 DEF StateInv, StateType
<1>9. UNCHANGED <<side, batchId, batches, revived>>
  BY DEF Executes
<1>10. Lasts
  BY <1>6, <1>7, <1>8, <1>9 DEF Lasts
<1>11. position' \in [quantity : Nat, pending : Nat, reserved : Nat]
  <2>1. position \in [quantity : Nat, pending : Nat, reserved : Nat]
    BY DEF StateInv, StateType
  <2>2. position' = SharesAfterFill(o, f, f + l.qty, n + l.qty)
    BY DEF Executes
  <2>3. Quantity[o] - (f + l.qty) \in Int /\ n + l.qty \in Nat
    BY <1>4
  <2> QED
    BY <2>1, <2>2, <2>3, PositionTypes DEF SharesAfterFill
<1>12. filled' \in [OrderIds -> Nat]
  <2>1. filled' = [filled EXCEPT ![o] = f + l.qty] /\ f + l.qty \in Nat
    BY <1>4 DEF Executes
  <2> QED
    BY <1>4, <2>1 DEF StateInv, StateType
<1>13. ASSUME NEW q \in P
       PROVE  Sound(q)'
  <2>1. CASE q = p
    <3>1. Fill(l)' = p
      BY <1>2, <1>9 DEF Fill
    <3>2. p.delta \in Movement /\ p.key = FillKey(l) /\ p.rev = FALSE /\ p.key[1] = "fill" /\ p.key[2] = o
      BY <1>2, FillFields
    <3>3. \A m \in Lines : p.key # FailKey(m) /\ (p.key = FillKey(m) => m = l)
      BY <3>2, RepaymentFields, FillKeysDiffer
    <3> QED
      BY <1>4, <1>6, <1>8, <2>1, <3>1, <3>2, <3>3 DEF Sound
  <2>2. CASE q \in Rest(l, f)
    <3>0. l \in Lines /\ f \in Nat /\ StateInv /\ q \in Rest(l, f)
      BY <2>2
    <3>1. q.delta \in Movement /\ q.key[1] = "release" /\ q.key[2] = l.order
      BY ONLY <3>0, RestFields, Zenon
    <3> QED
      BY <1>4, <1>6, <3>1, OtherPostings
  <2> QED
    BY <1>1, <1>2, <1>13, <2>1, <2>2
<1>14. IsFiniteSet(P)
  BY <1>1, RestIsFinite
<1>15. journal' = journal \cup Fresh(P) /\ IsFiniteSet(Fresh(P)) /\ Fresh(P) \subseteq P
  BY <1>3, <1>14, PostAllPosts, FreshPart, FS_Subset
<1>16. balance' \in Movement
  <2>1. \A q \in P : q.delta \in Movement
    BY <1>13 DEF Sound
  <2> QED
    BY <1>3, <1>14, <2>1, BalanceType DEF StateInv, StateType
<1>17. StateType'
  BY <1>6, <1>8, <1>9, <1>11, <1>12, <1>16 DEF StateInv, StateType
<1>18. Traced(l)'
  <2>1. Fill(l)' = p
    BY <1>2, <1>9 DEF Fill
  <2>2. p \in journal'
    BY <1>3, <1>15
  <2> QED
    BY <1>6, <1>8, <2>1, <2>2 DEF Traced
<1> QED
  BY <1>8, <1>10, <1>13, <1>15, <1>17, <1>18, InvariantLasts

LEMMA SettlesKeeps ==
  ASSUME StateInv, NEW l \in Lines, Settles(l)
  PROVE  StateInv' /\ Lasts
<1>1. executions' = [executions EXCEPT ![l] = "SETTLED"] /\ executions[l] = "UNSETTLED"
  BY DEF Settles
<1>2. /\ executions' \in [Lines -> {"none", "UNSETTLED", "SETTLED", "FAILED"}]
      /\ executions'[l] = "SETTLED" /\ \A m \in Lines \ {l} : executions'[m] = executions[m]
  BY <1>1 DEF StateInv, StateType
<1>3. UNCHANGED <<side, status, filled, batchId, batches, revived>>
  BY DEF Settles, orders
<1>4. Lasts
  BY <1>1, <1>2, <1>3 DEF Lasts
<1>5. position \in [quantity : Nat, pending : Nat, reserved : Nat] /\ l.qty \in Nat
  BY DEF StateInv, StateType
<1>6. position' \in [quantity : Nat, pending : Nat, reserved : Nat]
  <2>1. /\ Floor(position.pending - l.qty) \in Nat /\ position.quantity + l.qty \in Nat
        /\ Floor(position.reserved - l.qty) \in Nat /\ Floor(position.quantity - l.qty) \in Nat
    BY <1>5, FloorType
  <2> QED
    BY <1>5, <2>1 DEF Settles, settleBuyShares, settleSellShares
<1>7. PICK P : /\ IsFiniteSet(P) /\ journal' = journal \cup P /\ balance' \in Movement
               /\ \A p \in P : Sound(p)'
  <2>1. CASE UNCHANGED ledger
    <3>1. journal' = journal \cup {} /\ balance' \in Movement
      BY <2>1 DEF ledger, StateInv, StateType
    <3> QED
      BY <3>1, FS_EmptySet
  <2>2. CASE postSellSettlement(l)
    <3> DEFINE P == {Payment(l)}
    <3>1. Book!PostAll(P)
      BY <2>2 DEF postSellSettlement, Payment
    <3>2. Payment(l).delta \in Movement
      BY PaymentFields
    <3>3. Payment(l).key[1] = "settlement" /\ Payment(l).key[2] = l.order
      BY PaymentFields
    <3>4. l.order \in OrderIds /\ status'[l.order] # "none"
      <4>1. Traced(l)
        BY DEF StateInv, LineInv
      <4> QED
        BY <1>1, <1>3, <4>1 DEF Traced
    <3>5. Sound(Payment(l))'
      BY <3>2, <3>3, <3>4, OtherPostings
    <3>6. IsFiniteSet(P)
      BY FS_Singleton
    <3>7. balance' \in Movement
      BY <3>1, <3>2, <3>6, BalanceType DEF StateInv, StateType
    <3>8. journal' = journal \cup Fresh(P) /\ IsFiniteSet(Fresh(P)) /\ Fresh(P) \subseteq P
      BY <3>1, <3>6, PostAllPosts, FreshPart, FS_Subset
    <3>9. \A p \in Fresh(P) : Sound(p)'
      <4>1. PICK p : p = Payment(l)
        OBVIOUS
      <4>2. Sound(p)'
        BY <1>3, <3>5, <4>1 DEF Payment
      <4> QED
        BY <3>8, <4>1, <4>2
    <3>10. PICK F : F = Fresh(P)
      OBVIOUS
    <3> QED
      BY <3>7, <3>8, <3>9, <3>10
  <2> QED
    BY <2>1, <2>2 DEF Settles
<1>8. StateType'
  BY <1>2, <1>3, <1>6, <1>7 DEF StateInv, StateType
<1>9. Traced(l)'
  <2>1. Traced(l) /\ Fill(l)' = Fill(l)
    BY <1>3 DEF StateInv, LineInv, Fill
  <2>2. Fill(l)' \in journal'
    BY <1>1, <1>7, <2>1 DEF Traced
  <2>3. status'[l.order] \notin {"none", "PENDING"}
    BY <1>1, <1>3, <2>1 DEF Traced
  <2> QED
    BY <1>2, <2>2, <2>3 DEF Traced
<1> QED
  BY <1>2, <1>4, <1>7, <1>8, <1>9, InvariantLasts

-----------------------------------------------------------------------------
(* The reversal                                                            *)

\* What failSettlement posts: the reversal, and for a BUY the repayment.
Reverse(l) == Book!Reversal(FillKey(l))
Back(l) == IF side[l.order] = "SELL" THEN {} ELSE {Repayment(l)}

LEMMA ReverseFields ==
  ASSUME StateInv, NEW l \in Lines, executions[l] # "none"
  PROVE  /\ Reverse(l).key = FillKey(l) /\ Reverse(l).rev = TRUE
         /\ Reverse(l).key[1] = "fill" /\ Reverse(l).key[2] = l.order
         /\ Reverse(l).delta \in Movement
         /\ \A a \in Accounts : Fill(l).delta[a] \in Int /\ Reverse(l).delta[a] = -Fill(l).delta[a]
<1> DEFINE original == CHOOSE r \in journal : r.key = FillKey(l) /\ ~r.rev
<1>1. Fill(l) \in journal /\ Fill(l).key = FillKey(l) /\ ~Fill(l).rev
  <2>1. Traced(l)
    BY DEF StateInv, LineInv
  <2> QED
    BY <2>1, FillFields DEF Traced
<1>2. original \in journal /\ original.key = FillKey(l) /\ ~original.rev
  BY <1>1, Zenon
<1>3. original = Fill(l)
  <2>1. Sound(original)
    BY <1>2 DEF StateInv, JournalInv
  <2> HIDE DEF original
  <2> QED
    BY <1>2, <2>1 DEF Sound
<1>4. Reverse(l) = [key |-> FillKey(l), rev |-> TRUE,
                    delta |-> [a \in Accounts |-> -original.delta[a]]]
  BY Zenon DEF Reverse, Book!Reversal
<1> HIDE DEF original
<1>5. Reverse(l) = [key |-> FillKey(l), rev |-> TRUE,
                    delta |-> [a \in Accounts |-> -Fill(l).delta[a]]]
  BY <1>3, <1>4
<1>6. \A a \in Accounts : Fill(l).delta[a] \in Int
  BY FillFields DEF Movement
<1>7. Reverse(l).key[1] = "fill" /\ Reverse(l).key[2] = l.order
  <2>1. Reverse(l).key = FillKey(l)
    BY <1>5
  <2> QED
    BY <2>1, LineKeys
<1> QED
  BY <1>5, <1>6, <1>7 DEF Movement

LEMMA FailsPosts ==
  ASSUME StateInv, NEW l \in Lines, Fails(l)
  PROVE  /\ Book!PostAll({Reverse(l)} \cup Back(l))
         /\ IsFiniteSet({Reverse(l)} \cup Back(l))
         /\ {Reverse(l)} \cup Back(l) = Fresh({Reverse(l)} \cup Back(l))
<1>1. Book!PostAll({Reverse(l)} \cup Back(l)) /\ ~Book!Reversed(FillKey(l))
  BY Zenon DEF Fails, reverseFill, Reverse, Back, Repayment, FailKey
<1>2. IsFiniteSet({Reverse(l)} \cup Back(l))
  BY FS_Singleton, FS_EmptySet, FS_Union DEF Back
<1>3. executions[l] # "none" /\ executions[l] # "FAILED"
  BY <1>1 DEF Fails, StateInv, LineInv, Traced
<1>4. ASSUME NEW r \in journal, r.key = Reverse(l).key, r.rev = Reverse(l).rev
      PROVE  FALSE
  <2>1. r.key = FillKey(l) /\ r.rev = TRUE
    BY <1>3, <1>4, ReverseFields
  <2> QED
    BY <1>1, <2>1 DEF Book!Reversed
<1>5. ASSUME NEW r \in journal, r.key = Repayment(l).key
      PROVE  FALSE
  <2>1. r.key = FailKey(l)
    BY <1>5, RepaymentFields
  <2>2. Sound(r)
    BY DEF StateInv, JournalInv
  <2> QED
    BY <1>3, <2>1, <2>2 DEF Sound
<1>6. \A p \in {Reverse(l)} \cup Back(l) : ~\E r \in journal : r.key = p.key /\ r.rev = p.rev
  BY <1>4, <1>5 DEF Back
<1> QED
  BY <1>1, <1>2, <1>6 DEF Fresh

LEMMA FailsKeeps ==
  ASSUME StateInv, NEW l \in Lines, Fails(l)
  PROVE  StateInv' /\ Lasts
<1> DEFINE o == l.order
<1>1. executions' = [executions EXCEPT ![l] = "FAILED"] /\ executions[l] # "none"
  BY DEF Fails
<1>2. /\ executions' \in [Lines -> {"none", "UNSETTLED", "SETTLED", "FAILED"}]
      /\ executions'[l] = "FAILED" /\ \A m \in Lines \ {l} : executions'[m] = executions[m]
  BY <1>1 DEF StateInv, StateType
<1>3. status' = [status EXCEPT ![o] = "ADJUSTED"] /\ o \in OrderIds /\ l.qty \in Nat
  BY DEF Fails
<1>4. /\ status' \in [OrderIds -> Statuses \cup {"none"}] /\ status'[o] = "ADJUSTED"
      /\ \A u \in OrderIds : status'[u] # status[u] => status'[u] = "ADJUSTED"
  BY <1>3 DEF StateInv, StateType, Statuses, FINAL_STATUSES
<1>5. UNCHANGED <<side, batchId, batches, revived>>
  BY DEF Fails
<1>6. Lasts
  BY <1>1, <1>2, <1>4, <1>5 DEF Lasts
<1>7. position' \in [quantity : Nat, pending : Nat, reserved : Nat]
  <2>1. position \in [quantity : Nat, pending : Nat, reserved : Nat]
    BY DEF StateInv, StateType
  <2>2. Floor(position.pending - l.qty) \in Nat
    BY <1>3, <2>1, FloorType
  <2> QED
    BY <1>3, <2>1, <2>2, PositionTypes DEF Fails, SharesAfterFailure
<1>8. filled' \in [OrderIds -> Nat]
  <2> DEFINE K == Standing(o) \ {l}
             g == [m \in K |-> m.qty]
  <2>1. IsFiniteSet(K) /\ K \subseteq Lines
    BY <1>3, Fills, FS_RemoveElement
  <2>2. \A m \in K : g[m] \in Nat
    BY <2>1
  <2>3. SumFunctionOnSet(g, K) \in Nat
    BY <2>1, <2>2, SumType
  <2>4. Recount(o, l) \in Nat
    BY <2>3 DEF Recount, SumFunction
  <2> QED
    BY <1>3, <2>4 DEF Fails, StateInv, StateType
<1>9. PICK P : P = {Reverse(l)} \cup Back(l)
  OBVIOUS
<1>10. Book!PostAll(P) /\ IsFiniteSet(P) /\ P = Fresh(P)
  BY <1>9, FailsPosts
<1>11. PICK p : p = Reverse(l)
  OBVIOUS
<1>12. p \in P /\ p.key = FillKey(l) /\ p.rev = TRUE /\ p.delta \in Movement
       /\ p.key[1] = "fill" /\ p.key[2] = o
  BY <1>1, <1>9, <1>11, ReverseFields
<1>13. ASSUME NEW q \in P
       PROVE  Sound(q)'
  <2>1. CASE q = p
    <3>1. \A m \in Lines : p.key # FailKey(m) /\ (p.key = FillKey(m) => m = l)
      BY <1>12, LineKeys
    <3> QED
      BY <1>2, <1>3, <1>4, <1>12, <2>1, <3>1 DEF Sound
  <2>2. CASE q = Repayment(l)
    <3>1. q.key = FailKey(l) /\ q.key[1] = "settlement-fail-release" /\ q.key[2] = o
          /\ q.delta \in Movement
      BY <2>2, RepaymentFields
    <3>2. \A m \in Lines : q.key # FillKey(m) /\ (q.key = FailKey(m) => m = l)
      BY <3>1, LineKeys
    <3> QED
      BY <1>2, <1>3, <1>4, <3>1, <3>2 DEF Sound
  <2> QED
    BY <1>9, <1>11, <2>1, <2>2 DEF Back
<1>14. journal' = journal \cup P
  BY <1>10, PostAllPosts
<1>15. balance' \in Movement
  <2>1. \A q \in P : q.delta \in Movement
    BY <1>13 DEF Sound
  <2> QED
    BY <1>10, <2>1, BalanceType DEF StateInv, StateType
<1>16. StateType'
  BY <1>2, <1>4, <1>5, <1>7, <1>8, <1>15 DEF StateInv, StateType
<1>17. Traced(l)'
  <2>1. Traced(l) /\ Fill(l)' = Fill(l)
    BY <1>5 DEF StateInv, LineInv, Fill
  <2>2. Fill(l)' \in journal'
    BY <1>1, <1>14, <2>1 DEF Traced
  <2>3. Book!Reversed(FillKey(l))'
    BY <1>12, <1>14 DEF Book!Reversed
  <2> QED
    BY <1>2, <1>4, <2>2, <2>3 DEF Traced
<1> QED
  BY <1>2, <1>6, <1>10, <1>13, <1>14, <1>16, <1>17, InvariantLasts

LEMMA EffectKeeps ==
  ASSUME StateInv, Effect
  PROVE  StateInv' /\ Lasts
<1>1. CASE Nothing
  <2>1. Lasts
    BY <1>1 DEF Nothing, orders, Lasts
  <2>2. UNCHANGED <<side, status, filled, batchId, batches, revived, executions, position, ledger>>
    BY <1>1 DEF Nothing, orders
  <2>3. /\ status' \in [OrderIds -> Statuses \cup {"none"}]
        /\ BatchType'
        /\ position' \in [quantity : Nat, pending : Nat, reserved : Nat]
    BY <2>2 DEF StateInv, StateType, BatchType
  <2> QED
    BY <2>1, <2>2, <2>3, StillKeepsInvariant
<1>2. CASE \E o \in OrderIds : Places(o)
  BY <1>2, PlacesKeeps
<1>3. CASE \E o \in OrderIds, f \in Nat, to \in Statuses : Closes(o, f, to)
  BY <1>3, ClosesKeeps
<1>4. CASE \E o \in OrderIds, to \in Statuses : Marks(o, to)
  BY <1>4, MarksKeeps
<1>5. CASE \E S \in SUBSET OrderIds : Transmits(S)
  BY <1>5, TransmitsKeeps
<1>6. CASE \E l \in Lines, f \in Nat, n \in Nat : Executes(l, f, n)
  BY <1>6, ExecutesKeeps
<1>7. CASE \E l \in Lines : Settles(l)
  BY <1>7, SettlesKeeps
<1>8. CASE \E l \in Lines : Fails(l)
  BY <1>8, FailsKeeps
<1> QED
  BY <1>1, <1>2, <1>3, <1>4, <1>5, <1>6, <1>7, <1>8 DEF Effect

-----------------------------------------------------------------------------
(* The handlers keep theirs                                                *)

LEMMA SensibleLasts ==
  ASSUME Lasts, NEW x \in Handler, Sensible(x)
  PROVE  Sensible(x)'
<1>1. x.at = "reverse" => x.line \in Lines
  BY HandlerFields
<1> QED
  BY <1>1 DEF Lasts, Sensible

\* Only one handler moves, and it moves to what it may be.
LEMMA HandlerMoves ==
  ASSUME HandlersInv, Lasts, NEW w \in Workers, NEW x \in Handler,
         h' = [h EXCEPT ![w] = x], Sensible(x)',
         overlapped' \in BOOLEAN, starts' \in 0..MaxStarts
  PROVE  HandlersInv'
<1>1. h' \in [Workers -> Handler] /\ h'[w] = x /\ \A v \in Workers \ {w} : h'[v] = h[v]
  BY DEF HandlersInv
<1>2. ASSUME NEW v \in Workers
      PROVE  Sensible(h[v])'
  <2>1. PICK y \in Handler : y = h'[v]
    BY <1>1
  <2>2. Sensible(y)'
    <3>1. CASE v = w
      BY <1>1, <2>1, <3>1
    <3>2. CASE v # w
      <4>1. y = h[v] /\ Sensible(h[v])
        BY <1>1, <2>1, <3>2 DEF HandlersInv
      <4>2. Sensible(y)
        BY <4>1
      <4> QED
        BY <4>2, SensibleLasts
    <3> QED
      BY <3>1, <3>2
  <2> QED
    BY <2>1, <2>2 DEF Sensible
<1> QED
  BY <1>1, <1>2 DEF HandlersInv, Sensible

\* A step that leaves the handlers alone.
LEMMA HandlersWait ==
  ASSUME HandlersInv, Lasts, h' = h, starts' = starts, overlapped' \in BOOLEAN
  PROVE  HandlersInv'
<1>1. ASSUME NEW v \in Workers
      PROVE  Sensible(h[v])'
  <2>1. PICK y \in Handler : y = h[v] /\ Sensible(y)
    BY DEF HandlersInv
  <2>2. Sensible(y)'
    BY <2>1, SensibleLasts
  <2> QED
    BY <2>1, <2>2 DEF Sensible
<1> QED
  BY <1>1 DEF HandlersInv, Sensible

LEMMA StartKeeps ==
  ASSUME HandlersInv, Lasts, NEW w \in Workers, NEW x \in Handler, Sensible(x)', Start(w, x)
  PROVE  HandlersInv'
<1>1. starts' \in 0..MaxStarts
  <2>1. starts \in 0..MaxStarts /\ starts' = starts + 1 /\ starts < MaxStarts /\ MaxStarts \in Nat
    BY DEF HandlersInv, Start
  <2> QED
    BY ONLY <2>1
<1>2. overlapped' \in BOOLEAN
  BY Zenon DEF Start
<1>3. h' = [h EXCEPT ![w] = x]
  BY DEF Start
<1> QED
  BY <1>1, <1>2, <1>3, HandlerMoves

LEMMA TransitionTypes == \A s \in Statuses : TRANSITIONS[s] \subseteq Statuses \ {"PENDING"}
BY DEF TRANSITIONS, Statuses, OPEN_AT_SDB, FINAL_STATUSES

\* The decisions are sensible when they are made.
LEMMA DecidesSensibly ==
  ASSUME Base, NEW w \in Workers, NEW a \in {"expire", "review"}, NEW o \in OrderIds,
         NEW to \in Statuses \ {"PENDING"}, status[o] # "none", a # "review" => isFinal(to),
         Decide(w, a, o, to), Lasts
  PROVE  HandlersInv'
<1> DEFINE x == [at |-> a, on |-> o, seen |-> status[o], fill |-> filled[o], to |-> to]
<1>1. status[o] \in Statuses /\ filled[o] \in Nat
  BY DEF Base, StateInv, StateType
<1>2. PICK y : y = x
  OBVIOUS
<1>3. y \in Handler
  BY <1>1, <1>2, HandlersMade
<1>4. Sensible(y)'
  BY <1>2 DEF Sensible
<1>5. Start(w, y)
  BY <1>2 DEF Decide
<1> QED
  BY <1>3, <1>4, <1>5, StartKeeps DEF Base

LEMMA RequestKeepsHandlers ==
  ASSUME Base, Lasts, NEW w \in Workers, Request(w)
  PROVE  HandlersInv'
<1>1. CASE ListPending(w)
  <2>1. PICK S \in SUBSET OrderIds : Start(w, [at |-> "classify", on |-> S])
    BY <1>1 DEF ListPending
  <2>2. [at |-> "classify", on |-> S] \in Handler /\ Sensible([at |-> "classify", on |-> S])'
    BY HandlersMade DEF Sensible
  <2> QED
    BY <2>1, <2>2, StartKeeps DEF Base
<1>2. ASSUME NEW b \in 1..batches, ReadAck(w, b)
      PROVE  HandlersInv'
  <2> DEFINE r == [o \in OrderIds |-> IF batchId[o] = b
                                      THEN [status |-> status[o], filled |-> filled[o]]
                                      ELSE [status |-> "none", filled |-> 0]]
  <2>1. r \in [OrderIds -> Seen]
    BY DEF Base, StateInv, StateType, Seen
  <2>2. Start(w, [at |-> "ack", byId |-> r])
    BY <1>2, Zenon DEF ReadAck
  <2> HIDE DEF r
  <2>3. PICK x : x = [at |-> "ack", byId |-> r]
    OBVIOUS
  <2>4. x \in Handler
    BY <2>1, <2>3, HandlersMade
  <2>5. Sensible(x)'
    BY <2>3 DEF Sensible
  <2>6. Start(w, x)
    BY <2>2, <2>3
  <2> QED
    BY <2>4, <2>5, <2>6, StartKeeps DEF Base
<1>4. ASSUME NEW o \in OrderIds, ExpireStale(w, o)
      PROVE  HandlersInv'
  <2>1. status[o] # "none" /\ Decide(w, "expire", o, "EXPIRED")
    BY <1>4 DEF ExpireStale, OPEN_AT_SDB
  <2>2. "EXPIRED" \in Statuses \ {"PENDING"} /\ isFinal("EXPIRED")
    BY DEF Statuses, isFinal, FINAL_STATUSES
  <2> QED
    BY <2>1, <2>2, DecidesSensibly
<1>5. ASSUME NEW o \in OrderIds, ApplyReview(w, o)
      PROVE  HandlersInv'
  <2>1. status[o] # "none" /\ status[o] \in Statuses
    BY <1>5 DEF ApplyReview, Base, StateInv, StateType
  <2>2. PICK to \in Statuses \ {"PENDING"} : Decide(w, "review", o, to)
    BY <1>5, <2>1, TransitionTypes DEF ApplyReview
  <2> QED
    BY <2>1, <2>2, DecidesSensibly
<1>6. ASSUME NEW l \in Lines, ExeLine(w, l) \/ ManualExecution(w, l)
      PROVE  HandlersInv'
  <2>1. [at |-> "order", line |-> l] \in Handler /\ Sensible([at |-> "order", line |-> l])'
    BY HandlersMade DEF Sensible
  <2> QED
    BY <1>6, <2>1, StartKeeps DEF Base, ExeLine, ManualExecution
<1>7. ASSUME NEW l \in Lines, FailSettlement(w, l)
      PROVE  HandlersInv'
  <2>1. executions'[l] # "none"
    BY <1>7 DEF FailSettlement
  <2>2. [at |-> "reverse", line |-> l] \in Handler /\ Sensible([at |-> "reverse", line |-> l])'
    BY <2>1, HandlersMade DEF Sensible
  <2> QED
    BY <1>7, <2>2, StartKeeps DEF Base, FailSettlement
<1> QED
  BY <1>1, <1>2, <1>4, <1>5, <1>6, <1>7 DEF Request

\* What a step of a handler makes of it.
LEMMA NextHandler ==
  ASSUME Base, NEW w \in Workers, Step(w) \/ Throw(w)
  PROVE  /\ UNCHANGED <<overlapped, starts>>
         /\ \E x \in Handler : /\ h' = [h EXCEPT ![w] = x]
                               /\ x.at \notin {"expire", "review", "reverse"}
<1>1. PICK y \in Handler : y = h[w]
  BY DEF Base, HandlersInv
<1>2. UNCHANGED <<overlapped, starts>>
  BY DEF Step, Throw, RejectUnattached, NextSequence, WriteBatch, AckAccepted, AckRejected,
     CloseAck, WriteExpiry, WriteReview, WriteIfUnchanged, ReadOrder, CheckReserve, LockAccounts,
     WriteExecution, ReverseFill
<1>3. CASE Finish(w)
  <2>1. Idle \in Handler /\ Idle.at \notin {"expire", "review", "reverse"}
    BY HandlersMade DEF Idle
  <2> QED
    BY <1>2, <1>3, <2>1 DEF Finish
<1>4. CASE RejectUnattached(w)
  <2>1. PICK S \in SUBSET OrderIds : y = [at |-> "classify", on |-> S]
    BY <1>1, <1>4, HandlerFields DEF RejectUnattached, At
  <2>2. PICK o : h' = [h EXCEPT ![w].on = @ \ {o}]
    BY <1>4 DEF RejectUnattached
  <2> DEFINE x == [at |-> "classify", on |-> S \ {o}]
  <2>3. x \in Handler /\ x.at = "classify"
    BY <2>1, HandlersMade
  <2>4. [y EXCEPT !.on = @ \ {o}] = x
    <3>1. \A T : [[at |-> "classify", on |-> S] EXCEPT !.on = T] = [at |-> "classify", on |-> T]
      OBVIOUS
    <3>2. y.on = S
      BY <2>1
    <3> QED
      BY <2>1, <3>1, <3>2, Zenon
  <2>5. h' = [h EXCEPT ![w] = x]
    BY <1>1, <2>2, <2>4
  <2> QED
    BY <1>2, <2>3, <2>5
<1>5. CASE NextSequence(w)
  <2>1. y.on \in SUBSET OrderIds /\ batches \in Nat
    BY <1>1, <1>5, HandlerFields DEF NextSequence, At, Base, StateInv, StateType
  <2>2. PICK x : x = IF y.on = {} THEN Idle ELSE [at |-> "batch", on |-> y.on, seen |-> batches]
    OBVIOUS
  <2>3. x \in Handler /\ x.at \notin {"expire", "review", "reverse"}
    BY <2>1, <2>2, HandlersMade DEF Idle
  <2>4. h' = [h EXCEPT ![w] = x]
    BY <1>1, <1>5, <2>2 DEF NextSequence
  <2> QED
    BY <1>2, <2>3, <2>4
<1>6. CASE ReadOrder(w)
  <2>1. y.line \in Lines /\ filled[y.line.order] \in Nat
    BY <1>1, <1>6, HandlerFields DEF ReadOrder, At, Base, StateInv, StateType
  <2>2. PICK x : x = [at |-> "reserve", line |-> y.line, fill |-> filled[y.line.order]]
    OBVIOUS
  <2>3. x \in Handler /\ x.at = "reserve"
    BY <2>1, <2>2, HandlersMade
  <2>4. Finish(w) \/ h' = [h EXCEPT ![w] = x]
    BY <1>1, <1>6, <2>2 DEF ReadOrder
  <2> QED
    BY <1>2, <1>3, <2>3, <2>4
<1>7. CASE CheckReserve(w)
  <2>1. y.line \in Lines /\ y.fill \in Nat /\ y = [at |-> "reserve", line |-> y.line, fill |-> y.fill]
    BY <1>1, <1>7, HandlerFields DEF CheckReserve, At
  <2> DEFINE x == [at |-> "lock", line |-> y.line, fill |-> y.fill]
  <2>2. x \in Handler /\ x.at = "lock"
    BY <2>1, HandlersMade
  <2>3. [y EXCEPT !.at = "lock"] = x
    BY <2>1
  <2>4. Finish(w) \/ h' = [h EXCEPT ![w] = x]
    BY <1>1, <1>7, <2>3 DEF CheckReserve, Goto
  <2> QED
    BY <1>2, <1>3, <2>2, <2>4
<1>8. CASE LockAccounts(w)
  <2>1. y.line \in Lines /\ y.fill \in Nat /\ position.pending \in Nat
    BY <1>1, <1>8, HandlerFields DEF LockAccounts, At, Base, StateInv, StateType
  <2>2. PICK x : x = [at |-> "write", line |-> y.line, fill |-> y.fill, pending |-> position.pending]
    OBVIOUS
  <2>3. x \in Handler /\ x.at = "write"
    BY <2>1, <2>2, HandlersMade
  <2>4. h' = [h EXCEPT ![w] = x]
    BY <1>1, <1>8, <2>2 DEF LockAccounts
  <2> QED
    BY <1>2, <2>3, <2>4
<1>9. CASE \/ WriteBatch(w) \/ CloseAck(w) \/ WriteExpiry(w)
           \/ WriteReview(w) \/ WriteExecution(w) \/ ReverseFill(w) \/ Throw(w)
  BY <1>3, <1>9
  DEF WriteBatch, CloseAck, WriteExpiry, WriteReview, WriteIfUnchanged,
      WriteExecution, ReverseFill, Throw
<1>10. CASE AckAccepted(w) \/ AckRejected(w)
  <2>1. h' = h /\ y.at = "ack"
    BY <1>1, <1>10 DEF AckAccepted, AckRejected, At
  <2>2. h' = [h EXCEPT ![w] = y]
    BY <1>1, <2>1 DEF Base, HandlersInv
  <2> QED
    BY <1>2, <2>1, <2>2
<1> QED
  BY <1>4, <1>5, <1>6, <1>7, <1>8, <1>9, <1>10 DEF Step

LEMMA HandlersKeep ==
  ASSUME Base, Lasts, Next
  PROVE  HandlersInv'
<1>1. ASSUME NEW w \in Workers, Step(w) \/ Throw(w)
      PROVE  HandlersInv'
  <2>1. PICK x \in Handler : /\ h' = [h EXCEPT ![w] = x]
                             /\ x.at \notin {"expire", "review", "reverse"}
    BY <1>1, NextHandler
  <2>2. Sensible(x)'
    BY <2>1 DEF Sensible
  <2>3. overlapped' \in BOOLEAN /\ starts' \in 0..MaxStarts
    BY <1>1, NextHandler DEF Base, HandlersInv
  <2> QED
    BY <2>1, <2>2, <2>3, HandlerMoves DEF Base
<1>2. CASE AtOnce
  <2>1. h' = h /\ starts' = starts /\ overlapped' \in BOOLEAN
    BY <1>2, Zenon DEF AtOnce
  <2> QED
    BY <2>1, HandlersWait DEF Base
<1>3. ASSUME NEW o \in OrderIds, PlaceOrder(o) \/ Cancel(o)
      PROVE  AtOnce
  BY <1>3 DEF PlaceOrder, Cancel
<1>4. ASSUME NEW l \in Lines, Settle(l)
      PROVE  AtOnce
  BY <1>4 DEF Settle
<1> QED
  BY <1>1, <1>2, <1>3, <1>4, RequestKeepsHandlers DEF Next

LEMMA BaseStutters == Base /\ UNCHANGED vars => Base'
<1> SUFFICES ASSUME Base, UNCHANGED vars PROVE Base'
  OBVIOUS
<1>1. Nothing /\ h' = h /\ starts' = starts /\ overlapped' = overlapped
  BY DEF vars, Nothing
<1>2. StateInv' /\ Lasts
  BY <1>1, EffectKeeps DEF Base, Effect
<1>3. HandlersInv'
  BY <1>1, <1>2, HandlersWait DEF Base, HandlersInv
<1> QED
  BY <1>2, <1>3 DEF Base

LEMMA BaseStep == Base /\ [Next]_vars => Base'
<1>1. ASSUME Base, Next
      PROVE  Base'
  <2>1. StateInv' /\ Lasts
    BY <1>1, EffectOfSteps, EffectKeeps DEF Base
  <2>2. HandlersInv'
    BY <1>1, <2>1, HandlersKeep
  <2> QED
    BY <2>1, <2>2 DEF Base
<1> QED
  BY <1>1, BaseStutters

\* However requests and jobs interleave, the rows keep their types: no quantity of
\* the position and no counter of an order is ever negative, and no reversal is
\* posted for a FILL that is not there (Order, Execution, Position, LedgerEntry).
THEOREM TypesHold == Spec => []TypeOK
<1>1. Spec => []Base
  BY InitBase, BaseStep, PTL DEF Spec
<1> QED
  BY <1>1, BaseTypes, PTL

-----------------------------------------------------------------------------
(* The SDB's account                                                       *)

\* The executions of one side that stand, and what they move.
Stand(s) == {l \in Lines : executions[l] \in {"UNSETTLED", "SETTLED"} /\ side[l.order] = s}
Amount == [l \in Lines |-> l.amount]
Amounts(S) == SumFunctionOnSet(Amount, S)
Cleared == balance["clearing"] = Amounts(Stand("BUY")) - Amounts(Stand("SELL"))

LEMMA ClearedIsTheProperty == ClearingMatchesExecutions <=> Cleared
<1>1. ASSUME NEW s
      PROVE  SumFunction([l \in {k \in Lines : k \in Standing(k.order) /\ side[k.order] = s}
                            |-> l.amount]) = Amounts(Stand(s))
  <2> DEFINE K == {k \in Lines : k \in Standing(k.order) /\ side[k.order] = s}
             g == [l \in K |-> l.amount]
  <2>1. K = Stand(s)
    BY DEF Stand, Standing, LinesOf
  <2>2. IsFiniteSet(Stand(s)) /\ Stand(s) \subseteq Lines
    BY FS_Subset DEF Stand
  <2>3. SumFunction(g) = SumFunctionOnSet(g, K)
    BY SumOnDomain
  <2>4. \A l \in Stand(s) : g[l] = Amount[l]
    BY <2>1, <2>2 DEF Amount
  <2> HIDE DEF g, K
  <2>5. SumFunctionOnSet(g, Stand(s)) = Amounts(Stand(s))
    BY <2>2, <2>4, SumSame DEF Amounts
  <2>6. SumFunction(g) = Amounts(Stand(s))
    BY <2>1, <2>3, <2>5
  <2> QED
    BY <2>6 DEF g, K
<1> QED
  BY <1>1 DEF ClearingMatchesExecutions, Cleared

LEMMA StandTypes ==
  ASSUME NEW s
  PROVE  /\ IsFiniteSet(Stand(s)) /\ Stand(s) \subseteq Lines
         /\ \A l \in Lines : Amount[l] = l.amount /\ Amount[l] \in Nat
         /\ Amounts(Stand(s)) \in Nat
<1>1. IsFiniteSet(Stand(s)) /\ Stand(s) \subseteq Lines
  BY FS_Subset DEF Stand
<1>2. \A l \in Lines : Amount[l] = l.amount /\ Amount[l] \in Nat
  BY DEF Amount
<1>3. Amounts(Stand(s)) \in Nat
  BY <1>1, <1>2, SumType DEF Amounts
<1> QED
  BY <1>1, <1>2, <1>3

LEMMA Balances ==
  ASSUME NEW P, Book!PostAll(P), NEW a \in Accounts
  PROVE  balance'[a] = balance[a] + Moved(P, a)
BY PostAllPosts

\* One posting that does not touch the account.
LEMMA PostsOneElsewhere ==
  ASSUME StateInv, NEW p, Book!PostAll({p}), p.delta["clearing"] = 0
  PROVE  balance'["clearing"] = balance["clearing"]
<1>1. balance'["clearing"] = balance["clearing"] + Moved({p}, "clearing")
  BY Balances, AccountNames
<1>2. Moved({p}, "clearing") = 0
  BY FS_Singleton, MovedByNone, AccountNames
<1>3. balance["clearing"] \in Int
  BY AccountNames DEF StateInv, StateType, Movement
<1> QED
  BY <1>1, <1>2, <1>3

\* What does not change which executions stand does not move the account.
LEMMA StillCleared ==
  ASSUME Cleared, balance'["clearing"] = balance["clearing"], side' = side,
         \A l \in Lines : executions'[l] \in {"UNSETTLED", "SETTLED"}
                          <=> executions[l] \in {"UNSETTLED", "SETTLED"}
  PROVE  Cleared'
<1>1. ASSUME NEW s
      PROVE  Stand(s)' = Stand(s)
  BY DEF Stand
<1> QED
  BY <1>1 DEF Cleared, Amounts, Amount

LEMMA ExecutesClears ==
  ASSUME StateInv, Cleared, NEW l \in Lines, NEW f \in Nat, NEW n \in Nat, Executes(l, f, n)
  PROVE  Cleared'
<1>1. /\ executions[l] = "none" /\ executions' = [executions EXCEPT ![l] = "UNSETTLED"]
      /\ side' = side /\ side[l.order] \in {"BUY", "SELL"}
  BY DEF Executes, StateInv, StateType
<1>2. /\ executions'[l] = "UNSETTLED" /\ \A m \in Lines \ {l} : executions'[m] = executions[m]
  BY <1>1 DEF StateInv, StateType
<1>3. ASSUME NEW s
      PROVE  /\ s = side[l.order] => Stand(s)' = Stand(s) \cup {l} /\ l \notin Stand(s)
             /\ s # side[l.order] => Stand(s)' = Stand(s)
  BY <1>1, <1>2 DEF Stand
<1>4. ASSUME NEW s
      PROVE  Amounts(Stand(s)') = Amounts(Stand(s)) + IF s = side[l.order] THEN l.amount ELSE 0
  <2>1. CASE s = side[l.order]
    <3>1. Amounts(Stand(s) \cup {l}) = Amounts(Stand(s)) + Amount[l]
      <4>1. \A x \in Stand(s) \cup {l} : Amount[x] \in Int
        BY StandTypes
      <4> QED
        BY <1>3, <2>1, <4>1, StandTypes, SumAdd DEF Amounts
    <3> QED
      BY <1>3, <2>1, <3>1, StandTypes
  <2>2. CASE s # side[l.order]
    BY <1>3, <2>2, StandTypes
  <2> QED
    BY <2>1, <2>2
<1>5. PICK P : P = {Fill(l)} \cup Rest(l, f)
  OBVIOUS
<1>6. PICK p : p = Fill(l)
  OBVIOUS
<1>7. Book!PostAll(P) /\ p \in Fresh(P) /\ p \in P /\ IsFiniteSet(P)
  BY <1>5, <1>6, ExecutesPosts, RestIsFinite
<1>8. \A q \in P : q.delta \in Movement /\ (q # p => q.delta["clearing"] = 0)
  <2>1. p.delta \in Movement
    BY <1>6, FillFields
  <2>2. ASSUME NEW q \in Rest(l, f)
        PROVE  q.delta \in Movement /\ q.delta["clearing"] = 0
    <3>1. StateInv /\ l \in Lines /\ f \in Nat /\ q \in Rest(l, f)
      OBVIOUS
    <3> QED
      BY ONLY <3>1, RestFields
  <2>3. \A q \in P : q = p \/ q \in Rest(l, f)
    BY <1>5, <1>6
  <2> QED
    BY <2>1, <2>2, <2>3
<1>9. Moved(P, "clearing") = p.delta["clearing"]
  BY <1>7, <1>8, MovedByOne, AccountNames
<1>10. balance'["clearing"] = balance["clearing"] + p.delta["clearing"]
  BY <1>7, <1>9, Balances, AccountNames
<1>11. /\ side[l.order] = "BUY" => p.delta["clearing"] = l.amount
       /\ side[l.order] = "SELL" => p.delta["clearing"] = -l.amount
       /\ l.amount \in Nat
  BY <1>6, FillFields
<1>12. Amounts(Stand("BUY")) \in Nat /\ Amounts(Stand("SELL")) \in Nat
  BY StandTypes
<1>13. balance'["clearing"] = Amounts(Stand("BUY")') - Amounts(Stand("SELL")')
  BY <1>1, <1>4, <1>10, <1>11, <1>12 DEF Cleared
<1> QED
  BY <1>13 DEF Cleared, Amounts, Amount

LEMMA FailsClears ==
  ASSUME StateInv, Cleared, NEW l \in Lines, Fails(l)
  PROVE  Cleared'
<1>1. /\ executions[l] \in {"UNSETTLED", "SETTLED"}
      /\ executions' = [executions EXCEPT ![l] = "FAILED"]
      /\ side' = side /\ side[l.order] \in {"BUY", "SELL"}
  <2>1. executions[l] # "none" /\ ~Book!Reversed(FillKey(l))
    BY DEF Fails, reverseFill
  <2>2. Traced(l)
    BY DEF StateInv, LineInv
  <2> QED
    BY <2>1, <2>2 DEF Traced, Fails, StateInv, StateType
<1>2. /\ executions'[l] = "FAILED" /\ \A m \in Lines \ {l} : executions'[m] = executions[m]
  BY <1>1 DEF StateInv, StateType
<1>3. ASSUME NEW s
      PROVE  /\ s = side[l.order] => Stand(s)' = Stand(s) \ {l} /\ l \in Stand(s)
             /\ s # side[l.order] => Stand(s)' = Stand(s)
  BY <1>1, <1>2 DEF Stand
<1>4. ASSUME NEW s
      PROVE  Amounts(Stand(s)) = Amounts(Stand(s)') + IF s = side[l.order] THEN l.amount ELSE 0
  <2>1. CASE s = side[l.order]
    <3>1. Amounts(Stand(s)) = Amount[l] + Amounts(Stand(s) \ {l})
      <4>1. \A x \in Stand(s) : Amount[x] \in Int
        BY StandTypes
      <4> QED
        BY <1>3, <2>1, <4>1, StandTypes, SumRemove DEF Amounts
    <3>2. Amounts(Stand(s) \ {l}) \in Nat
      <4>1. \A x \in Stand(s) \ {l} : Amount[x] \in Nat
        BY StandTypes
      <4> QED
        BY <4>1, StandTypes, FS_RemoveElement, SumType DEF Amounts
    <3>3. l.amount \in Nat /\ Amount[l] = l.amount
      BY StandTypes
    <3> QED
      BY <1>3, <2>1, <3>1, <3>2, <3>3
  <2>2. CASE s # side[l.order]
    BY <1>3, <2>2, StandTypes
  <2> QED
    BY <2>1, <2>2
<1>5. PICK P : P = {Reverse(l)} \cup Back(l)
  OBVIOUS
<1>6. PICK p : p = Reverse(l)
  OBVIOUS
<1>7. Book!PostAll(P) /\ p \in Fresh(P) /\ p \in P /\ IsFiniteSet(P)
  BY <1>5, <1>6, FailsPosts
<1>8. \A q \in P : q.delta \in Movement /\ (q # p => q.delta["clearing"] = 0)
  BY <1>1, <1>5, <1>6, ReverseFields, RepaymentFields DEF Back
<1>9. Moved(P, "clearing") = p.delta["clearing"]
  BY <1>7, <1>8, MovedByOne, AccountNames
<1>10. balance'["clearing"] = balance["clearing"] + p.delta["clearing"]
  BY <1>7, <1>9, Balances, AccountNames
<1>11. /\ side[l.order] = "BUY" => p.delta["clearing"] = -l.amount
       /\ side[l.order] = "SELL" => p.delta["clearing"] = l.amount
       /\ l.amount \in Nat
  <2>1. p.delta["clearing"] = -Fill(l).delta["clearing"]
    BY <1>1, <1>6, ReverseFields, AccountNames
  <2>2. l.amount \in Nat
    OBVIOUS
  <2>3. /\ side[l.order] = "BUY" => Fill(l).delta["clearing"] = l.amount
        /\ side[l.order] = "SELL" => Fill(l).delta["clearing"] = -l.amount
    BY FillFields
  <2> QED
    BY <2>1, <2>2, <2>3
<1>12. Amounts(Stand("BUY")) \in Nat /\ Amounts(Stand("SELL")) \in Nat
  BY StandTypes
<1>13. Amounts(Stand("BUY")') \in Int /\ Amounts(Stand("SELL")') \in Int
  <2>1. ASSUME NEW s
        PROVE  Amounts(Stand(s)') \in Int
    <3>1. Stand(s)' \subseteq Stand(s)
      BY <1>3
    <3>2. IsFiniteSet(Stand(s)') /\ \A x \in Stand(s)' : Amount[x] \in Int
      BY <3>1, StandTypes, FS_Subset
    <3> QED
      BY <3>2, SumType DEF Amounts
  <2> QED
    BY <2>1
<1>14. balance'["clearing"] = Amounts(Stand("BUY")') - Amounts(Stand("SELL")')
  <2>1. CASE side[l.order] = "BUY"
    <3>1. /\ Amounts(Stand("BUY")) = Amounts(Stand("BUY")') + l.amount
          /\ Amounts(Stand("SELL")) = Amounts(Stand("SELL")') + 0
      BY <1>4, <2>1
    <3> QED
      BY <1>10, <1>11, <1>13, <2>1, <3>1 DEF Cleared
  <2>2. CASE side[l.order] = "SELL"
    <3>1. /\ Amounts(Stand("BUY")) = Amounts(Stand("BUY")') + 0
          /\ Amounts(Stand("SELL")) = Amounts(Stand("SELL")') + l.amount
      BY <1>4, <2>2
    <3> QED
      BY <1>10, <1>11, <1>13, <2>2, <3>1 DEF Cleared
  <2> QED
    BY <1>1, <2>1, <2>2
<1> QED
  BY <1>14 DEF Cleared, Amounts, Amount

\* An order is placed, closed or settled without the SDB's account.
LEMMA EffectClears ==
  ASSUME StateInv, Cleared, Effect
  PROVE  Cleared'
<1>1. CASE balance' = balance /\ executions' = executions /\ side' = side
  BY <1>1, StillCleared
<1>2. CASE Nothing
  BY <1>1, <1>2 DEF Nothing, orders, ledger
<1>3. ASSUME NEW o \in OrderIds, Places(o)
      PROVE  Cleared'
  <2>1. executions' = executions /\ side' = side
    BY <1>3 DEF Places
  <2>2. CASE reserveCash(o)
    <3>1. Book!PostAll({Reserve(o)})
      BY <2>2 DEF reserveCash, Reserve
    <3>2. Reserve(o).delta["clearing"] = 0
      BY ReserveFields
    <3>3. balance'["clearing"] = balance["clearing"]
      BY <3>1, <3>2, PostsOneElsewhere
    <3> QED
      BY <2>1, <3>3, StillCleared
  <2>3. CASE reserveShares(o)
    BY <1>1, <2>1, <2>3 DEF reserveShares, ledger
  <2> QED
    BY <1>3, <2>2, <2>3 DEF Places
<1>4. ASSUME NEW o \in OrderIds, NEW f \in Nat, NEW to \in Statuses, Closes(o, f, to)
      PROVE  Cleared'
  <2>1. executions' = executions /\ side' = side
    BY <1>4 DEF Closes
  <2>2. PICK n \in Int : n = MaxAmount[o] - consumedReserve(o)
    BY Fills
  <2>3. CASE Book!PostAll({Release(o, n)})
    <3>1. Release(o, n).delta["clearing"] = 0
      BY ReleaseFields
    <3>2. balance'["clearing"] = balance["clearing"]
      BY <2>3, <3>1, PostsOneElsewhere
    <3> QED
      BY <2>1, <3>2, StillCleared
  <2>4. CASE UNCHANGED ledger
    BY <1>1, <2>1, <2>4 DEF ledger
  <2> QED
    BY <1>4, <2>2, <2>3, <2>4 DEF Closes, releaseRemaining
<1>5. ASSUME NEW o \in OrderIds, NEW to \in Statuses, Marks(o, to)
      PROVE  Cleared'
  BY <1>1, <1>5 DEF Marks, ledger
<1>6. ASSUME NEW S \in SUBSET OrderIds, Transmits(S)
      PROVE  Cleared'
  BY <1>1, <1>6 DEF Transmits, ledger
<1>7. ASSUME NEW l \in Lines, Settles(l)
      PROVE  Cleared'
  <2>1. /\ side' = side
        /\ \A m \in Lines : executions'[m] \in {"UNSETTLED", "SETTLED"}
                            <=> executions[m] \in {"UNSETTLED", "SETTLED"}
    BY <1>7 DEF Settles, orders, StateInv, StateType
  <2>2. CASE UNCHANGED ledger
    BY <2>1, <2>2, StillCleared DEF ledger
  <2>3. CASE postSellSettlement(l)
    <3>1. Book!PostAll({Payment(l)})
      BY <2>3 DEF postSellSettlement, Payment
    <3>2. Payment(l).delta["clearing"] = 0
      BY PaymentFields
    <3>3. balance'["clearing"] = balance["clearing"]
      BY <3>1, <3>2, PostsOneElsewhere
    <3> QED
      BY <2>1, <3>3, StillCleared
  <2> QED
    BY <1>7, <2>2, <2>3 DEF Settles
<1> QED
  BY <1>2, <1>3, <1>4, <1>5, <1>6, <1>7, ExecutesClears, FailsClears DEF Effect

\* The SDB's account is what the executions that still stand moved, however often
\* a file is imported and however settlements race delivery failures: every fill
\* moves the account once, and every failure takes back what its fill moved
\* (postFill, reverseFill; the unique sdbExecRef; the claim of settleDue).
THEOREM ClearingHolds == Spec => []ClearingMatchesExecutions
<1>1. Init => Cleared
  <2> SUFFICES ASSUME Init PROVE Cleared
    OBVIOUS
  <2>1. balance["clearing"] = 0
    BY AccountNames DEF Init
  <2>2. \A s : Stand(s) = {}
    BY DEF Init, Stand
  <2>3. \A s : Amounts(Stand(s)) = 0
    BY <2>2, SumOfNothing DEF Amounts
  <2> QED
    BY <2>1, <2>3 DEF Cleared
<1>2. Base /\ Cleared /\ [Next]_vars => Cleared'
  <2> SUFFICES ASSUME Base, Cleared, [Next]_vars PROVE Cleared'
    OBVIOUS
  <2>1. CASE Next
    BY <2>1, EffectOfSteps, EffectClears DEF Base
  <2>2. CASE UNCHANGED vars
    BY <2>2, StillCleared DEF vars, orders, ledger
  <2> QED
    BY <2>1, <2>2
<1>3. Spec => []Base
  BY InitBase, BaseStep, PTL DEF Spec
<1>4. Spec => []Cleared
  BY <1>1, <1>2, <1>3, PTL DEF Spec
<1> QED
  BY <1>4, ClearedIsTheProperty, PTL

-----------------------------------------------------------------------------
(* One handler at a time                                                   *)

\* What a handler read is still so.  Of an ACK file only the counters are: its own
\* lines change the statuses.
Current(x) ==
  /\ x.at \in {"classify", "batch"} => \A o \in x.on : status[o] = "PENDING"
  /\ x.at = "ack" => \A o \in OrderIds :
       x.byId[o].status # "none" => status[o] # "none" /\ x.byId[o].filled = filled[o]
  /\ x.at \in {"expire", "review"} =>
       x.on \in Live /\ x.seen = status[x.on] /\ x.fill = filled[x.on]
  /\ x.at \in {"reserve", "lock", "write"} =>
       /\ status[x.line.order] \in OPEN_AT_SDB /\ x.fill = filled[x.line.order]
       /\ x.fill + x.line.qty <= Quantity[x.line.order]
  /\ x.at \in {"lock", "write"} /\ side[x.line.order] = "BUY" =>
       consumedReserve(x.line.order) + x.line.amount <= MaxAmount[x.line.order]
  /\ x.at = "reverse" => executions[x.line] = "UNSETTLED"

Serial ==
  /\ \A v, w \in Workers : h[v] # Idle /\ h[w] # Idle => v = w
  /\ \A w \in Workers : Current(h[w])

\* The effects of handlers that do not overlap.
ClosesWell(o, f, to) ==
  /\ Closes(o, f, to) /\ o \in Live
  /\ f = filled[o] \/ (f = 0 /\ status[o] = "PENDING")
ExecutesWell(l, f, n) ==
  /\ Executes(l, f, n)
  /\ status[l.order] \in OPEN_AT_SDB /\ f = filled[l.order] /\ f + l.qty <= Quantity[l.order]
  /\ side[l.order] = "BUY" => consumedReserve(l.order) + l.amount <= MaxAmount[l.order]

SerialEffect ==
  \/ Nothing
  \/ \E o \in OrderIds : Places(o)
  \/ \E o \in OrderIds, f \in Nat, to \in Statuses : ClosesWell(o, f, to)
  \/ \E o \in OrderIds, to \in Statuses : Marks(o, to) /\ o \in Live \cup revived'
  \/ \E S \in SUBSET OrderIds : Transmits(S) /\ \A o \in S : status[o] = "PENDING"
  \/ \E l \in Lines, f \in Nat, n \in Nat : ExecutesWell(l, f, n)
  \/ \E l \in Lines : Settles(l)
  \/ \E l \in Lines : Fails(l) /\ executions[l] = "UNSETTLED"

LEMMA IdleIsCurrent == Current(Idle)
<1>1. Idle.at = "idle"
  BY DEF Idle
<1> QED
  BY <1>1 DEF Current

LEMMA OpenIsLive ==
  /\ \A s \in OPEN_AT_SDB \cup {"PENDING"} : s # "none" /\ ~isFinal(s) /\ s \in Statuses
  /\ \A s \in OPEN_AT_SDB : s # "PENDING"
BY DEF OPEN_AT_SDB, isFinal, FINAL_STATUSES, Statuses

\* What a handler that starts alone has read is still so.
LEMMA StartsCurrent ==
  ASSUME Base, NEW w \in Workers, NEW x, Start(w, x), ~overlapped', Current(x)'
  PROVE  Serial'
<1>1. \A v \in Workers : h[v] = Idle
  BY DEF Start, Busy
<1>2. h' = [h EXCEPT ![w] = x]
  BY DEF Start
<1>3. h'[w] = x /\ \A v \in Workers \ {w} : h'[v] = Idle
  BY <1>1, <1>2 DEF Base, HandlersInv
<1>4. ASSUME NEW v \in Workers
      PROVE  Current(h[v])'
  <2>1. CASE v = w
    <3>1. h'[v] = x
      BY <1>3, <2>1
    <3> QED
      BY <3>1, Zenon DEF Current
  <2>2. CASE v # w
    <3>1. h'[v] = Idle
      BY <1>3, <2>2
    <3>2. Idle.at = "idle"
      BY DEF Idle
    <3> QED
      BY <3>1, <3>2 DEF Current
  <2> QED
    BY <2>1, <2>2
<1> QED
  BY <1>3, <1>4 DEF Serial

\* A step of the only handler.
LEMMA StepsCurrent ==
  ASSUME Base, Serial, NEW w \in Workers, h[w] # Idle, NEW x, h' = [h EXCEPT ![w] = x],
         Current(x)'
  PROVE  Serial'
<1>1. \A v \in Workers \ {w} : h[v] = Idle
  BY DEF Serial
<1>2. h'[w] = x /\ \A v \in Workers \ {w} : h'[v] = Idle
  BY <1>1 DEF Base, HandlersInv
<1>3. ASSUME NEW v \in Workers
      PROVE  Current(h[v])'
  <2>1. CASE v = w
    <3>1. h'[v] = x
      BY <1>2, <2>1
    <3> QED
      BY <3>1, Zenon DEF Current
  <2>2. CASE v # w
    <3>1. h'[v] = Idle
      BY <1>2, <2>2
    <3>2. Idle.at = "idle"
      BY DEF Idle
    <3> QED
      BY <3>1, <3>2 DEF Current
  <2> QED
    BY <2>1, <2>2
<1> QED
  BY <1>2, <1>3 DEF Serial

LEMMA FinishesCurrent ==
  ASSUME Base, Serial, NEW w \in Workers, h[w] # Idle, Finish(w)
  PROVE  Serial'
<1>1. Current(Idle)'
  <2>1. Idle.at = "idle"
    BY DEF Idle
  <2> QED
    BY <2>1 DEF Current
<1> QED
  BY <1>1, StepsCurrent DEF Finish

\* A request served in one step, when no handler is busy.
LEMMA AtOnceCurrent ==
  ASSUME AtOnce, ~overlapped'
  PROVE  Serial' /\ ~overlapped
<1>1. \A v \in Workers : h'[v] = Idle
  BY DEF AtOnce, Busy
<1>2. ASSUME NEW v \in Workers
      PROVE  Current(h[v])'
  <2>1. h'[v] = Idle /\ Idle.at = "idle"
    BY <1>1 DEF Idle
  <2> QED
    BY <2>1 DEF Current
<1>3. ~overlapped
  BY Zenon DEF AtOnce
<1> QED
  BY <1>1, <1>2, <1>3 DEF Serial

LEMMA DecidesCurrent ==
  ASSUME Base, NEW w \in Workers, NEW a \in {"expire", "review"}, NEW o \in OrderIds,
         NEW to, status[o] # "none", ~isFinal(status[o]), Decide(w, a, o, to), ~overlapped'
  PROVE  Serial'
<1>1. PICK x : x = [at |-> a, on |-> o, seen |-> status[o], fill |-> filled[o], to |-> to]
  OBVIOUS
<1>2. Start(w, x) /\ UNCHANGED <<orders, executions, position, ledger>>
  BY <1>1 DEF Decide
<1>3. x.at = a /\ x.on = o /\ x.seen = status[o] /\ x.fill = filled[o]
  BY <1>1
<1>4. status' = status /\ filled' = filled
  BY <1>2 DEF orders
<1>5. Current(x)'
  BY <1>3, <1>4 DEF Current, Live
<1> QED
  BY <1>2, <1>5, StartsCurrent

LEMMA RequestsCurrent ==
  ASSUME Base, NEW w \in Workers, Request(w), ~overlapped'
  PROVE  Serial'
<1>1. CASE ListPending(w)
  <2>1. PICK S : /\ S = {o \in OrderIds : status[o] = "PENDING"}
                 /\ Start(w, [at |-> "classify", on |-> S]) /\ status' = status
    BY <1>1 DEF ListPending, orders
  <2>2. Current([at |-> "classify", on |-> S])'
    BY <2>1 DEF Current
  <2> QED
    BY <2>1, <2>2, StartsCurrent
<1>2. ASSUME NEW b \in 1..batches, ReadAck(w, b)
      PROVE  Serial'
  <2> DEFINE r == [o \in OrderIds |-> IF batchId[o] = b
                                      THEN [status |-> status[o], filled |-> filled[o]]
                                      ELSE [status |-> "none", filled |-> 0]]
  <2>1. Start(w, [at |-> "ack", byId |-> r])
    BY <1>2, Zenon DEF ReadAck
  <2>2. status' = status /\ filled' = filled
    BY <1>2 DEF ReadAck, orders
  <2>3. \A o \in OrderIds :
          r[o].status # "none" => r[o].status = status[o] /\ r[o].filled = filled[o]
    OBVIOUS
  <2> HIDE DEF r
  <2>4. PICK x : x = [at |-> "ack", byId |-> r]
    OBVIOUS
  <2>5. x.at = "ack" /\ x.byId = r
    BY <2>4
  <2>6. Current(x)'
    BY <2>2, <2>3, <2>5 DEF Current
  <2>7. Start(w, x)
    BY <2>1, <2>4
  <2> QED
    BY <2>6, <2>7, StartsCurrent
<1>3. ASSUME NEW o \in OrderIds, ExpireStale(w, o)
      PROVE  Serial'
  <2>1. status[o] \in OPEN_AT_SDB /\ Decide(w, "expire", o, "EXPIRED")
    BY <1>3 DEF ExpireStale
  <2> QED
    BY <2>1, OpenIsLive, DecidesCurrent
<1>4. ASSUME NEW o \in OrderIds, ApplyReview(w, o)
      PROVE  Serial'
  <2>1. status[o] # "none" /\ status[o] \in Statuses
    BY <1>4 DEF ApplyReview, Base, StateInv, StateType
  <2>2. PICK to \in TRANSITIONS[status[o]] : Decide(w, "review", o, to)
    BY <1>4 DEF ApplyReview
  <2>3. ~isFinal(status[o])
    BY <2>1, <2>2 DEF TRANSITIONS, isFinal, FINAL_STATUSES
  <2> QED
    BY <2>1, <2>2, <2>3, DecidesCurrent
<1>5. ASSUME NEW l \in Lines, ExeLine(w, l) \/ ManualExecution(w, l)
      PROVE  Serial'
  <2>1. Current([at |-> "order", line |-> l])'
    BY DEF Current
  <2> QED
    BY <1>5, <2>1, StartsCurrent DEF ExeLine, ManualExecution
<1>6. ASSUME NEW l \in Lines, FailSettlement(w, l)
      PROVE  Serial'
  <2>1. executions'[l] = "UNSETTLED" /\ Start(w, [at |-> "reverse", line |-> l])
    BY <1>6 DEF FailSettlement
  <2>2. Current([at |-> "reverse", line |-> l])'
    BY <2>1 DEF Current
  <2> QED
    BY <2>1, <2>2, StartsCurrent
<1> QED
  BY <1>1, <1>2, <1>3, <1>4, <1>5, <1>6 DEF Request

LEMMA StepsSerially ==
  ASSUME Base, Serial, NEW w \in Workers, Step(w)
  PROVE  Serial' /\ SerialEffect
<1>1. PICK x \in Handler : x = h[w]
  BY DEF Base, HandlersInv
<1>2. Current(x)
  BY <1>1, Zenon DEF Serial
<1>3. ASSUME x.at # "idle"
      PROVE  h[w] # Idle
  BY <1>1, <1>3 DEF Idle
<1>4. CASE RejectUnattached(w)
  <2>1. PICK S \in SUBSET OrderIds : x = [at |-> "classify", on |-> S]
    BY <1>1, <1>4, HandlerFields DEF RejectUnattached, At
  <2>0. h[w].on = S /\ h[w] = [at |-> "classify", on |-> S]
    BY <1>1, <2>1
  <2>2. PICK o \in S :
          /\ \/ /\ status[o] = "PENDING"
                /\ status' = [status EXCEPT ![o] = "REJECTED"]
                /\ releaseRemaining(o, 0)
             \/ UNCHANGED <<status, ledger, position>>
          /\ h' = [h EXCEPT ![w].on = @ \ {o}]
    BY <1>4, <2>0, Zenon DEF RejectUnattached
  <2>3. UNCHANGED <<side, filled, batchId, batches, revived, executions>>
    BY <1>4 DEF RejectUnattached
  <2> DEFINE y == [at |-> "classify", on |-> S \ {o}]
  <2>4. h' = [h EXCEPT ![w] = y]
    <3>1. \A T : [[at |-> "classify", on |-> S] EXCEPT !.on = T] = [at |-> "classify", on |-> T]
      OBVIOUS
    <3>2. [h[w] EXCEPT !.on = @ \ {o}] = y
      BY <2>0, <3>1, Zenon
    <3> QED
      BY <2>2, <3>2
  <2>5. \A u \in S : status[u] = "PENDING"
    BY <1>2, <2>1 DEF Current
  <2>6. Current(y)'
    <3>1. \A u \in S \ {o} : status'[u] = "PENDING"
      BY <2>2, <2>5 DEF Base, StateInv, StateType
    <3> QED
      BY <3>1 DEF Current
  <2>7. Serial'
    BY <1>3, <2>1, <2>4, <2>6, StepsCurrent
  <2>8. Nothing \/ ClosesWell(o, 0, "REJECTED")
    <3>1. o \in OrderIds /\ status[o] = "PENDING"
      BY <2>2, <2>5
    <3>2. o \in Live
      BY <3>1, OpenIsLive DEF Live
    <3> QED
      BY <2>2, <2>3, <3>1, <3>2
      DEF Nothing, ClosesWell, Closes, isFinal, FINAL_STATUSES, orders, ledger
  <2>9. o \in OrderIds /\ "REJECTED" \in Statuses
    BY <2>2 DEF Statuses, FINAL_STATUSES
  <2> QED
    BY <2>7, <2>8, <2>9 DEF SerialEffect
<1>5. CASE NextSequence(w)
  <2>1. x.at = "classify" /\ Nothing /\ status' = status
    BY <1>1, <1>5 DEF NextSequence, Nothing, At, orders
  <2>2. PICK y : y = IF x.on = {} THEN Idle ELSE [at |-> "batch", on |-> x.on, seen |-> batches]
    OBVIOUS
  <2>3. h' = [h EXCEPT ![w] = y]
    BY <1>1, <1>5, <2>2 DEF NextSequence
  <2>4. Current(y)'
    <3>1. y.at = "idle" \/ (y.at = "batch" /\ y.on = x.on)
      BY <2>2 DEF Idle
    <3>2. \A o \in x.on : status'[o] = "PENDING"
      BY <1>2, <2>1 DEF Current
    <3> QED
      BY <3>1, <3>2 DEF Current
  <2> QED
    BY <1>3, <2>1, <2>3, <2>4, StepsCurrent DEF SerialEffect
<1>6. CASE ReadOrder(w)
  <2>1. /\ x.at = "order" /\ Nothing /\ status' = status /\ filled' = filled /\ side' = side
        /\ x.line \in Lines
    BY <1>1, <1>6, HandlerFields DEF ReadOrder, Nothing, At, orders
  <2>2. CASE Finish(w)
    BY <1>3, <2>1, <2>2, FinishesCurrent DEF SerialEffect
  <2>3. PICK y : y = [at |-> "reserve", line |-> x.line, fill |-> filled[x.line.order]]
    OBVIOUS
  <2>4. CASE /\ h' = [h EXCEPT ![w] = y] /\ status[x.line.order] \in OPEN_AT_SDB
             /\ filled[x.line.order] + x.line.qty <= Quantity[x.line.order]
    <3>1. y.at = "reserve" /\ y.line = x.line /\ y.fill = filled[x.line.order]
      BY <2>3
    <3>2. Current(y)'
      BY <2>1, <2>4, <3>1 DEF Current
    <3> QED
      BY <1>3, <2>1, <2>4, <3>2, StepsCurrent DEF SerialEffect
  <2> QED
    BY <1>1, <1>6, <2>2, <2>3, <2>4 DEF ReadOrder, fillAllowed
<1>7. CASE CheckReserve(w)
  <2>1. /\ x.at = "reserve" /\ Nothing /\ status' = status /\ filled' = filled /\ side' = side
        /\ executions' = executions
        /\ x.line \in Lines /\ x = [at |-> "reserve", line |-> x.line, fill |-> x.fill]
    BY <1>1, <1>7, HandlerFields DEF CheckReserve, Nothing, At, orders
  <2>2. CASE Finish(w)
    BY <1>3, <2>1, <2>2, FinishesCurrent DEF SerialEffect
  <2>3. PICK y : y = [at |-> "lock", line |-> x.line, fill |-> x.fill]
    OBVIOUS
  <2>4. [x EXCEPT !.at = "lock"] = y
    BY <2>1, <2>3
  <2>5. CASE /\ Goto(w, "lock")
             /\ side[x.line.order] = "SELL" \/
                consumedReserve(x.line.order) + x.line.amount <= MaxAmount[x.line.order]
    <3>1. y.at = "lock" /\ y.line = x.line /\ y.fill = x.fill
      BY <2>3
    <3>2. h' = [h EXCEPT ![w] = y]
      BY <1>1, <2>4, <2>5 DEF Goto
    <3>3. \A o : consumedReserve(o)' = consumedReserve(o)
      BY <2>1 DEF consumedReserve, Standing
    <3>4. Current(y)'
      BY <1>2, <2>1, <2>5, <3>1, <3>3 DEF Current
    <3> QED
      BY <1>3, <2>1, <3>2, <3>4, StepsCurrent DEF SerialEffect
  <2> QED
    BY <1>1, <1>7, <2>2, <2>5 DEF CheckReserve
<1>8. CASE LockAccounts(w)
  <2>1. /\ x.at = "lock" /\ Nothing /\ status' = status /\ filled' = filled /\ side' = side
        /\ executions' = executions /\ x.line \in Lines
    BY <1>1, <1>8, HandlerFields DEF LockAccounts, Nothing, At, orders
  <2>2. PICK y : y = [at |-> "write", line |-> x.line, fill |-> x.fill, pending |-> position.pending]
    OBVIOUS
  <2>3. y.at = "write" /\ y.line = x.line /\ y.fill = x.fill
    BY <2>2
  <2>4. h' = [h EXCEPT ![w] = y]
    BY <1>1, <1>8, <2>2 DEF LockAccounts
  <2>5. \A o : consumedReserve(o)' = consumedReserve(o)
    BY <2>1 DEF consumedReserve, Standing
  <2>6. Current(y)'
    BY <1>2, <2>1, <2>3, <2>5 DEF Current
  <2> QED
    BY <1>3, <2>1, <2>4, <2>6, StepsCurrent DEF SerialEffect
<1>9. CASE WriteBatch(w)
  <2>1. x.at = "batch" /\ x.on \in SUBSET OrderIds /\ Finish(w)
    BY <1>1, <1>9, HandlerFields DEF WriteBatch, At
  <2>2. \A o \in x.on : status[o] = "PENDING"
    BY <1>2, <2>1 DEF Current
  <2>3. Nothing \/ Transmits(x.on)
    BY <1>1, <1>9, EffectOfWrites
  <2> QED
    BY <1>3, <2>1, <2>2, <2>3, FinishesCurrent DEF SerialEffect
<1>10. CASE AckAccepted(w) \/ AckRejected(w)
  <2>1. /\ x.at = "ack" /\ x.byId \in [OrderIds -> Seen]
        /\ h' = h /\ filled' = filled
    BY <1>1, <1>10, HandlerFields DEF AckAccepted, AckRejected, At
  <2>2. h' = [h EXCEPT ![w] = x]
    BY <1>1, <2>1 DEF Base, HandlersInv
  <2>3. \A o \in OrderIds :
          x.byId[o].status # "none" => status[o] # "none" /\ x.byId[o].filled = filled[o]
    BY <1>2, <2>1 DEF Current
  <2>4. ASSUME NEW o \in OrderIds, status[o] # "none"
        PROVE  status'[o] # "none"
    <3>1. \E u \in OrderIds, s \in {"ACKNOWLEDGED", "REJECTED"} : status' = [status EXCEPT ![u] = s]
      BY <1>10 DEF AckAccepted, AckRejected
    <3> QED
      BY <2>4, <3>1 DEF Base, StateInv, StateType
  <2>5. Current(x)'
    BY <2>1, <2>3, <2>4 DEF Current
  <2>6. Serial'
    BY <1>3, <2>1, <2>2, <2>5, StepsCurrent
  <2>7. CASE AckAccepted(w)
    <3>1. PICK o \in OrderIds :
            /\ x.byId[o].status = "TRANSMITTED"
            /\ Marks(o, "ACKNOWLEDGED") /\ (isFinal(status[o]) => o \in revived')
      BY <1>1, <2>7, EffectOfAcks
    <3>2. o \in Live \cup revived'
      BY <2>3, <3>1 DEF Live
    <3>3. "ACKNOWLEDGED" \in Statuses
      BY DEF Statuses, OPEN_AT_SDB
    <3> QED
      BY <2>6, <3>1, <3>2, <3>3 DEF SerialEffect
  <2>8. CASE AckRejected(w)
    <3>1. PICK o \in OrderIds :
            /\ status[o] \in {"TRANSMITTED", "ACKNOWLEDGED"}
            /\ x.byId[o].status = status[o]
            /\ x.byId[o].filled \in Nat
            /\ Closes(o, x.byId[o].filled, "REJECTED")
      BY <1>1, <2>8, EffectOfAcks
    <3>2. o \in Live /\ x.byId[o].filled = filled[o]
      BY <2>3, <3>1, OpenIsLive DEF Live, OPEN_AT_SDB
    <3>3. "REJECTED" \in Statuses
      BY DEF Statuses, FINAL_STATUSES
    <3> QED
      BY <2>6, <3>1, <3>2, <3>3 DEF SerialEffect, ClosesWell
  <2> QED
    BY <1>10, <2>7, <2>8
<1>14. CASE CloseAck(w)
  <2>1. x.at = "ack" /\ Finish(w) /\ Nothing
    BY <1>1, <1>14 DEF CloseAck, At, Nothing
  <2> QED
    BY <1>3, <2>1, FinishesCurrent DEF SerialEffect
<1>11. CASE WriteExpiry(w) \/ WriteReview(w)
  <2>1. /\ x.at \in {"expire", "review"} /\ Finish(w)
        /\ x.on \in OrderIds /\ x.fill \in Nat /\ x.to \in Statuses
    BY <1>1, <1>11, HandlerFields
    DEF WriteExpiry, WriteReview, WriteIfUnchanged, At
  <2>2. x.on \in Live /\ x.fill = filled[x.on]
    BY <1>2, <2>1 DEF Current
  <2>3. Nothing \/ Closes(x.on, x.fill, x.to) \/ Marks(x.on, x.to)
    BY <1>1, <1>11, EffectOfWrites
  <2>4. Nothing \/ ClosesWell(x.on, x.fill, x.to) \/ (Marks(x.on, x.to) /\ x.on \in Live)
    BY <2>2, <2>3 DEF ClosesWell
  <2> QED
    BY <1>3, <2>1, <2>4, FinishesCurrent DEF SerialEffect
<1>12. CASE WriteExecution(w)
  <2>1. /\ x.at = "write" /\ Finish(w)
        /\ x.line \in Lines /\ x.fill \in Nat /\ x.pending \in Nat
    BY <1>1, <1>12, HandlerFields DEF WriteExecution, At
  <2>2. Executes(x.line, x.fill, x.pending)
    BY <1>1, <1>12, EffectOfWrites
  <2>3. ExecutesWell(x.line, x.fill, x.pending)
    BY <1>2, <2>1, <2>2 DEF Current, ExecutesWell
  <2> QED
    BY <1>3, <2>1, <2>3, FinishesCurrent DEF SerialEffect
<1>13. CASE ReverseFill(w)
  <2>1. x.at = "reverse" /\ Finish(w) /\ x.line \in Lines
    BY <1>1, <1>13, HandlerFields DEF ReverseFill, At
  <2>2. Fails(x.line) /\ executions[x.line] = "UNSETTLED"
    BY <1>1, <1>2, <1>13, <2>1, EffectOfWrites DEF Current
  <2> QED
    BY <1>3, <2>1, <2>2, FinishesCurrent DEF SerialEffect
<1> QED
  BY <1>4, <1>5, <1>6, <1>7, <1>8, <1>9, <1>10, <1>11, <1>12, <1>13, <1>14 DEF Step

\* As long as handlers have not overlapped, each acts on what it read.
LEMMA NextSerially ==
  ASSUME Base, ~overlapped => Serial, Next, ~overlapped'
  PROVE  Serial' /\ SerialEffect /\ ~overlapped
<1>1. ASSUME NEW w \in Workers, Request(w)
      PROVE  Serial' /\ SerialEffect /\ ~overlapped
  <2>1. ~overlapped
    BY <1>1, Zenon
    DEF Request, ListPending, ReadAck, ExpireStale, ApplyReview, Decide,
        ExeLine, ManualExecution, FailSettlement, Start
  <2>2. Nothing
    BY <1>1
    DEF Request, ListPending, ReadAck, ExpireStale, ApplyReview, Decide,
        ExeLine, ManualExecution, FailSettlement, Nothing
  <2> QED
    BY <1>1, <2>1, <2>2, RequestsCurrent DEF SerialEffect
<1>2. ASSUME NEW w \in Workers, Step(w)
      PROVE  Serial' /\ SerialEffect /\ ~overlapped
  <2>1. overlapped' = overlapped
    BY <1>2, NextHandler
  <2> QED
    BY <1>2, <2>1, StepsSerially
<1>3. ASSUME NEW w \in Workers, Throw(w)
      PROVE  Serial' /\ SerialEffect /\ ~overlapped
  <2>1. /\ h[w] # Idle /\ Finish(w) /\ Nothing /\ overlapped' = overlapped
    BY <1>3 DEF Throw, Nothing
  <2> QED
    BY <2>1, FinishesCurrent DEF SerialEffect
<1>4. ASSUME NEW o \in OrderIds, PlaceOrder(o)
      PROVE  Serial' /\ SerialEffect /\ ~overlapped
  <2>1. AtOnce /\ Places(o)
    BY <1>4 DEF PlaceOrder, Places
  <2> QED
    BY <2>1, AtOnceCurrent DEF SerialEffect
<1>5. ASSUME NEW o \in OrderIds, Cancel(o)
      PROVE  Serial' /\ SerialEffect /\ ~overlapped
  <2>1. AtOnce /\ Closes(o, filled[o], "CANCELLED") /\ status[o] = "PENDING"
    BY <1>5 DEF Cancel, Closes, isFinal, FINAL_STATUSES
  <2>2. o \in Live
    BY <2>1, OpenIsLive DEF Live
  <2>3. ClosesWell(o, filled[o], "CANCELLED")
    BY <2>1, <2>2 DEF ClosesWell
  <2>4. filled[o] \in Nat /\ "CANCELLED" \in Statuses
    BY DEF Base, StateInv, StateType, Statuses, FINAL_STATUSES
  <2> QED
    BY <2>1, <2>3, <2>4, AtOnceCurrent DEF SerialEffect
<1>6. ASSUME NEW l \in Lines, Settle(l)
      PROVE  Serial' /\ SerialEffect /\ ~overlapped
  <2>1. AtOnce /\ Settles(l)
    BY <1>6 DEF Settle, Settles
  <2> QED
    BY <2>1, AtOnceCurrent DEF SerialEffect
<1> QED
  BY <1>1, <1>2, <1>3, <1>4, <1>5, <1>6 DEF Next

-----------------------------------------------------------------------------
(* What the executions of an order add up to                               *)

Qty == [l \in Lines |-> l.qty]
Qtys(S) == SumFunctionOnSet(Qty, S)

LEMMA LineSums ==
  ASSUME NEW S, S \subseteq Lines
  PROVE  /\ IsFiniteSet(S) /\ Amounts(S) \in Nat /\ Qtys(S) \in Nat
         /\ \A l \in Lines : /\ Amount[l] = l.amount /\ Qty[l] = l.qty
                             /\ l.amount \in Nat \ {0} /\ l.qty \in Nat \ {0}
         /\ \A l \in Lines \ S : /\ Amounts(S \cup {l}) = Amounts(S) + l.amount
                                 /\ Qtys(S \cup {l}) = Qtys(S) + l.qty
         /\ \A l \in S : /\ Amounts(S \ {l}) = Amounts(S) - l.amount
                         /\ Qtys(S \ {l}) = Qtys(S) - l.qty
<1>1. IsFiniteSet(S)
  BY FS_Subset
<1>2. \A l \in Lines : /\ Amount[l] = l.amount /\ Qty[l] = l.qty
                       /\ l.amount \in Nat \ {0} /\ l.qty \in Nat \ {0}
  BY DEF Amount, Qty
<1>3. \A T \in SUBSET Lines : Amounts(T) \in Nat /\ Qtys(T) \in Nat
  <2> TAKE T \in SUBSET Lines
  <2>1. IsFiniteSet(T) /\ \A l \in T : Amount[l] \in Nat /\ Qty[l] \in Nat
    BY <1>2, FS_Subset
  <2> QED
    BY <2>1, SumType DEF Amounts, Qtys
<1>4. ASSUME NEW l \in Lines \ S
      PROVE  /\ Amounts(S \cup {l}) = Amounts(S) + l.amount
             /\ Qtys(S \cup {l}) = Qtys(S) + l.qty
  <2>1. \A x \in S \cup {l} : Amount[x] \in Int /\ Qty[x] \in Int
    BY <1>2
  <2>2. Amounts(S \cup {l}) = Amounts(S) + Amount[l]
    BY <1>1, <2>1, SumAdd DEF Amounts
  <2>3. Qtys(S \cup {l}) = Qtys(S) + Qty[l]
    BY <1>1, <2>1, SumAdd DEF Qtys
  <2> QED
    BY <1>2, <2>2, <2>3
<1>5. ASSUME NEW l \in S
      PROVE  /\ Amounts(S \ {l}) = Amounts(S) - l.amount
             /\ Qtys(S \ {l}) = Qtys(S) - l.qty
  <2>1. \A x \in S : Amount[x] \in Int /\ Qty[x] \in Int
    BY <1>2
  <2>2. Amounts(S) = Amount[l] + Amounts(S \ {l})
    BY <1>1, <2>1, SumRemove DEF Amounts
  <2>3. Qtys(S) = Qty[l] + Qtys(S \ {l})
    BY <1>1, <2>1, SumRemove DEF Qtys
  <2>4. S \ {l} \in SUBSET Lines /\ l \in Lines
    OBVIOUS
  <2>5. /\ Amounts(S \ {l}) \in Nat /\ Qtys(S \ {l}) \in Nat
        /\ Amount[l] = l.amount /\ Qty[l] = l.qty /\ l.amount \in Nat /\ l.qty \in Nat
    BY <1>2, <1>3, <2>4
  <2> QED
    BY ONLY <2>2, <2>3, <2>5
<1> QED
  BY <1>1, <1>2, <1>3, <1>4, <1>5

\* The model's sums over the executions of an order that stand.
LEMMA StandingSums ==
  ASSUME NEW o \in OrderIds
  PROVE  /\ Standing(o) \subseteq Lines
         /\ consumedReserve(o) = Amounts(Standing(o))
         /\ SumFunction([l \in Standing(o) |-> l.qty]) = Qtys(Standing(o))
         /\ \A m : Recount(o, m) = Qtys(Standing(o) \ {m})
<1>1. Standing(o) \subseteq Lines
  BY DEF Standing, LinesOf
<1>2. ASSUME NEW S, S \subseteq Lines
      PROVE  /\ SumFunction([l \in S |-> l.amount]) = Amounts(S)
             /\ SumFunction([l \in S |-> l.qty]) = Qtys(S)
  <2> DEFINE f == [l \in S |-> l.amount]
             g == [l \in S |-> l.qty]
  <2>1. IsFiniteSet(S) /\ \A l \in S : f[l] = Amount[l] /\ g[l] = Qty[l]
    BY <1>2, FS_Subset DEF Amount, Qty
  <2>2. SumFunctionOnSet(f, S) = Amounts(S) /\ SumFunctionOnSet(g, S) = Qtys(S)
    BY <2>1, SumSame DEF Amounts, Qtys
  <2>3. DOMAIN f = S /\ DOMAIN g = S
    OBVIOUS
  <2> QED
    BY <2>2, <2>3, SumOnDomain
<1>3. consumedReserve(o) = Amounts(Standing(o))
  BY <1>1, <1>2 DEF consumedReserve
<1>4. \A m : Recount(o, m) = Qtys(Standing(o) \ {m})
  <2> TAKE m
  <2>1. Standing(o) \ {m} \subseteq Lines
    BY <1>1
  <2> QED
    BY <1>2, <2>1 DEF Recount
<1> QED
  BY <1>1, <1>2, <1>3, <1>4

\* The executions that stand, when the execution of one line changes.
LEMMA StandingChanges ==
  ASSUME StateInv, NEW l \in Lines, NEW s, executions' = [executions EXCEPT ![l] = s]
  PROVE  /\ \A o \in OrderIds \ {l.order} : Standing(o)' = Standing(o)
         /\ s \in {"UNSETTLED", "SETTLED"} => Standing(l.order)' = Standing(l.order) \cup {l}
         /\ s = "FAILED" => Standing(l.order)' = Standing(l.order) \ {l}
         /\ l \in Standing(l.order) <=> executions[l] \in {"UNSETTLED", "SETTLED"}
<1>1. /\ executions'[l] = s /\ \A m \in Lines \ {l} : executions'[m] = executions[m]
  BY DEF StateInv, StateType
<1>2. \A o : Standing(o)' = {m \in Lines : m.order = o /\ executions'[m] \in {"UNSETTLED", "SETTLED"}}
  BY DEF Standing, LinesOf
<1>3. \A o : Standing(o) = {m \in Lines : m.order = o /\ executions[m] \in {"UNSETTLED", "SETTLED"}}
  BY DEF Standing, LinesOf
<1>4. \A o \in OrderIds \ {l.order} : Standing(o)' = Standing(o)
  BY <1>1, <1>2, <1>3
<1>5. s \in {"UNSETTLED", "SETTLED"} => Standing(l.order)' = Standing(l.order) \cup {l}
  <2>1. ASSUME s \in {"UNSETTLED", "SETTLED"}, NEW m
        PROVE  m \in Standing(l.order)' <=> m \in Standing(l.order) \cup {l}
    BY <1>1, <1>2, <1>3, <2>1
  <2> QED
    BY <2>1
<1>6. s = "FAILED" => Standing(l.order)' = Standing(l.order) \ {l}
  <2>1. ASSUME s = "FAILED", NEW m
        PROVE  m \in Standing(l.order)' <=> m \in Standing(l.order) \ {l}
    BY <1>1, <1>2, <1>3, <2>1
  <2> QED
    BY <2>1
<1> QED
  BY <1>3, <1>4, <1>5, <1>6

-----------------------------------------------------------------------------
(* The counters                                                            *)

Counted == \A o \in OrderIds : filled[o] = Qtys(Standing(o)) /\ filled[o] <= Quantity[o]

LEMMA StillCounted ==
  ASSUME Counted, executions' = executions, filled' = filled
  PROVE  Counted'
<1>1. \A o : Standing(o)' = Standing(o)
  BY DEF Standing
<1> QED
  BY <1>1 DEF Counted, Qtys, Qty

LEMMA CountedKeeps ==
  ASSUME StateInv, Counted, SerialEffect
  PROVE  Counted'
<1>1. ASSUME NEW l \in Lines, NEW f \in Nat, NEW n \in Nat, ExecutesWell(l, f, n)
      PROVE  Counted'
  <2> DEFINE o == l.order
  <2>1. /\ executions[l] = "none" /\ executions' = [executions EXCEPT ![l] = "UNSETTLED"]
        /\ filled' = [filled EXCEPT ![o] = f + l.qty]
        /\ f = filled[o] /\ f + l.qty <= Quantity[o] /\ o \in OrderIds
    BY <1>1 DEF ExecutesWell, Executes
  <2>2. Standing(o)' = Standing(o) \cup {l} /\ l \in Lines \ Standing(o)
    BY <2>1, StandingChanges
  <2>3. Qtys(Standing(o)') = Qtys(Standing(o)) + l.qty
    <3>1. PICK S : S = Standing(o)
      OBVIOUS
    <3>2. S \subseteq Lines /\ l \in Lines \ S
      BY <2>1, <2>2, <3>1, StandingSums
    <3>3. Qtys(S \cup {l}) = Qtys(S) + l.qty
      BY <3>2, LineSums
    <3> QED
      BY <2>2, <3>1, <3>3
  <2>4. filled'[o] = f + l.qty /\ \A u \in OrderIds \ {o} : filled'[u] = filled[u]
    BY <2>1 DEF StateInv, StateType
  <2>5. \A u \in OrderIds \ {o} : Standing(u)' = Standing(u)
    BY <2>1, StandingChanges
  <2>6. ASSUME NEW u \in OrderIds
        PROVE  filled'[u] = Qtys(Standing(u)') /\ filled'[u] <= Quantity[u]
    BY <2>1, <2>3, <2>4, <2>5 DEF Counted
  <2> QED
    BY <2>6 DEF Counted, Qtys, Qty
<1>2. ASSUME NEW l \in Lines, Settles(l)
      PROVE  Counted'
  <2>1. /\ executions[l] = "UNSETTLED" /\ executions' = [executions EXCEPT ![l] = "SETTLED"]
        /\ filled' = filled /\ l.order \in OrderIds
    BY <1>2 DEF Settles, orders
  <2>2. Standing(l.order)' = Standing(l.order) \cup {l} /\ l \in Standing(l.order)
    BY <2>1, StandingChanges
  <2>3. \A u \in OrderIds : Standing(u)' = Standing(u)
    <3>1. Standing(l.order) \cup {l} = Standing(l.order)
      BY <2>2
    <3>2. Standing(l.order)' = Standing(l.order)
      BY <2>2, <3>1
    <3>3. \A u \in OrderIds \ {l.order} : Standing(u)' = Standing(u)
      BY <2>1, StandingChanges
    <3> QED
      BY <3>2, <3>3
  <2> QED
    BY <2>1, <2>3 DEF Counted, Qtys, Qty
<1>3. ASSUME NEW l \in Lines, Fails(l), executions[l] = "UNSETTLED"
      PROVE  Counted'
  <2> DEFINE o == l.order
  <2>1. /\ executions' = [executions EXCEPT ![l] = "FAILED"]
        /\ filled' = [filled EXCEPT ![o] = Recount(o, l)] /\ o \in OrderIds
    BY <1>3 DEF Fails
  <2>2. Standing(o)' = Standing(o) \ {l} /\ l \in Standing(o)
    BY <1>3, <2>1, StandingChanges
  <2>3. /\ Qtys(Standing(o)') = Qtys(Standing(o)) - l.qty
        /\ Recount(o, l) = Qtys(Standing(o)') /\ l.qty \in Nat /\ Qtys(Standing(o)) \in Nat
    <3>1. PICK S : S = Standing(o)
      OBVIOUS
    <3>2. S \subseteq Lines /\ Recount(o, l) = Qtys(S \ {l})
      BY <2>1, <3>1, StandingSums
    <3>3. Qtys(S \ {l}) = Qtys(S) - l.qty /\ Qtys(S) \in Nat /\ l.qty \in Nat
      BY <2>2, <3>1, <3>2, LineSums
    <3> QED
      BY <2>2, <3>1, <3>2, <3>3
  <2>4. filled'[o] = Recount(o, l) /\ \A u \in OrderIds \ {o} : filled'[u] = filled[u]
    BY <2>1 DEF StateInv, StateType
  <2>5. \A u \in OrderIds \ {o} : Standing(u)' = Standing(u)
    BY <2>1, StandingChanges
  <2>6. filled'[o] <= Quantity[o]
    <3>1. Qtys(Standing(o)) <= Quantity[o] /\ Quantity[o] \in Nat
      BY DEF Counted
    <3> QED
      BY ONLY <2>3, <2>4, <3>1
  <2>7. ASSUME NEW u \in OrderIds
        PROVE  filled'[u] = Qtys(Standing(u)') /\ filled'[u] <= Quantity[u]
    BY <2>3, <2>4, <2>5, <2>6 DEF Counted
  <2> QED
    BY <2>7 DEF Counted, Qtys, Qty
<1>4. CASE executions' = executions /\ filled' = filled
  BY <1>4, StillCounted
<1>5. CASE Nothing
  BY <1>4, <1>5 DEF Nothing, orders
<1>6. CASE \E o \in OrderIds : Places(o)
  BY <1>4, <1>6 DEF Places
<1>7. CASE \E o \in OrderIds, f \in Nat, to \in Statuses : ClosesWell(o, f, to)
  BY <1>4, <1>7 DEF ClosesWell, Closes
<1>8. CASE \E o \in OrderIds, to \in Statuses : Marks(o, to)
  BY <1>4, <1>8 DEF Marks
<1>9. CASE \E S \in SUBSET OrderIds : Transmits(S)
  BY <1>4, <1>9 DEF Transmits
<1> QED
  BY <1>1, <1>2, <1>3, <1>5, <1>6, <1>7, <1>8, <1>9 DEF SerialEffect

\* An order that has not been transmitted has no execution, so nothing filled.
LEMMA PendingIsUnfilled ==
  ASSUME StateInv, Counted, NEW o \in OrderIds, status[o] \in {"none", "PENDING"}
  PROVE  Standing(o) = {} /\ Amounts(Standing(o)) = 0 /\ filled[o] = 0
<1>1. Standing(o) = {}
  BY DEF StateInv, LineInv, Traced, Standing, LinesOf
<1>2. Amounts({}) = 0 /\ Qtys({}) = 0
  BY SumOfNothing DEF Amounts, Qtys
<1> QED
  BY <1>1, <1>2 DEF Counted

-----------------------------------------------------------------------------
(* The reserve of a BUY                                                    *)

\* A release has been posted only for an order that is over, or was.
Released ==
  \A r \in journal : r.key[1] = "release" => isFinal(status[r.key[2]]) \/ r.key[2] \in revived

Spent ==
  \A o \in OrderIds \ revived : side[o] = "BUY" =>
    /\ ReserveLeft(o) >= 0
    /\ o \in Live => ReserveLeft(o) = MaxAmount[o] - Amounts(Standing(o))

LEMMA LeftType ==
  ASSUME JournalInv, NEW o
  PROVE  ReserveLeft(o) \in Int /\ IsFiniteSet(PostingsOf(o))
<1> DEFINE g == [r \in PostingsOf(o) |-> r.delta["reserved"]]
<1>1. IsFiniteSet(PostingsOf(o)) /\ PostingsOf(o) \subseteq journal
  BY FS_Subset DEF PostingsOf, JournalInv
<1>2. \A r \in PostingsOf(o) : g[r] \in Int
  BY <1>1, AccountNames DEF JournalInv, Sound, Movement
<1>3. SumFunctionOnSet(g, PostingsOf(o)) \in Int
  BY <1>1, <1>2, SumType
<1> QED
  BY <1>1, <1>3, SumOnDomain DEF ReserveLeft

\* Postings of one order change what is left of that order, and of no other.
LEMMA LeftMoves ==
  ASSUME StateInv, NEW P, IsFiniteSet(P), Book!PostAll(P), NEW o,
         \A p \in P : p.delta \in Movement /\ p.key[2] = o
  PROVE  /\ ReserveLeft(o)' = ReserveLeft(o) + Moved(P, "reserved")
         /\ \A u : u # o => ReserveLeft(u)' = ReserveLeft(u)
<1>1. PICK F : F = Fresh(P)
  OBVIOUS
<1>2. journal' = journal \cup F /\ F \subseteq P /\ F \cap journal = {} /\ IsFiniteSet(F)
  BY <1>1, PostAllPosts, FreshPart, FS_Subset
<1>3. PICK J : J = PostingsOf(o)
  OBVIOUS
<1>4. PostingsOf(o)' = J \cup F /\ J \cap F = {}
  BY <1>2, <1>3 DEF PostingsOf
<1>5. IsFiniteSet(J \cup F)
  BY <1>2, <1>3, LeftType, FS_Union DEF StateInv
<1> DEFINE g == [r \in J \cup F |-> r.delta["reserved"]]
           gJ == [r \in J |-> r.delta["reserved"]]
           gF == [r \in F |-> r.delta["reserved"]]
<1>6. \A r \in J \cup F : g[r] \in Int
  BY <1>2, <1>3, AccountNames DEF PostingsOf, StateInv, JournalInv, Sound, Movement
<1>7. SumFunctionOnSet(g, (J \cup F) \ F) = SumFunctionOnSet(g, J \cup F) - SumFunctionOnSet(g, F)
  BY <1>5, <1>6, SumDifference
<1>8. (J \cup F) \ F = J
  BY <1>4
<1>9. /\ SumFunctionOnSet(g, J) = SumFunctionOnSet(gJ, J)
      /\ SumFunctionOnSet(g, F) = SumFunctionOnSet(gF, F)
  <2>1. IsFiniteSet(J) /\ IsFiniteSet(F)
    BY <1>2, <1>3, LeftType DEF StateInv
  <2>2. (\A r \in J : g[r] = gJ[r]) /\ (\A r \in F : g[r] = gF[r])
    OBVIOUS
  <2> QED
    BY <2>1, <2>2, SumSame
<1>10. ReserveLeft(o)' = SumFunctionOnSet(g, J \cup F)
  <2>1. ReserveLeft(o)' = SumFunction(g)
    BY <1>4 DEF ReserveLeft
  <2> QED
    BY <2>1, SumOnDomain
<1>11. ReserveLeft(o) = SumFunctionOnSet(gJ, J)
  BY <1>3, SumOnDomain DEF ReserveLeft
<1>12. Moved(P, "reserved") = SumFunctionOnSet(gF, F)
  BY <1>1 DEF Moved
<1>13. /\ SumFunctionOnSet(gJ, J) \in Int /\ SumFunctionOnSet(gF, F) \in Int
       /\ SumFunctionOnSet(g, J \cup F) \in Int
  BY <1>2, <1>5, <1>6, <1>9, <1>11, LeftType, SumType DEF StateInv
<1> HIDE DEF g, gJ, gF
<1>14. ReserveLeft(o)' = ReserveLeft(o) + Moved(P, "reserved")
  <2>1. SumFunctionOnSet(g, J) = SumFunctionOnSet(g, J \cup F) - SumFunctionOnSet(g, F)
    BY <1>7, <1>8
  <2>2. SumFunctionOnSet(g, J \cup F) = SumFunctionOnSet(gJ, J) + SumFunctionOnSet(gF, F)
    BY <1>9, <1>13, <2>1
  <2> QED
    BY <1>10, <1>11, <1>12, <2>2
<1>15. ASSUME NEW u, u # o
       PROVE  ReserveLeft(u)' = ReserveLeft(u)
  <2>1. PostingsOf(u)' = PostingsOf(u)
    BY <1>2, <1>15 DEF PostingsOf
  <2> QED
    BY <2>1 DEF ReserveLeft
<1> QED
  BY <1>14, <1>15

\* No order that is over is opened again, unless it is revived.
Closed == /\ revived \subseteq revived'
          /\ \A o \in OrderIds : isFinal(status[o]) => isFinal(status'[o]) \/ o \in revived'

\* A step that posts P, and releases only orders that it ends.
LEMMA ReleasedStep ==
  ASSUME StateInv, Released, NEW P, journal' \subseteq journal \cup P,
         \A p \in P : p.key[1] = "release" => isFinal(status'[p.key[2]]), Closed
  PROVE  Released'
<1>1. \A r \in journal : r.key[2] \in OrderIds
  BY DEF StateInv, JournalInv, Sound
<1>2. ASSUME NEW r \in journal', r.key[1] = "release"
      PROVE  isFinal(status'[r.key[2]]) \/ r.key[2] \in revived'
  BY <1>1, <1>2 DEF Released, Closed
<1> QED
  BY <1>2 DEF Released, isFinal

LEMMA ReleasedStill ==
  ASSUME StateInv, Released, journal' = journal, Closed
  PROVE  Released'
<1> DEFINE P == {}
<1>1. journal' \subseteq journal \cup P
  OBVIOUS
<1>2. \A p \in P : p.key[1] = "release" => isFinal(status'[p.key[2]])
  OBVIOUS
<1> HIDE DEF P
<1> QED
  BY <1>1, <1>2, ReleasedStep

\* One posting, of an order that is over if it is a release.
LEMMA ReleasedOne ==
  ASSUME StateInv, Released, NEW p, Book!PostAll({p}),
         p.key[1] # "release" \/ isFinal(status'[p.key[2]]), Closed
  PROVE  Released'
<1>1. journal' \subseteq journal \cup {p}
  BY PostAllPosts, FreshPart
<1>2. \A x \in {p} : x.key[1] = "release" => isFinal(status'[x.key[2]])
  OBVIOUS
<1> QED
  BY <1>1, <1>2, ReleasedStep

\* A step that touches the reserve, the executions or the status of one order.
LEMMA SpentStep ==
  ASSUME Spent, side' = side, Closed, NEW o \in OrderIds,
         \A u \in OrderIds \ {o} : /\ ReserveLeft(u)' = ReserveLeft(u) /\ status'[u] = status[u]
                                   /\ Standing(u)' = Standing(u),
         side[o] = "BUY" /\ o \notin revived =>
           /\ ReserveLeft(o)' >= 0
           /\ status'[o] # "none" /\ ~isFinal(status'[o])
              => ReserveLeft(o)' = MaxAmount[o] - Amounts(Standing(o)')
  PROVE  Spent'
<1>1. ASSUME NEW u \in OrderIds \ revived', side'[u] = "BUY"
      PROVE  /\ ReserveLeft(u)' >= 0
             /\ status'[u] # "none" /\ ~isFinal(status'[u])
                => ReserveLeft(u)' = MaxAmount[u] - Amounts(Standing(u)')
  BY <1>1 DEF Spent, Live, Closed
<1> QED
  BY <1>1 DEF Spent, Live, Amounts, Amount, isFinal

\* A step that touches none.
LEMMA SpentStill ==
  ASSUME Spent, side' = side, journal' = journal, Closed,
         \A o \in OrderIds :
           /\ Standing(o)' = Standing(o)
           /\ status'[o] # "none" /\ ~isFinal(status'[o]) => o \in Live \cup revived'
  PROVE  Spent'
<1>1. \A o \in OrderIds : ReserveLeft(o)' = ReserveLeft(o)
  BY DEF ReserveLeft, PostingsOf
<1> QED
  BY <1>1 DEF Spent, Live, Amounts, Amount, isFinal, Closed

LEMMA SameStanding == executions' = executions => \A o : Standing(o)' = Standing(o)
BY DEF Standing

\* The key of an order that is live is not in the journal.
LEMMA ReleaseIsFresh ==
  ASSUME Released, NEW o \in Live \ revived, NEW q, q.key = ReleaseKey(o), NEW P, q \in P
  PROVE  q \in Fresh(P)
<1>1. ReleaseKey(o)[1] = "release" /\ ReleaseKey(o)[2] = o
  BY DEF ReleaseKey
<1>2. \A r \in journal : r.key # q.key
  BY <1>1 DEF Released, Live
<1> QED
  BY <1>2 DEF Fresh

LEMMA PlacesSpends ==
  ASSUME StateInv, Released, Spent, Counted, NEW o \in OrderIds, Places(o)
  PROVE  Released' /\ Spent'
<1>1. /\ status[o] = "none" /\ status' = [status EXCEPT ![o] = "PENDING"]
      /\ side' = side /\ executions' = executions /\ revived' = revived
  BY DEF Places
<1>2. status'[o] = "PENDING" /\ \A u \in OrderIds \ {o} : status'[u] = status[u]
  BY <1>1 DEF StateInv, StateType
<1>3. Closed
  BY <1>1, <1>2 DEF Closed, isFinal, FINAL_STATUSES
<1>4. \A u \in OrderIds : Standing(u)' = Standing(u)
  BY <1>1, SameStanding
<1>5. CASE side[o] = "BUY" /\ reserveCash(o)
  <2>1. PICK p : p = Reserve(o)
    OBVIOUS
  <2>2. p.delta \in Movement /\ p.key[1] = "reserve" /\ p.key[2] = o
        /\ p.key = ReserveKey(o) /\ p.delta["reserved"] = MaxAmount[o]
    BY <2>1, ReserveFields
  <2>3. Book!PostAll({p}) /\ IsFiniteSet({p})
    BY <1>5, <2>1, FS_Singleton DEF reserveCash, Reserve
  <2>4. \A r \in journal : r.key[2] # o
    BY <1>1 DEF StateInv, JournalInv, Sound
  <2>5. p \in Fresh({p})
    BY <2>2, <2>4 DEF Fresh
  <2>6. Moved({p}, "reserved") = MaxAmount[o]
    <3>1. Moved({p}, "reserved") = IF p \in Fresh({p}) THEN p.delta["reserved"] ELSE 0
      BY <2>2, <2>3, AccountNames, MovedByOne
    <3> QED
      BY <2>2, <2>5, <3>1
  <2>7. /\ ReserveLeft(o)' = ReserveLeft(o) + Moved({p}, "reserved")
        /\ \A u : u # o => ReserveLeft(u)' = ReserveLeft(u)
    BY <2>2, <2>3, LeftMoves
  <2>8. ReserveLeft(o) = 0
    <3>1. PostingsOf(o) = {}
      BY <2>4 DEF PostingsOf
    <3> DEFINE g == [r \in PostingsOf(o) |-> r.delta["reserved"]]
    <3>2. SumFunction(g) = SumFunctionOnSet(g, PostingsOf(o))
      BY SumOnDomain
    <3>3. SumFunctionOnSet(g, {}) = 0
      BY SumOfNothing
    <3> QED
      BY <3>1, <3>2, <3>3 DEF ReserveLeft
  <2>9. Amounts(Standing(o)') = 0 /\ MaxAmount[o] \in Nat
    BY <1>1, <1>4, PendingIsUnfilled
  <2>10. ReserveLeft(o)' = MaxAmount[o]
    BY <2>6, <2>7, <2>8, <2>9
  <2>11. Spent'
    BY <1>1, <1>2, <1>3, <1>4, <2>7, <2>9, <2>10, SpentStep
  <2>12. Released'
    <3>1. p.key[1] # "release"
      BY <2>2
    <3> QED
      BY <1>3, <2>3, <3>1, ReleasedOne
  <2> QED
    BY <2>11, <2>12
<1>6. CASE side[o] = "SELL" /\ reserveShares(o)
  <2>1. journal' = journal
    BY <1>6 DEF reserveShares, ledger
  <2>2. Released'
    BY <1>3, <2>1, ReleasedStill
  <2>3. \A u \in OrderIds : ReserveLeft(u)' = ReserveLeft(u)
    BY <2>1 DEF ReserveLeft, PostingsOf
  <2> QED
    BY <1>1, <1>2, <1>3, <1>4, <1>6, <2>2, <2>3, SpentStep
<1> QED
  BY <1>5, <1>6 DEF Places

LEMMA ClosesSpends ==
  ASSUME StateInv, Released, Spent, NEW o \in OrderIds, NEW f \in Nat, NEW to \in Statuses,
         ClosesWell(o, f, to)
  PROVE  Released' /\ Spent'
<1>1. /\ o \in Live /\ isFinal(to) /\ status' = [status EXCEPT ![o] = to]
      /\ side' = side /\ executions' = executions /\ releaseRemaining(o, f)
      /\ revived' = revived
  BY DEF ClosesWell, Closes
<1>2. status'[o] = to /\ \A u \in OrderIds \ {o} : status'[u] = status[u]
  BY <1>1 DEF StateInv, StateType
<1>3. Closed
  BY <1>1, <1>2 DEF Closed, isFinal
<1>4. \A u \in OrderIds : Standing(u)' = Standing(u)
  BY <1>1, SameStanding
<1>5. CASE UNCHANGED ledger
  <2>1. journal' = journal
    BY <1>5 DEF ledger
  <2>2. Released'
    BY <1>3, <2>1, ReleasedStill
  <2>3. \A u \in OrderIds : status'[u] # "none" /\ ~isFinal(status'[u]) => u \in Live
    BY <1>1, <1>2 DEF Live, isFinal
  <2> QED
    BY <1>1, <1>3, <1>4, <2>1, <2>2, <2>3, SpentStill
<1>6. PICK n \in Int : n = MaxAmount[o] - consumedReserve(o)
  <2>1. MaxAmount[o] \in Int /\ consumedReserve(o) \in Int
    BY Fills
  <2>2. MaxAmount[o] - consumedReserve(o) \in Int
    BY ONLY <2>1
  <2> QED
    BY <2>2
<1>7. CASE side[o] = "BUY" /\ Book!PostAll({Release(o, n)})
  <2>1. PICK q : q = Release(o, n)
    OBVIOUS
  <2>2. q.delta \in Movement /\ q.key[1] = "release" /\ q.key[2] = o
        /\ q.key = ReleaseKey(o) /\ q.delta["reserved"] = -n
    <3>1. o \in OrderIds /\ n \in Int
      OBVIOUS
    <3>2. /\ Release(o, n).delta \in Movement /\ Release(o, n).key = ReleaseKey(o)
          /\ Release(o, n).key[1] = "release" /\ Release(o, n).key[2] = o
          /\ Release(o, n).delta["reserved"] = -n
      BY ONLY <3>1, ReleaseFields
    <3> QED
      BY ONLY <2>1, <3>2
  <2>3. Book!PostAll({q}) /\ IsFiniteSet({q})
    BY <1>7, <2>1, FS_Singleton
  <2>4. /\ ReserveLeft(o)' = ReserveLeft(o) + Moved({q}, "reserved")
        /\ \A u : u # o => ReserveLeft(u)' = ReserveLeft(u)
    BY <2>2, <2>3, LeftMoves
  <2>5. ASSUME o \notin revived
        PROVE  ReserveLeft(o)' = 0
    <3>1. q \in Fresh({q})
      BY <1>1, <2>2, <2>5, ReleaseIsFresh
    <3>2. Moved({q}, "reserved") = -n
      <4>1. Moved({q}, "reserved") = IF q \in Fresh({q}) THEN q.delta["reserved"] ELSE 0
        BY <2>2, <2>3, AccountNames, MovedByOne
      <4> QED
        BY <2>2, <3>1, <4>1
    <3>3. ReserveLeft(o) = n
      BY <1>1, <1>6, <1>7, <2>5, StandingSums DEF Spent
    <3> QED
      BY <2>4, <3>2, <3>3
  <2>8. Spent'
    BY <1>1, <1>2, <1>3, <1>4, <2>4, <2>5, SpentStep
  <2>9. Released'
    <3>1. isFinal(status'[q.key[2]])
      BY <1>1, <1>2, <2>2
    <3> QED
      BY <1>3, <2>3, <3>1, ReleasedOne
  <2> QED
    BY <2>8, <2>9
<1> QED
  BY <1>1, <1>5, <1>6, <1>7 DEF releaseRemaining

LEMMA ExecutesSpends ==
  ASSUME StateInv, Released, Spent, NEW l \in Lines, NEW f \in Nat, NEW n \in Nat,
         ExecutesWell(l, f, n)
  PROVE  Released' /\ Spent'
<1> DEFINE o == l.order
<1>1. /\ Executes(l, f, n) /\ status[o] \in OPEN_AT_SDB /\ f + l.qty <= Quantity[o]
      /\ executions[l] = "none" /\ executions' = [executions EXCEPT ![l] = "UNSETTLED"]
      /\ status' = [status EXCEPT ![o] = fillStatus(f, l.qty, Quantity[o])]
      /\ side' = side /\ o \in OrderIds /\ revived' = revived
      /\ side[o] = "BUY" => consumedReserve(o) + l.amount <= MaxAmount[o]
  BY DEF ExecutesWell, Executes
<1>2. /\ status'[o] = fillStatus(f, l.qty, Quantity[o])
      /\ \A u \in OrderIds \ {o} : status'[u] = status[u]
  BY <1>1 DEF StateInv, StateType
<1>3. o \in Live
  BY <1>1, OpenIsLive DEF Live
<1>4. Closed
  BY <1>1, <1>2, <1>3 DEF Closed, Live
<1>5. PICK P : P = {Fill(l)} \cup Rest(l, f)
  OBVIOUS
<1>6. PICK p : p = Fill(l)
  OBVIOUS
<1>7. Book!PostAll(P) /\ p \in Fresh(P) /\ p \in P /\ IsFiniteSet(P)
  BY <1>1, <1>5, <1>6, ExecutesPosts, RestIsFinite
<1>8. /\ p.delta \in Movement /\ p.key[1] = "fill" /\ p.key[2] = o
      /\ side[o] = "BUY" => p.delta["reserved"] = -l.amount
  <2>1. p.key = FillKey(l)
    BY <1>6, FillFields
  <2>2. p.key[1] = "fill" /\ p.key[2] = o
    BY <2>1, LineKeys
  <2> QED
    BY <1>6, <2>2, FillFields
<1>9. ASSUME NEW q \in P, q # p
      PROVE  /\ q \in Rest(l, f) /\ q.delta \in Movement /\ q.key = ReleaseKey(o)
             /\ q.key[1] = "release" /\ q.key[2] = o
             /\ q.delta["reserved"] = -Remainder(l) /\ side[o] = "BUY"
             /\ P = {p, q} /\ status'[o] = "EXECUTED"
  <2>1. q \in Rest(l, f)
    BY <1>5, <1>6, <1>9
  <2>2. /\ q.delta \in Movement /\ q.key = ReleaseKey(o)
        /\ q.key[1] = "release" /\ q.key[2] = o
        /\ q.delta["reserved"] = -Remainder(l) /\ Rest(l, f) = {q} /\ side[o] = "BUY"
    <3>1. StateInv /\ l \in Lines /\ f \in Nat
      OBVIOUS
    <3> QED
      BY ONLY <2>1, <3>1, RestFields
  <2>3. P = {p, q}
    BY <1>5, <1>6, <2>2
  <2>4. f + l.qty = Quantity[o]
    BY <2>1 DEF Rest
  <2>5. status'[o] = "EXECUTED"
    BY <1>2, <2>4 DEF fillStatus
  <2> QED
    BY <2>1, <2>2, <2>3, <2>5
<1>10. \A q \in P : q.delta \in Movement /\ q.key[2] = o
  BY <1>8, <1>9
<1>11. Released'
  <2>1. journal' \subseteq journal \cup P
    BY <1>7, PostAllPosts, FreshPart
  <2>2. \A q \in P : q.key[1] = "release" => isFinal(status'[q.key[2]])
    BY <1>8, <1>9 DEF isFinal, FINAL_STATUSES
  <2> QED
    BY <1>4, <2>1, <2>2, ReleasedStep
<1>12. /\ ReserveLeft(o)' = ReserveLeft(o) + Moved(P, "reserved")
       /\ \A u : u # o => ReserveLeft(u)' = ReserveLeft(u)
  BY <1>7, <1>10, LeftMoves
<1>13. \A u \in OrderIds \ {o} : Standing(u)' = Standing(u)
  BY <1>1, StandingChanges
<1>14. ASSUME side[o] = "BUY", o \notin revived
       PROVE  /\ ReserveLeft(o)' >= 0
              /\ ~isFinal(status'[o]) => ReserveLeft(o)' = MaxAmount[o] - Amounts(Standing(o)')
  <2>1. PICK S : S = Standing(o)
    OBVIOUS
  <2>2. /\ Standing(o)' = S \cup {l} /\ l \in Lines \ S /\ S \subseteq Lines
        /\ consumedReserve(o) = Amounts(S)
    BY <1>1, <2>1, StandingChanges, StandingSums
  <2>3. /\ Amounts(Standing(o)') = Amounts(S) + l.amount
        /\ Amounts(S) \in Nat /\ l.amount \in Nat /\ MaxAmount[o] \in Nat
    BY <2>2, LineSums
  <2>4. /\ ReserveLeft(o) = MaxAmount[o] - Amounts(S)
        /\ Amounts(S) + l.amount <= MaxAmount[o]
        /\ Remainder(l) = MaxAmount[o] - Amounts(S) - l.amount
    BY <1>1, <1>3, <1>14, <2>1, <2>2 DEF Spent, Remainder
  <2>5. CASE P = {p}
    <3>1. Moved(P, "reserved") = -l.amount
      <4>1. \A q \in P : q # p => q.delta["reserved"] = 0
        BY <2>5
      <4>2. Moved(P, "reserved") = IF p \in Fresh(P) THEN p.delta["reserved"] ELSE 0
        BY <1>7, <1>10, <4>1, AccountNames, MovedByOne
      <4> QED
        BY <1>7, <1>8, <1>14, <4>2
    <3> QED
      BY <1>12, <2>3, <2>4, <3>1
  <2>6. CASE P # {p}
    <3>1. PICK q \in P : q # p
      BY <1>7, <2>6
    <3>2. q \in Fresh(P)
      BY <1>3, <1>9, <1>14, <3>1, ReleaseIsFresh
    <3>3. Moved(P, "reserved") = p.delta["reserved"] + q.delta["reserved"]
      BY <1>7, <1>8, <1>9, <3>1, <3>2, AccountNames, MovedByTwo
    <3>4. p.delta["reserved"] = -l.amount /\ q.delta["reserved"] = -Remainder(l)
      BY <1>8, <1>9, <1>14, <3>1
    <3>5. ReserveLeft(o)' = 0
      BY <1>12, <2>3, <2>4, <3>3, <3>4
    <3>6. isFinal(status'[o])
      BY <1>9, <3>1 DEF isFinal, FINAL_STATUSES
    <3> QED
      BY <3>5, <3>6
  <2> QED
    BY <2>5, <2>6
<1>15. Spent'
  BY <1>1, <1>2, <1>4, <1>12, <1>13, <1>14, SpentStep
<1> QED
  BY <1>11, <1>15

LEMMA SettlesSpends ==
  ASSUME StateInv, Released, Spent, NEW l \in Lines, Settles(l)
  PROVE  Released' /\ Spent'
<1> DEFINE o == l.order
<1>1. /\ executions[l] = "UNSETTLED" /\ executions' = [executions EXCEPT ![l] = "SETTLED"]
      /\ side' = side /\ status' = status /\ o \in OrderIds /\ revived' = revived
  BY DEF Settles, orders
<1>5. Closed
  BY <1>1 DEF Closed
<1>2. \A u \in OrderIds : Standing(u)' = Standing(u)
  <2>1. Standing(o)' = Standing(o) \cup {l} /\ l \in Standing(o)
    BY <1>1, StandingChanges
  <2>2. Standing(o) \cup {l} = Standing(o)
    BY <2>1
  <2>3. Standing(o)' = Standing(o)
    BY <2>1, <2>2
  <2>4. \A u \in OrderIds \ {o} : Standing(u)' = Standing(u)
    BY <1>1, StandingChanges
  <2> QED
    BY <2>3, <2>4
<1>3. CASE UNCHANGED ledger
  <2>1. journal' = journal
    BY <1>3 DEF ledger
  <2>2. \A u \in OrderIds : status'[u] # "none" /\ ~isFinal(status'[u]) => u \in Live
    BY <1>1 DEF Live
  <2> QED
    BY <1>1, <1>2, <1>5, <2>1, <2>2, ReleasedStill, SpentStill
<1>4. CASE side[o] = "SELL" /\ postSellSettlement(l)
  <2>1. PICK p : p = Payment(l)
    OBVIOUS
  <2>2. p.delta \in Movement /\ p.key[1] = "settlement" /\ p.key[2] = o
    BY <2>1, PaymentFields
  <2>3. Book!PostAll({p}) /\ IsFiniteSet({p})
    BY <1>4, <2>1, FS_Singleton DEF postSellSettlement, Payment
  <2>4. \A u : u # o => ReserveLeft(u)' = ReserveLeft(u)
    BY <2>2, <2>3, LeftMoves
  <2>5. Spent'
    BY <1>1, <1>2, <1>4, <1>5, <2>4, SpentStep
  <2>6. Released'
    <3>1. p.key[1] # "release"
      BY <2>2
    <3> QED
      BY <1>5, <2>3, <3>1, ReleasedOne
  <2> QED
    BY <2>5, <2>6
<1> QED
  BY <1>3, <1>4 DEF Settles

LEMMA FailsSpends ==
  ASSUME StateInv, Released, Spent, NEW l \in Lines, Fails(l)
  PROVE  Released' /\ Spent'
<1> DEFINE o == l.order
<1>1. /\ executions[l] # "none" /\ executions' = [executions EXCEPT ![l] = "FAILED"]
      /\ status' = [status EXCEPT ![o] = "ADJUSTED"] /\ side' = side /\ o \in OrderIds
      /\ revived' = revived
  BY DEF Fails
<1>2. status'[o] = "ADJUSTED" /\ \A u \in OrderIds \ {o} : status'[u] = status[u]
  BY <1>1 DEF StateInv, StateType
<1>3. isFinal("ADJUSTED") /\ Closed
  BY <1>1, <1>2 DEF Closed, isFinal, FINAL_STATUSES
<1>4. PICK P : P = {Reverse(l)} \cup Back(l)
  OBVIOUS
<1>5. PICK p : p = Reverse(l)
  OBVIOUS
<1>6. PICK q : q = Repayment(l)
  OBVIOUS
<1>7. Book!PostAll(P) /\ IsFiniteSet(P) /\ P = Fresh(P)
  BY <1>4, FailsPosts
<1>8. p.delta \in Movement /\ p.key[1] = "fill" /\ p.key[2] = o /\ p.rev = TRUE
  BY <1>1, <1>5, ReverseFields
<1>9. /\ q.delta \in Movement /\ q.key[1] = "settlement-fail-release" /\ q.key[2] = o
      /\ q.delta["reserved"] = -l.amount /\ q.rev = FALSE
  <2>1. q.key = FailKey(l)
    BY <1>6, RepaymentFields
  <2>2. q.key[1] = "settlement-fail-release" /\ q.key[2] = o
    BY <2>1, LineKeys
  <2> QED
    BY <1>6, <2>2, RepaymentFields
<1>10. \A r \in P : r = p \/ r = q
  BY <1>4, <1>5, <1>6 DEF Back
<1>11. Released'
  <2>1. journal' \subseteq journal \cup P
    BY <1>7, PostAllPosts, FreshPart
  <2>2. \A r \in P : r.key[1] = "release" => isFinal(status'[r.key[2]])
    BY <1>8, <1>9, <1>10
  <2> QED
    BY <1>3, <2>1, <2>2, ReleasedStep
<1>12. /\ ReserveLeft(o)' = ReserveLeft(o) + Moved(P, "reserved")
       /\ \A u : u # o => ReserveLeft(u)' = ReserveLeft(u)
  <2>1. \A r \in P : r.delta \in Movement /\ r.key[2] = o
    BY <1>8, <1>9, <1>10
  <2> QED
    BY <1>7, <2>1, LeftMoves
<1>13. ASSUME side[o] = "BUY", o \notin revived
       PROVE  ReserveLeft(o)' >= 0
  <2>1. P = {p, q} /\ p # q
    BY <1>4, <1>5, <1>6, <1>8, <1>9, <1>13 DEF Back
  <2>2. Moved(P, "reserved") = p.delta["reserved"] + q.delta["reserved"]
    <3>1. p \in Fresh({p, q}) /\ q \in Fresh({p, q})
      BY <1>7, <2>1
    <3> QED
      BY <1>8, <1>9, <2>1, <3>1, AccountNames, MovedByTwo
  <2>3. p.delta["reserved"] = l.amount
    <3>1. p.delta["reserved"] = -Fill(l).delta["reserved"]
      BY <1>1, <1>5, ReverseFields, AccountNames
    <3>2. Fill(l).delta["reserved"] = -l.amount /\ l.amount \in Nat
      BY <1>13, FillFields
    <3> QED
      BY <3>1, <3>2
  <2>4. Moved(P, "reserved") = 0
    <3>1. l.amount \in Nat
      OBVIOUS
    <3> QED
      BY <1>9, <2>2, <2>3, <3>1
  <2>5. ReserveLeft(o) >= 0 /\ ReserveLeft(o) \in Int
    BY <1>1, <1>13, LeftType DEF Spent, StateInv
  <2> QED
    BY <1>12, <2>4, <2>5
<1>14. \A u \in OrderIds \ {o} : Standing(u)' = Standing(u)
  BY <1>1, StandingChanges
<1>15. Spent'
  BY <1>1, <1>2, <1>3, <1>12, <1>13, <1>14, SpentStep
<1> QED
  BY <1>11, <1>15

LEMMA SpendsKeep ==
  ASSUME StateInv, Released, Spent, Counted, SerialEffect
  PROVE  Released' /\ Spent'
<1>1. ASSUME journal' = journal, executions' = executions, side' = side, Closed,
             \A o \in OrderIds : status'[o] # "none" /\ ~isFinal(status'[o]) => o \in Live \cup revived'
      PROVE  Released' /\ Spent'
  BY <1>1, SameStanding, ReleasedStill, SpentStill
<1>2. CASE Nothing
  BY <1>1, <1>2 DEF Nothing, orders, ledger, Live, Closed
<1>3. ASSUME NEW o \in OrderIds, NEW to \in Statuses, Marks(o, to), o \in Live \cup revived'
      PROVE  Released' /\ Spent'
  <2>1. /\ status' = [status EXCEPT ![o] = to] /\ revived \subseteq revived'
        /\ journal' = journal /\ executions' = executions /\ side' = side
    BY <1>3 DEF Marks, ledger
  <2>2. \A u \in OrderIds : u = o \/ status'[u] = status[u]
    BY <2>1 DEF StateInv, StateType
  <2>3. Closed
    BY <1>3, <2>1, <2>2 DEF Live, Closed
  <2>4. \A u \in OrderIds : status'[u] # "none" /\ ~isFinal(status'[u]) => u \in Live \cup revived'
    BY <1>3, <2>2 DEF Live
  <2> QED
    BY <1>1, <2>1, <2>3, <2>4
<1>4. ASSUME NEW S \in SUBSET OrderIds, Transmits(S), \A o \in S : status[o] = "PENDING"
      PROVE  Released' /\ Spent'
  <2>1. /\ status' = [o \in OrderIds |-> IF o \in S THEN "TRANSMITTED" ELSE status[o]]
        /\ journal' = journal /\ executions' = executions /\ side' = side /\ revived' = revived
    BY <1>4 DEF Transmits, ledger
  <2>2. \A o \in S : o \in Live /\ ~isFinal(status[o])
    BY <1>4, OpenIsLive DEF Live
  <2>3. Closed
    BY <2>1, <2>2 DEF Closed
  <2>4. \A u \in OrderIds : status'[u] # "none" /\ ~isFinal(status'[u]) => u \in Live
    BY <2>1, <2>2 DEF Live
  <2> QED
    BY <1>1, <2>1, <2>3, <2>4
<1> QED
  BY <1>2, <1>3, <1>4, PlacesSpends, ClosesSpends, ExecutesSpends, SettlesSpends, FailsSpends
  DEF SerialEffect

-----------------------------------------------------------------------------
(* The shares of the SELLs                                                 *)

\* What is unfilled of a set of orders whose counters are fl.
Open(fl, S) == SumFunctionOnSet([o \in OrderIds |-> Quantity[o] - fl[o]], S)
OpenSells == Live \ BUYs
Held ==
  /\ position.reserved <= position.quantity
  /\ position.reserved >= Qtys(Unsettled("SELL")) + Open(filled, OpenSells)

\* The counters of the orders never exceed what was ordered.
Within(fl) == \A o \in OrderIds : fl[o] \in Nat /\ fl[o] <= Quantity[o]

LEMMA OpenSums ==
  ASSUME NEW fl, Within(fl), NEW S, S \subseteq OrderIds
  PROVE  /\ IsFiniteSet(S) /\ Open(fl, S) \in Nat
         /\ \A o \in OrderIds : Quantity[o] - fl[o] \in Nat
         /\ \A o \in OrderIds \ S : Open(fl, S \cup {o}) = Open(fl, S) + (Quantity[o] - fl[o])
         /\ \A o \in S : Open(fl, S) = (Quantity[o] - fl[o]) + Open(fl, S \ {o})
<1> DEFINE g == [o \in OrderIds |-> Quantity[o] - fl[o]]
<1>1. IsFiniteSet(S)
  BY FS_Subset
<1>2. \A o \in OrderIds : Quantity[o] - fl[o] \in Nat /\ g[o] = Quantity[o] - fl[o] /\ g[o] \in Nat
  BY DEF Within
<1> HIDE DEF g
<1>3. SumFunctionOnSet(g, S) \in Nat
  BY <1>1, <1>2, SumType
<1>4. ASSUME NEW o \in OrderIds \ S
      PROVE  SumFunctionOnSet(g, S \cup {o}) = SumFunctionOnSet(g, S) + g[o]
  <2>1. \A x \in S \cup {o} : g[x] \in Int
    BY <1>2
  <2> QED
    BY <1>1, <2>1, SumAdd
<1>5. ASSUME NEW o \in S
      PROVE  SumFunctionOnSet(g, S) = g[o] + SumFunctionOnSet(g, S \ {o})
  <2>1. \A x \in S : g[x] \in Int
    BY <1>2
  <2> QED
    BY <1>1, <2>1, SumRemove
<1>6. \A T : Open(fl, T) = SumFunctionOnSet(g, T)
  BY DEF Open, g
<1> QED
  BY <1>1, <1>2, <1>3, <1>4, <1>5, <1>6

\* Only the counters of the set count.
LEMMA OpenSame ==
  ASSUME NEW fl, NEW gl, NEW S, S \subseteq OrderIds, \A o \in S : fl[o] = gl[o]
  PROVE  Open(fl, S) = Open(gl, S)
<1> DEFINE f == [o \in OrderIds |-> Quantity[o] - fl[o]]
           g == [o \in OrderIds |-> Quantity[o] - gl[o]]
<1>1. IsFiniteSet(S) /\ \A o \in S : f[o] = g[o]
  BY FS_Subset
<1>2. SumFunctionOnSet(f, S) = SumFunctionOnSet(g, S)
  BY <1>1, SumSame
<1> QED
  BY <1>2 DEF Open

LEMMA HeldTypes ==
  ASSUME StateInv, Counted
  PROVE  /\ Within(filled) /\ OpenSells \subseteq OrderIds
         /\ Open(filled, OpenSells) \in Nat
         /\ \A s : Unsettled(s) \subseteq Lines /\ Qtys(Unsettled(s)) \in Nat
<1>1. Within(filled)
  BY DEF Within, Counted, StateInv, StateType
<1>2. OpenSells \subseteq OrderIds
  BY DEF OpenSells, Live
<1>3. Open(filled, OpenSells) \in Nat
  BY <1>1, <1>2, OpenSums
<1>4. \A s : Unsettled(s) \subseteq Lines
  BY DEF Unsettled
<1>5. \A s : Qtys(Unsettled(s)) \in Nat
  BY <1>4, LineSums
<1> QED
  BY <1>1, <1>2, <1>3, <1>4, <1>5

\* The sums of the property, named.
LEMMA ForSale == SharesForSale = Qtys(Unsettled("SELL")) + Open(filled, OpenSells)
<1>1. SumFunction([l \in Unsettled("SELL") |-> l.qty]) = Qtys(Unsettled("SELL"))
  <2> DEFINE U == Unsettled("SELL")
             g == [l \in U |-> l.qty]
  <2>1. U \subseteq Lines
    BY DEF Unsettled
  <2> HIDE DEF U
  <2>2. IsFiniteSet(U) /\ \A l \in U : g[l] = Qty[l]
    BY <2>1, FS_Subset DEF Qty
  <2>3. SumFunctionOnSet(g, U) = Qtys(U)
    BY <2>2, SumSame DEF Qtys
  <2>4. SumFunction(g) = Qtys(U)
    BY <2>3, SumOnDomain
  <2> QED
    BY <2>4 DEF U
<1>2. SumFunction([o \in Live \ BUYs |-> Quantity[o] - filled[o]]) = Open(filled, OpenSells)
  <2> DEFINE K == Live \ BUYs
             g == [o \in K |-> Quantity[o] - filled[o]]
             f == [o \in OrderIds |-> Quantity[o] - filled[o]]
  <2>1. K \subseteq OrderIds
    BY DEF Live
  <2>2. IsFiniteSet(K) /\ \A o \in K : g[o] = f[o]
    BY <2>1, FS_Subset
  <2>3. SumFunctionOnSet(g, K) = SumFunctionOnSet(f, K)
    BY <2>2, SumSame
  <2>4. SumFunction(g) = SumFunctionOnSet(f, K)
    BY <2>3, SumOnDomain
  <2> QED
    BY <2>4 DEF Open, OpenSells
<1> QED
  BY <1>1, <1>2 DEF SharesForSale

\* The unsettled executions of the SELLs, when the execution of one line changes.
LEMMA UnsettledChanges ==
  ASSUME StateInv, NEW l \in Lines, NEW s, executions' = [executions EXCEPT ![l] = s],
         side' = side
  PROVE  /\ side[l.order] = "BUY" => Unsettled("SELL")' = Unsettled("SELL")
         /\ side[l.order] = "SELL" /\ s = "UNSETTLED" =>
              Unsettled("SELL")' = Unsettled("SELL") \cup {l}
         /\ side[l.order] = "SELL" => (l \in Unsettled("SELL") <=> executions[l] = "UNSETTLED")
<1>1. executions'[l] = s /\ \A m \in Lines \ {l} : executions'[m] = executions[m]
  BY DEF StateInv, StateType
<1>2. Unsettled("SELL")' = {m \in Lines : side[m.order] = "SELL" /\ executions'[m] = "UNSETTLED"}
  BY DEF Unsettled
<1>3. Unsettled("SELL") = {m \in Lines : side[m.order] = "SELL" /\ executions[m] = "UNSETTLED"}
  BY DEF Unsettled
<1>4. side[l.order] = "BUY" => Unsettled("SELL")' = Unsettled("SELL")
  <2>1. ASSUME side[l.order] = "BUY", NEW m
        PROVE  m \in Unsettled("SELL")' <=> m \in Unsettled("SELL")
    BY <1>1, <1>2, <1>3, <2>1
  <2> QED
    BY <2>1
<1>5. side[l.order] = "SELL" /\ s = "UNSETTLED" => Unsettled("SELL")' = Unsettled("SELL") \cup {l}
  <2>1. ASSUME side[l.order] = "SELL", s = "UNSETTLED", NEW m
        PROVE  m \in Unsettled("SELL")' <=> m \in Unsettled("SELL") \cup {l}
    BY <1>1, <1>2, <1>3, <2>1
  <2> QED
    BY <2>1
<1> QED
  BY <1>3, <1>4, <1>5

LEMMA UnsettledLeaves ==
  ASSUME NEW l \in Lines, executions'[l] # "UNSETTLED", side' = side,
         \A m \in Lines \ {l} : executions'[m] = executions[m]
  PROVE  Unsettled("SELL")' = Unsettled("SELL") \ {l}
<1>1. Unsettled("SELL")' = {m \in Lines : side[m.order] = "SELL" /\ executions'[m] = "UNSETTLED"}
  BY DEF Unsettled
<1>2. Unsettled("SELL") = {m \in Lines : side[m.order] = "SELL" /\ executions[m] = "UNSETTLED"}
  BY DEF Unsettled
<1>3. ASSUME NEW m
      PROVE  m \in Unsettled("SELL")' <=> m \in Unsettled("SELL") \ {l}
  BY <1>1, <1>2
<1> QED
  BY <1>3

\* The SELLs that are open, when the status of one order changes.
LEMMA OpenSellsChange ==
  ASSUME StateInv, NEW o \in OrderIds, NEW to, status' = [status EXCEPT ![o] = to], side' = side
  PROVE  /\ o \in OpenSells <=> o \in Live /\ side[o] = "SELL"
         /\ side[o] = "BUY" => OpenSells' = OpenSells
         /\ to = "none" \/ isFinal(to) => OpenSells' = OpenSells \ {o}
         /\ to # "none" /\ ~isFinal(to) /\ side[o] = "SELL" => OpenSells' = OpenSells \cup {o}
<1>1. status'[o] = to /\ \A u \in OrderIds \ {o} : status'[u] = status[u]
  BY DEF StateInv, StateType
<1>2. \A u \in OrderIds : side[u] \in {"BUY", "SELL"}
  BY DEF StateInv, StateType
<1>3. \A u : u \in OpenSells <=> /\ u \in OrderIds /\ side[u] = "SELL"
                                 /\ status[u] # "none" /\ ~isFinal(status[u])
  BY <1>2 DEF OpenSells, Live, BUYs
<1>4. \A u : u \in OpenSells' <=> /\ u \in OrderIds /\ side[u] = "SELL"
                                  /\ status'[u] # "none" /\ ~isFinal(status'[u])
  BY <1>2 DEF OpenSells, Live, BUYs, isFinal
<1>5. side[o] = "BUY" => OpenSells' = OpenSells
  <2>1. ASSUME side[o] = "BUY", NEW u
        PROVE  u \in OpenSells' <=> u \in OpenSells
    BY <1>1, <1>3, <1>4, <2>1
  <2> QED
    BY <2>1
<1>6. to = "none" \/ isFinal(to) => OpenSells' = OpenSells \ {o}
  <2>1. ASSUME to = "none" \/ isFinal(to), NEW u
        PROVE  u \in OpenSells' <=> u \in OpenSells \ {o}
    BY <1>1, <1>3, <1>4, <2>1
  <2> QED
    BY <2>1
<1>7. to # "none" /\ ~isFinal(to) /\ side[o] = "SELL" => OpenSells' = OpenSells \cup {o}
  <2>1. ASSUME to # "none", ~isFinal(to), side[o] = "SELL", NEW u
        PROVE  u \in OpenSells' <=> u \in OpenSells \cup {o}
    BY <1>1, <1>3, <1>4, <2>1
  <2> QED
    BY <2>1
<1> QED
  BY <1>3, <1>5, <1>6, <1>7 DEF Live

\* Held', from what the step makes of the position, the lines and the orders.
LEMMA HeldStep ==
  ASSUME position'.reserved <= position'.quantity,
         position'.reserved >= Qtys(Unsettled("SELL")') + Open(filled', OpenSells')
  PROVE  Held'
BY DEF Held, Qtys, Qty, Open

\* No share moves.
LEMMA StillHeld ==
  ASSUME StateInv, Counted, Held, executions' = executions, side' = side, filled' = filled,
         OpenSells' = OpenSells, position'.reserved = position.reserved,
         position'.quantity >= position.quantity, position'.quantity \in Nat
  PROVE  Held'
<1>1. Unsettled("SELL")' = Unsettled("SELL")
  BY DEF Unsettled
<1>2. position'.reserved >= Qtys(Unsettled("SELL")') + Open(filled', OpenSells')
  BY <1>1 DEF Held
<1>3. position'.reserved <= position'.quantity
  BY PositionTypes DEF Held
<1> QED
  BY <1>2, <1>3, HeldStep

LEMMA PlacesHolds ==
  ASSUME StateInv, Counted, Held, NEW o \in OrderIds, Places(o)
  PROVE  Held'
<1>1. /\ status[o] = "none" /\ status' = [status EXCEPT ![o] = "PENDING"]
      /\ side' = side /\ executions' = executions /\ filled' = filled
  BY DEF Places
<1>2. "PENDING" # "none" /\ ~isFinal("PENDING")
  BY OpenIsLive
<1>3. CASE side[o] = "BUY" /\ reserveCash(o)
  <2>1. OpenSells' = OpenSells
    BY <1>1, <1>3, OpenSellsChange
  <2>2. position' = position
    BY <1>3 DEF reserveCash
  <2> QED
    BY <1>1, <2>1, <2>2, StillHeld, PositionTypes
<1>4. CASE side[o] = "SELL" /\ reserveShares(o)
  <2>1. OpenSells' = OpenSells \cup {o}
    BY <1>1, <1>2, <1>4, OpenSellsChange
  <2>2. o \notin OpenSells
    BY <1>1 DEF OpenSells, Live
  <2>3. Open(filled, OpenSells \cup {o}) = Open(filled, OpenSells) + (Quantity[o] - filled[o])
    BY <2>2, HeldTypes, OpenSums
  <2>4. filled[o] = 0
    BY <1>1, PendingIsUnfilled
  <2>5. Unsettled("SELL")' = Unsettled("SELL")
    BY <1>1 DEF Unsettled
  <2>6. /\ position.quantity - position.reserved >= Quantity[o]
        /\ position'.quantity = position.quantity
        /\ position'.reserved = position.reserved + Quantity[o]
    BY <1>4 DEF reserveShares, StateInv, StateType
  <2>7. position.quantity \in Nat /\ position.reserved \in Nat /\ Quantity[o] \in Nat
    BY PositionTypes
  <2>8. Qtys(Unsettled("SELL")) \in Nat /\ Open(filled, OpenSells) \in Nat
    BY HeldTypes
  <2>9. position.reserved >= Qtys(Unsettled("SELL")) + Open(filled, OpenSells)
    BY DEF Held
  <2>10. Open(filled', OpenSells') = Open(filled, OpenSells) + Quantity[o]
    BY <1>1, <2>1, <2>3, <2>4, <2>7, <2>8
  <2>11. position'.reserved >= Qtys(Unsettled("SELL")') + Open(filled', OpenSells')
    BY <2>5, <2>6, <2>7, <2>8, <2>9, <2>10
  <2>12. position'.reserved <= position'.quantity
    BY <2>6, <2>7
  <2> QED
    BY <2>11, <2>12, HeldStep
<1> QED
  BY <1>3, <1>4 DEF Places

LEMMA ClosesHolds ==
  ASSUME StateInv, Counted, Held, NEW o \in OrderIds, NEW f \in Nat, NEW to \in Statuses,
         ClosesWell(o, f, to)
  PROVE  Held'
<1>1. /\ o \in Live /\ isFinal(to) /\ status' = [status EXCEPT ![o] = to]
      /\ side' = side /\ executions' = executions /\ filled' = filled
      /\ releaseRemaining(o, f)
  BY DEF ClosesWell, Closes
<1>2. f = filled[o]
  BY PendingIsUnfilled DEF ClosesWell
<1>3. CASE side[o] = "BUY"
  <2>1. OpenSells' = OpenSells
    BY <1>1, <1>3, OpenSellsChange
  <2>2. position' = position
    BY <1>1, <1>3 DEF releaseRemaining
  <2> QED
    BY <1>1, <2>1, <2>2, StillHeld, PositionTypes
<1>4. CASE side[o] = "SELL"
  <2>1. OpenSells' = OpenSells \ {o} /\ o \in OpenSells
    BY <1>1, <1>4, OpenSellsChange
  <2>2. /\ Open(filled, OpenSells) = (Quantity[o] - filled[o]) + Open(filled, OpenSells \ {o})
        /\ Quantity[o] - filled[o] \in Nat /\ Open(filled, OpenSells \ {o}) \in Nat
    <3>1. OpenSells \ {o} \subseteq OrderIds
      BY HeldTypes
    <3> QED
      BY <2>1, <3>1, HeldTypes, OpenSums
  <2>3. Unsettled("SELL")' = Unsettled("SELL")
    BY <1>1 DEF Unsettled
  <2>4. PICK n \in Nat : n = Quantity[o] - filled[o]
    BY <2>2
  <2>5. position' = unreserveShares(n)
    BY <1>1, <1>2, <1>4, <2>4 DEF releaseRemaining
  <2>6. /\ position'.quantity = position.quantity
        /\ position'.reserved = Floor(position.reserved - n)
    BY <2>5, PositionTypes
  <2>7. position.quantity \in Nat /\ position.reserved \in Nat
    BY PositionTypes
  <2>8. Qtys(Unsettled("SELL")) \in Nat /\ Open(filled, OpenSells) \in Nat
    BY HeldTypes
  <2>9. /\ position.reserved >= Qtys(Unsettled("SELL")) + Open(filled, OpenSells)
        /\ position.reserved <= position.quantity
    BY DEF Held
  <2>10. position'.reserved = position.reserved - n
    <3>1. position.reserved - n \in Int /\ position.reserved - n >= 0
      BY ONLY <2>2, <2>4, <2>7, <2>8, <2>9
    <3> QED
      BY <2>6, <3>1, FloorType
  <2>11. position'.reserved >= Qtys(Unsettled("SELL")') + Open(filled', OpenSells')
    <3>1. Open(filled', OpenSells') = Open(filled, OpenSells) - n
      BY <1>1, <2>1, <2>2, <2>4, <2>8
    <3> QED
      BY <2>3, <2>7, <2>8, <2>9, <2>10, <3>1
  <2>12. position'.reserved <= position'.quantity
    BY <2>6, <2>7, <2>9, <2>10
  <2> QED
    BY <2>11, <2>12, HeldStep
<1>5. side[o] \in {"BUY", "SELL"}
  BY DEF StateInv, StateType
<1> QED
  BY <1>3, <1>4, <1>5

LEMMA ExecutesHolds ==
  ASSUME StateInv, Counted, Held, NEW l \in Lines, NEW f \in Nat, NEW n \in Nat,
         ExecutesWell(l, f, n)
  PROVE  Held'
<1> DEFINE o == l.order
<1>1. /\ Executes(l, f, n) /\ status[o] \in OPEN_AT_SDB
      /\ f = filled[o] /\ f + l.qty <= Quantity[o]
      /\ executions[l] = "none" /\ executions' = [executions EXCEPT ![l] = "UNSETTLED"]
      /\ status' = [status EXCEPT ![o] = fillStatus(f, l.qty, Quantity[o])]
      /\ filled' = [filled EXCEPT ![o] = f + l.qty]
      /\ position' = SharesAfterFill(o, f, f + l.qty, n + l.qty)
      /\ side' = side /\ o \in OrderIds
  BY DEF ExecutesWell, Executes
<1>2. filled'[o] = f + l.qty /\ \A u \in OrderIds \ {o} : filled'[u] = filled[u]
  BY <1>1 DEF StateInv, StateType
<1>3. position.quantity \in Nat /\ position.pending \in Nat /\ position.reserved \in Nat
  BY PositionTypes
<1>4. l.qty \in Nat /\ Quantity[o] \in Nat /\ filled[o] \in Nat
  BY <1>1 DEF StateInv, StateType
<1>5. Qtys(Unsettled("SELL")) \in Nat /\ Open(filled, OpenSells) \in Nat
  BY HeldTypes
<1>6. /\ position.reserved >= Qtys(Unsettled("SELL")) + Open(filled, OpenSells)
      /\ position.reserved <= position.quantity
  BY DEF Held
<1>7. CASE side[o] = "BUY"
  <2>1. OpenSells' = OpenSells /\ o \notin OpenSells /\ OpenSells \subseteq OrderIds
    BY <1>1, <1>7, OpenSellsChange, HeldTypes
  <2>2. Unsettled("SELL")' = Unsettled("SELL")
    BY <1>1, <1>7, UnsettledChanges
  <2>3. \A u \in OpenSells : filled'[u] = filled[u]
    BY <1>2, <2>1
  <2>4. PICK fl : fl = filled'
    OBVIOUS
  <2>5. Open(fl, OpenSells) = Open(filled, OpenSells)
    BY <2>1, <2>3, <2>4, OpenSame
  <2>6. position'.reserved = position.reserved /\ position'.quantity = position.quantity
    BY <1>1, <1>3, <1>7 DEF SharesAfterFill, StateInv, StateType
  <2>7. position'.reserved >= Qtys(Unsettled("SELL")') + Open(filled', OpenSells')
    BY <1>6, <2>1, <2>2, <2>4, <2>5, <2>6
  <2> QED
    BY <1>6, <2>6, <2>7, HeldStep
<1>8. CASE side[o] = "SELL"
  <2>1. PICK R : R = OpenSells \ {o}
    OBVIOUS
  <2>2. o \in Live
    BY <1>1, OpenIsLive DEF Live
  <2>3. o \in OpenSells /\ OpenSells \subseteq OrderIds
    BY <1>1, <1>8, <2>2, OpenSellsChange, HeldTypes
  <2>4. R \subseteq OrderIds /\ o \in OrderIds \ R /\ OpenSells = R \cup {o}
    BY <2>1, <2>3
  <2>5. PICK fl : fl = filled'
    OBVIOUS
  <2>6. Within(filled)
    BY HeldTypes
  <2>7. Within(fl)
    BY <1>1, <1>2, <1>4, <2>5, <2>6 DEF Within
  <2>8. /\ Open(filled, OpenSells) = Open(filled, R) + (Quantity[o] - filled[o])
        /\ Open(filled, R) \in Nat
    BY <2>4, <2>6, OpenSums
  <2>9. Open(fl, R \cup {o}) = Open(fl, R) + (Quantity[o] - fl[o])
    BY <2>4, <2>7, OpenSums
  <2>10. Open(fl, R) = Open(filled, R)
    <3>1. \A u \in R : fl[u] = filled[u]
      BY <1>2, <2>4, <2>5
    <3> QED
      BY <2>4, <3>1, OpenSame
  <2>11. fl[o] = filled[o] + l.qty
    BY <1>1, <1>2, <2>5
  <2>12. Qtys(Unsettled("SELL")') = Qtys(Unsettled("SELL")) + l.qty
    <3>1. PICK U : U = Unsettled("SELL")
      OBVIOUS
    <3>2. U \subseteq Lines /\ l \in Lines \ U
      BY <1>1, <1>8, <3>1, HeldTypes, UnsettledChanges
    <3>3. Qtys(U \cup {l}) = Qtys(U) + l.qty
      BY <3>2, LineSums
    <3>4. Unsettled("SELL")' = U \cup {l}
      BY <1>1, <1>8, <3>1, UnsettledChanges
    <3> QED
      BY <3>1, <3>3, <3>4
  <2>13. CASE f + l.qty = Quantity[o]
    <3>1. fillStatus(f, l.qty, Quantity[o]) = "EXECUTED"
      BY <2>13 DEF fillStatus
    <3>2. isFinal("EXECUTED")
      BY DEF isFinal, FINAL_STATUSES
    <3>3. OpenSells' = R
      BY <1>1, <2>1, <3>1, <3>2, OpenSellsChange
    <3>4. PICK z \in Int : z = Quantity[o] - (f + l.qty)
      BY <1>4
    <3>5. position' = unreserveShares(z)
      BY <1>1, <1>8, <2>13, <3>4 DEF SharesAfterFill
    <3>6. z = 0
      BY <1>4, <2>13, <3>4
    <3>7. position'.quantity = position.quantity /\ position'.reserved = position.reserved
      <4>1. /\ position'.quantity = position.quantity
            /\ position'.reserved = Floor(position.reserved - z)
        BY <3>5, <3>6, PositionTypes
      <4>2. position.reserved - z = position.reserved /\ position.reserved \in Int
        BY <1>3, <3>6
      <4> QED
        BY <1>3, <4>1, <4>2, FloorType
    <3>8. position'.reserved >= Qtys(Unsettled("SELL")') + Open(filled', OpenSells')
      <4>1. Open(filled', OpenSells') = Open(filled, R)
        BY <2>5, <2>10, <3>3
      <4> QED
        BY ONLY <1>1, <1>3, <1>4, <1>5, <1>6, <2>8, <2>12, <2>13, <3>7, <4>1
    <3> QED
      BY <1>6, <3>7, <3>8, HeldStep
  <2>14. CASE f + l.qty # Quantity[o]
    <3>1. fillStatus(f, l.qty, Quantity[o]) = "PARTIALLY_EXECUTED"
      BY <1>1, <1>4, <2>14 DEF fillStatus
    <3>2. "PARTIALLY_EXECUTED" # "none" /\ ~isFinal("PARTIALLY_EXECUTED")
      BY DEF isFinal, FINAL_STATUSES
    <3>3. OpenSells' = R \cup {o}
      BY <1>1, <1>8, <2>4, <3>1, <3>2, OpenSellsChange
    <3>4. position' = position
      BY <1>1, <1>8, <2>14 DEF SharesAfterFill
    <3>5. position'.reserved >= Qtys(Unsettled("SELL")') + Open(filled', OpenSells')
      <4>1. Open(filled', OpenSells') = Open(filled, R) + (Quantity[o] - (filled[o] + l.qty))
        BY <2>5, <2>9, <2>10, <2>11, <3>3
      <4> QED
        BY ONLY <1>3, <1>4, <1>5, <1>6, <2>8, <2>12, <3>4, <4>1
    <3> QED
      BY <1>6, <3>4, <3>5, HeldStep
  <2> QED
    BY <2>13, <2>14
<1>9. side[o] \in {"BUY", "SELL"}
  BY <1>1 DEF StateInv, StateType
<1> QED
  BY <1>7, <1>8, <1>9

LEMMA SettlesHolds ==
  ASSUME StateInv, Counted, Held, NEW l \in Lines, Settles(l)
  PROVE  Held'
<1>1. /\ executions[l] = "UNSETTLED" /\ executions' = [executions EXCEPT ![l] = "SETTLED"]
      /\ side' = side /\ status' = status /\ filled' = filled /\ l.order \in OrderIds
  BY DEF Settles, orders
<1>2. OpenSells' = OpenSells
  BY <1>1 DEF OpenSells, Live, BUYs, isFinal
<1>3. position.quantity \in Nat /\ position.pending \in Nat /\ position.reserved \in Nat
  BY PositionTypes
<1>4. l.qty \in Nat
  OBVIOUS
<1>5. Qtys(Unsettled("SELL")) \in Nat /\ Open(filled, OpenSells) \in Nat
  BY HeldTypes
<1>6. /\ position.reserved >= Qtys(Unsettled("SELL")) + Open(filled, OpenSells)
      /\ position.reserved <= position.quantity
  BY DEF Held
<1>7. CASE side[l.order] = "BUY" /\ settleBuyShares(l)
  <2>1. Unsettled("SELL")' = Unsettled("SELL")
    BY <1>1, <1>7, UnsettledChanges
  <2>2. /\ position'.reserved = position.reserved
        /\ position'.quantity = position.quantity + l.qty
    BY <1>3, <1>4, <1>7 DEF settleBuyShares, StateInv, StateType
  <2>3. position'.reserved >= Qtys(Unsettled("SELL")') + Open(filled', OpenSells')
    BY <1>1, <1>2, <1>6, <2>1, <2>2
  <2>4. position'.reserved <= position'.quantity
    BY <1>3, <1>4, <1>6, <2>2
  <2> QED
    BY <2>3, <2>4, HeldStep
<1>8. CASE side[l.order] = "SELL" /\ settleSellShares(l)
  <2>1. /\ Qtys(Unsettled("SELL")') = Qtys(Unsettled("SELL")) - l.qty
        /\ Qtys(Unsettled("SELL")') \in Nat
    <3>1. PICK U : U = Unsettled("SELL")
      OBVIOUS
    <3>2. U \subseteq Lines /\ l \in U
      BY <1>1, <1>8, <3>1, HeldTypes, UnsettledChanges
    <3>3. Qtys(U \ {l}) = Qtys(U) - l.qty
      BY <3>2, LineSums
    <3>4. Qtys(U \ {l}) \in Nat
      <4>1. U \ {l} \subseteq Lines
        BY <3>2
      <4> QED
        BY <4>1, LineSums
    <3>5. Unsettled("SELL")' = U \ {l}
      <4>1. /\ executions'[l] # "UNSETTLED" /\ side' = side
            /\ \A m \in Lines \ {l} : executions'[m] = executions[m]
        BY <1>1 DEF StateInv, StateType
      <4> QED
        BY <3>1, <4>1, UnsettledLeaves
    <3> QED
      BY <3>1, <3>3, <3>4, <3>5
  <2>2. position.reserved - l.qty >= 0 /\ position.quantity - l.qty >= 0
    BY <1>3, <1>4, <1>5, <1>6, <2>1
  <2>3. /\ Floor(position.reserved - l.qty) = position.reserved - l.qty
        /\ Floor(position.quantity - l.qty) = position.quantity - l.qty
    BY <1>3, <1>4, <2>2, FloorType
  <2>4. /\ position'.reserved = position.reserved - l.qty
        /\ position'.quantity = position.quantity - l.qty
    BY <1>3, <1>4, <1>8, <2>3 DEF settleSellShares, StateInv, StateType
  <2>5. position'.reserved >= Qtys(Unsettled("SELL")') + Open(filled', OpenSells')
    BY <1>1, <1>2, <1>3, <1>4, <1>5, <1>6, <2>1, <2>4
  <2>6. position'.reserved <= position'.quantity
    BY <1>3, <1>4, <1>6, <2>4
  <2> QED
    BY <2>5, <2>6, HeldStep
<1> QED
  BY <1>7, <1>8 DEF Settles

LEMMA FailsHolds ==
  ASSUME StateInv, Counted, Held, NEW l \in Lines, Fails(l), executions[l] = "UNSETTLED"
  PROVE  Held'
<1> DEFINE o == l.order
<1>1. /\ executions' = [executions EXCEPT ![l] = "FAILED"]
      /\ status' = [status EXCEPT ![o] = "ADJUSTED"]
      /\ filled' = [filled EXCEPT ![o] = Recount(o, l)]
      /\ position' = SharesAfterFailure(l)
      /\ side' = side /\ o \in OrderIds
  BY DEF Fails
<1>2. \A u \in OrderIds \ {o} : filled'[u] = filled[u]
  BY <1>1 DEF StateInv, StateType
<1>3. position.quantity \in Nat /\ position.pending \in Nat /\ position.reserved \in Nat
  BY PositionTypes
<1>4. l.qty \in Nat
  OBVIOUS
<1>5. Qtys(Unsettled("SELL")) \in Nat /\ Open(filled, OpenSells) \in Nat
  BY HeldTypes
<1>6. /\ position.reserved >= Qtys(Unsettled("SELL")) + Open(filled, OpenSells)
      /\ position.reserved <= position.quantity
  BY DEF Held
<1>7. PICK R : R = OpenSells \ {o}
  OBVIOUS
<1>8. /\ R \subseteq OrderIds /\ Open(filled, R) \in Nat
      /\ Open(filled, OpenSells) >= Open(filled, R)
  <2>1. Within(filled) /\ OpenSells \subseteq OrderIds
    BY HeldTypes
  <2>2. R \subseteq OrderIds
    BY <1>7, <2>1
  <2>3. Open(filled, R) \in Nat
    BY <2>1, <2>2, OpenSums
  <2>4. CASE o \in OpenSells
    <3>1. Open(filled, OpenSells) = (Quantity[o] - filled[o]) + Open(filled, R)
      BY <1>7, <2>1, <2>4, OpenSums
    <3>2. Quantity[o] - filled[o] \in Nat
      BY <1>1, <2>1, <2>2, OpenSums
    <3> QED
      BY <1>5, <2>2, <2>3, <3>1, <3>2
  <2>5. CASE o \notin OpenSells
    <3>1. R = OpenSells
      BY <1>7, <2>5
    <3> QED
      BY <1>5, <2>2, <2>3, <3>1
  <2> QED
    BY <2>4, <2>5
<1>9. OpenSells' = R
  <2>1. isFinal("ADJUSTED")
    BY DEF isFinal, FINAL_STATUSES
  <2> QED
    BY <1>1, <1>7, <2>1, OpenSellsChange
<1>10. Open(filled', OpenSells') = Open(filled, R)
  <2>1. PICK fl : fl = filled'
    OBVIOUS
  <2>2. \A u \in R : fl[u] = filled[u]
    BY <1>2, <1>7, <1>8, <2>1
  <2>3. Open(fl, R) = Open(filled, R)
    BY <1>8, <2>2, OpenSame
  <2> QED
    BY <1>9, <2>1, <2>3
<1>11. CASE side[o] = "BUY"
  <2>1. Unsettled("SELL")' = Unsettled("SELL")
    BY <1>1, <1>11, UnsettledChanges
  <2>2. position'.reserved = position.reserved /\ position'.quantity = position.quantity
    BY <1>1, <1>3, <1>11 DEF SharesAfterFailure, StateInv, StateType
  <2>3. position'.reserved >= Qtys(Unsettled("SELL")') + Open(filled', OpenSells')
    BY <1>3, <1>5, <1>6, <1>8, <1>10, <2>1, <2>2
  <2> QED
    BY <1>6, <2>2, <2>3, HeldStep
<1>12. CASE side[o] = "SELL"
  <2>1. /\ Qtys(Unsettled("SELL")') = Qtys(Unsettled("SELL")) - l.qty
        /\ Qtys(Unsettled("SELL")') \in Nat
    <3>1. PICK U : U = Unsettled("SELL")
      OBVIOUS
    <3>2. U \subseteq Lines /\ l \in U
      BY <1>1, <1>12, <3>1, HeldTypes, UnsettledChanges
    <3>3. Qtys(U \ {l}) = Qtys(U) - l.qty
      BY <3>2, LineSums
    <3>4. Qtys(U \ {l}) \in Nat
      <4>1. U \ {l} \subseteq Lines
        BY <3>2
      <4> QED
        BY <4>1, LineSums
    <3>5. Unsettled("SELL")' = U \ {l}
      <4>1. /\ executions'[l] # "UNSETTLED" /\ side' = side
            /\ \A m \in Lines \ {l} : executions'[m] = executions[m]
        BY <1>1 DEF StateInv, StateType
      <4> QED
        BY <3>1, <4>1, UnsettledLeaves
    <3> QED
      BY <3>1, <3>3, <3>4, <3>5
  <2>2. position.reserved - l.qty \in Int /\ position.reserved - l.qty >= 0
    BY <1>3, <1>4, <1>5, <1>6, <2>1
  <2>3. Floor(position.reserved - l.qty) = position.reserved - l.qty
    BY <2>2, FloorType
  <2>4. position'.reserved = position.reserved - l.qty /\ position'.quantity = position.quantity
    <3>1. position' = unreserveShares(l.qty)
      BY <1>1, <1>12 DEF SharesAfterFailure
    <3>2. l.qty \in Int
      BY <1>4
    <3> QED
      BY <2>3, <3>1, <3>2, PositionTypes
  <2>5. position'.reserved >= Qtys(Unsettled("SELL")') + Open(filled', OpenSells')
    BY <1>3, <1>4, <1>5, <1>6, <1>8, <1>10, <2>1, <2>4
  <2>6. position'.reserved <= position'.quantity
    BY <1>3, <1>4, <1>6, <2>4
  <2> QED
    BY <2>5, <2>6, HeldStep
<1>13. side[o] \in {"BUY", "SELL"}
  BY <1>1 DEF StateInv, StateType
<1> QED
  BY <1>11, <1>12, <1>13

\* An order that is revived stays so, and no order changes sides.
LEMMA RevivedLasts == SerialEffect => revived \subseteq revived' /\ side' = side
BY DEF SerialEffect, Nothing, orders, Places, ClosesWell, Closes, Marks, Transmits,
       ExecutesWell, Executes, Settles, Fails

\* As long as no SELL has been revived.
LEMMA HeldKeeps ==
  ASSUME StateInv, Counted, revived \subseteq BUYs => Held, SerialEffect, (revived \subseteq BUYs)'
  PROVE  Held'
<1>1. ASSUME position' = position, executions' = executions, filled' = filled,
             OpenSells' = OpenSells, Held
      PROVE  Held'
  BY <1>1, StillHeld, PositionTypes, RevivedLasts
<1>5. Held /\ revived' \subseteq BUYs
  BY RevivedLasts DEF BUYs
<1>6. ASSUME \A u : u \in Live' <=> u \in Live
      PROVE  OpenSells' = OpenSells
  BY <1>6, RevivedLasts DEF OpenSells, BUYs
<1>2. CASE Nothing
  BY <1>1, <1>2, <1>5, <1>6 DEF Nothing, orders, Live, isFinal
<1>3. ASSUME NEW o \in OrderIds, NEW to \in Statuses, Marks(o, to), o \in Live \cup revived'
      PROVE  Held'
  <2>1. /\ status' = [status EXCEPT ![o] = to] /\ to # "none" /\ ~isFinal(to)
        /\ position' = position /\ executions' = executions /\ side' = side /\ filled' = filled
    BY <1>3 DEF Marks, Statuses, OPEN_AT_SDB, FINAL_STATUSES
  <2>2. CASE o \in Live
    <3>1. status'[o] = to /\ \A u \in OrderIds \ {o} : status'[u] = status[u]
      BY <2>1 DEF StateInv, StateType
    <3>2. \A u : u \in Live' <=> u \in OrderIds /\ status'[u] # "none" /\ ~isFinal(status'[u])
      BY DEF Live, isFinal
    <3>3. \A u : u \in Live' <=> u \in Live
      BY <2>1, <2>2, <3>1, <3>2 DEF Live
    <3> QED
      BY <1>1, <1>5, <1>6, <2>1, <3>3
  <2>3. CASE o \in revived'
    <3>1. side[o] = "BUY"
      BY <1>5, <2>3 DEF BUYs
    <3>2. OpenSells' = OpenSells
      BY <2>1, <3>1, OpenSellsChange
    <3> QED
      BY <1>1, <1>5, <2>1, <3>2
  <2> QED
    BY <1>3, <2>2, <2>3
<1>4. ASSUME NEW S \in SUBSET OrderIds, Transmits(S), \A o \in S : status[o] = "PENDING"
      PROVE  Held'
  <2>1. /\ status' = [o \in OrderIds |-> IF o \in S THEN "TRANSMITTED" ELSE status[o]]
        /\ position' = position /\ executions' = executions /\ side' = side /\ filled' = filled
    BY <1>4 DEF Transmits
  <2>2. \A u : u \in Live' <=> u \in OrderIds /\ status'[u] # "none" /\ ~isFinal(status'[u])
    BY DEF Live, isFinal
  <2>3. "TRANSMITTED" # "none" /\ ~isFinal("TRANSMITTED")
    BY DEF isFinal, FINAL_STATUSES
  <2>4. "PENDING" # "none" /\ ~isFinal("PENDING")
    BY OpenIsLive
  <2>5. \A u : u \in Live' <=> u \in Live
    BY <1>4, <2>1, <2>2, <2>3, <2>4 DEF Live
  <2> QED
    BY <1>1, <1>5, <1>6, <2>1, <2>5
<1> QED
  BY <1>2, <1>3, <1>4, <1>5, PlacesHolds, ClosesHolds, ExecutesHolds, SettlesHolds, FailsHolds
  DEF SerialEffect

-----------------------------------------------------------------------------
(* What holds as long as handlers have not overlapped                      *)

\* The shares are no longer held once an ACK file has revived a SELL.
HeldInv == revived \subseteq BUYs => Held
SerialInv == ~overlapped => Serial /\ Counted /\ Released /\ Spent /\ HeldInv

LEMMA InitSerial == Init => SerialInv
<1> SUFFICES ASSUME Init PROVE Serial /\ Counted /\ Released /\ Spent /\ HeldInv
  BY DEF SerialInv
<1>1. Base
  BY InitBase
<1>2. /\ \A w \in Workers : h[w] = Idle
      /\ \A o \in OrderIds : status[o] = "none" /\ filled[o] = 0
      /\ \A l \in Lines : executions[l] = "none"
      /\ position.quantity = Shares /\ position.reserved = 0 /\ journal = {}
  BY DEF Init
<1>3. Serial
  BY <1>2, IdleIsCurrent DEF Serial
<1>4. Qtys({}) = 0 /\ Amounts({}) = 0
  BY SumOfNothing DEF Qtys, Amounts
<1>5. \A o : Standing(o) = {}
  BY <1>2 DEF Standing, LinesOf
<1>6. Counted
  BY <1>2, <1>4, <1>5 DEF Counted
<1>7. Released
  BY <1>2 DEF Released
<1>8. Live = {}
  BY <1>2 DEF Live
<1>9. Spent
  <2> SUFFICES ASSUME NEW o \in OrderIds
               PROVE  ReserveLeft(o) >= 0
    BY <1>8 DEF Spent
  <2> DEFINE g == [r \in PostingsOf(o) |-> r.delta["reserved"]]
  <2>1. PostingsOf(o) = {}
    BY <1>2 DEF PostingsOf
  <2>2. SumFunction(g) = SumFunctionOnSet(g, PostingsOf(o))
    BY SumOnDomain
  <2>3. SumFunctionOnSet(g, {}) = 0
    BY SumOfNothing
  <2> QED
    BY <2>1, <2>2, <2>3 DEF ReserveLeft
<1>10. Held
  <2>1. Unsettled("SELL") = {} /\ OpenSells = {}
    BY <1>2, <1>8 DEF Unsettled, OpenSells
  <2>2. Open(filled, {}) = 0
    BY SumOfNothing DEF Open
  <2>3. Qtys(Unsettled("SELL")) = 0 /\ Open(filled, OpenSells) = 0
    BY <1>4, <2>1, <2>2
  <2> QED
    BY <1>2, <2>3 DEF Held
<1> QED
  BY <1>3, <1>6, <1>7, <1>9, <1>10 DEF HeldInv

LEMMA SerialStutters == SerialInv /\ UNCHANGED vars => SerialInv'
<1> SUFFICES ASSUME SerialInv, UNCHANGED vars, ~overlapped
             PROVE  (Serial /\ Counted /\ Released /\ Spent /\ HeldInv)'
  BY DEF SerialInv, vars
<1>1. /\ side' = side /\ status' = status /\ filled' = filled /\ executions' = executions
      /\ position' = position /\ journal' = journal /\ h' = h /\ revived' = revived
  BY DEF vars, orders, ledger
<1>2. Serial /\ Counted /\ Released /\ Spent /\ HeldInv
  BY DEF SerialInv
<1>3. \A o : Standing(o)' = Standing(o)
  BY <1>1, SameStanding
<1>4. Live' = Live
  BY <1>1 DEF Live, isFinal
<1>5. Serial'
  <2>1. \A x : Current(x)' <=> Current(x)
    BY <1>1, <1>3, <1>4 DEF Current, consumedReserve
  <2> QED
    BY <1>1, <1>2, <2>1 DEF Serial
<1>6. Counted'
  BY <1>1, <1>2, StillCounted
<1>7. Released'
  BY <1>1, <1>2 DEF Released, isFinal
<1>8. Spent'
  BY <1>1, <1>2, <1>3, <1>4 DEF Spent, ReserveLeft, PostingsOf, Amounts, Amount
<1>9. HeldInv'
  <2>1. Unsettled("SELL")' = Unsettled("SELL") /\ OpenSells' = OpenSells
    BY <1>1, <1>4 DEF Unsettled, OpenSells, BUYs
  <2> QED
    BY <1>1, <1>2, <2>1, HeldStep DEF HeldInv, Held, BUYs
<1> QED
  BY <1>5, <1>6, <1>7, <1>8, <1>9

LEMMA SerialStep == Base /\ SerialInv /\ [Next]_vars => SerialInv'
<1> SUFFICES ASSUME Base, SerialInv, Next, ~overlapped'
             PROVE  SerialInv'
  BY SerialStutters DEF SerialInv
<1>1. Serial' /\ SerialEffect /\ ~overlapped
  BY NextSerially DEF SerialInv
<1>2. StateInv /\ Counted /\ Released /\ Spent /\ HeldInv
  BY <1>1 DEF SerialInv, Base
<1> QED
  BY <1>1, <1>2, CountedKeeps, SpendsKeep, HeldKeeps DEF SerialInv, HeldInv

LEMMA HoldsSerially == Spec => [](Base /\ SerialInv)
BY InitBase, InitSerial, BaseStep, SerialStep, PTL DEF Spec

\* The counter of an order is the quantity of its executions that stand, after
\* any sequence of fills and delivery failures (applyFill, failSettlement), and
\* never more than was ordered, when handlers do not overlap.
THEOREM CountersHold == Spec => []FilledIsExecuted
<1>1. Base /\ SerialInv => FilledIsExecuted
  BY StandingSums DEF SerialInv, Counted, FilledIsExecuted
<1> QED
  BY <1>1, HoldsSerially, PTL

\* A BUY spends and frees its own reserve, and nothing of the user's other orders
\* (reserveCash, postFill, releaseRemaining, reverseFill), when handlers do not
\* overlap and no ACK file acknowledged it after it was final.
THEOREM SpendsItsOwn == Spec => []OrderSpendsItsOwn
<1>1. Base /\ SerialInv => OrderSpendsItsOwn
  BY StandingSums DEF SerialInv, Spent, OrderSpendsItsOwn, BUYs
<1> QED
  BY <1>1, HoldsSerially, PTL

Bounded == position.reserved <= position.quantity

LEMMA BoundedLasts ==
  ASSUME StateInv, Bounded, Effect
  PROVE  Bounded'
<1>1. /\ position.quantity \in Nat /\ position.pending \in Nat /\ position.reserved \in Nat
      /\ position = [quantity |-> position.quantity, pending |-> position.pending,
                     reserved |-> position.reserved]
  BY DEF StateInv, StateType
<1>2. ASSUME NEW n \in Int, position' = unreserveShares(n)
      PROVE  Bounded'
  <2>1. /\ position'.quantity = position.quantity /\ position'.reserved <= position.reserved
        /\ position'.reserved \in Nat
    BY <1>2, PositionTypes
  <2> QED
    BY <1>1, <2>1 DEF Bounded
<1>3. ASSUME position'.reserved = position.reserved, position'.quantity = position.quantity
      PROVE  Bounded'
  BY <1>3 DEF Bounded
<1>4. CASE Nothing
  BY <1>3, <1>4 DEF Nothing
<1>5. ASSUME NEW o \in OrderIds, Places(o)
      PROVE  Bounded'
  <2>1. CASE reserveCash(o)
    BY <1>3, <2>1 DEF reserveCash
  <2>2. CASE reserveShares(o)
    <3>1. /\ position.quantity - position.reserved >= Quantity[o] /\ Quantity[o] \in Nat
          /\ position'.quantity = position.quantity
          /\ position'.reserved = position.reserved + Quantity[o]
      BY <1>1, <2>2 DEF reserveShares
    <3> QED
      BY <1>1, <3>1 DEF Bounded
  <2> QED
    BY <1>5, <2>1, <2>2 DEF Places
<1>6. ASSUME NEW o \in OrderIds, NEW f \in Nat, NEW to \in Statuses, Closes(o, f, to)
      PROVE  Bounded'
  <2>1. position' = position \/ position' = unreserveShares(Quantity[o] - f)
    BY <1>6 DEF Closes, releaseRemaining
  <2>2. Quantity[o] - f \in Int
    OBVIOUS
  <2> QED
    BY <1>2, <1>3, <2>1, <2>2
<1>7. ASSUME NEW o \in OrderIds, NEW to \in Statuses, Marks(o, to)
      PROVE  Bounded'
  BY <1>3, <1>7 DEF Marks
<1>8. ASSUME NEW S \in SUBSET OrderIds, Transmits(S)
      PROVE  Bounded'
  BY <1>3, <1>8 DEF Transmits
<1>9. ASSUME NEW l \in Lines, NEW f \in Nat, NEW n \in Nat, Executes(l, f, n)
      PROVE  Bounded'
  <2>1. position' = SharesAfterFill(l.order, f, f + l.qty, n + l.qty)
    BY <1>9 DEF Executes
  <2>2. Quantity[l.order] - (f + l.qty) \in Int
    OBVIOUS
  <2>3. \/ position' = [position EXCEPT !.pending = n + l.qty]
        \/ position' = unreserveShares(Quantity[l.order] - (f + l.qty))
        \/ position' = position
    BY <2>1 DEF SharesAfterFill
  <2> QED
    BY <1>1, <1>2, <1>3, <2>2, <2>3
<1>10. ASSUME NEW l \in Lines, Settles(l)
       PROVE  Bounded'
  <2>1. l.qty \in Nat
    OBVIOUS
  <2>2. CASE settleBuyShares(l)
    <3>1. /\ position'.reserved = position.reserved
          /\ position'.quantity = position.quantity + l.qty
      BY <1>1, <2>2 DEF settleBuyShares
    <3> QED
      BY <1>1, <2>1, <3>1 DEF Bounded
  <2>3. CASE settleSellShares(l)
    <3>1. /\ position'.reserved = Floor(position.reserved - l.qty)
          /\ position'.quantity = Floor(position.quantity - l.qty)
      BY <1>1, <2>3 DEF settleSellShares
    <3> QED
      BY <1>1, <2>1, <3>1 DEF Bounded, Floor
  <2> QED
    BY <1>10, <2>2, <2>3 DEF Settles
<1>11. ASSUME NEW l \in Lines, Fails(l)
       PROVE  Bounded'
  <2>1. position' = SharesAfterFailure(l) /\ l.qty \in Int
    BY <1>11 DEF Fails
  <2>2. CASE side[l.order] = "BUY"
    BY <1>1, <1>3, <2>1, <2>2 DEF SharesAfterFailure
  <2>3. CASE side[l.order] # "BUY"
    BY <1>2, <2>1, <2>3 DEF SharesAfterFailure
  <2> QED
    BY <2>2, <2>3
<1> QED
  BY <1>4, <1>5, <1>6, <1>7, <1>8, <1>9, <1>10, <1>11 DEF Effect

\* Never more is reserved than is held, however handlers overlap; and the shares of
\* a SELL stay reserved until they are settled, so that they cannot be sold twice
\* (reserveShares, releaseRemaining, settleSellShares, SharesAfterFailure), when
\* handlers do not overlap and no ACK file acknowledged a SELL that was final.
THEOREM SharesHold == Spec => []SharesStayReserved
<1>1. Init => Bounded
  BY DEF Init, Bounded
<1>2. Base /\ Bounded /\ [Next]_vars => Bounded'
  <2>1. ASSUME Base, Bounded, UNCHANGED vars
        PROVE  Bounded'
    BY <2>1 DEF Bounded, vars
  <2> QED
    BY <2>1, EffectOfSteps, BoundedLasts DEF Base
<1>3. Base /\ SerialInv /\ Bounded => SharesStayReserved
  BY ForSale DEF SerialInv, HeldInv, Held, Bounded, SharesStayReserved
<1> QED
  BY <1>1, <1>2, <1>3, HoldsSerially, PTL DEF Spec

-----------------------------------------------------------------------------
(* The promise of the ledger, from the cash the user starts with           *)

Promise == INSTANCE AtomicLedger WITH UserAccounts <- {"available", "reserved", "settling"}

NobodyOwes == \A a \in {"available", "reserved", "settling"} : balance[a] >= 0

\* The sums of the promise are those of this module.
LEMMA SamePromise ==
  /\ \A f, S : Promise!SumFunctionOnSet(f, S) = SumFunctionOnSet(f, S)
  /\ \A f : Promise!SumFunction(f) = SumFunction(f)
BY Zenon DEF Promise!SumFunctionOnSet, Promise!SumFunction, Promise!FoldFunctionOnSet,
   Promise!MapThenFoldSet, SumFunctionOnSet, SumFunction, FoldFunctionOnSet, MapThenFoldSet

\* A movement that takes from one account what it gives to another.
Transfers(d) ==
  /\ d \in Movement
  /\ \E from, to \in Accounts : /\ from # to /\ d[from] = -d[to]
                                /\ \A a \in Accounts \ {from, to} : d[a] = 0

LEMMA TransfersBalance ==
  ASSUME NEW d, Transfers(d)
  PROVE  SumFunctionOnSet(d, Accounts) = 0
<1>1. PICK from \in Accounts, to \in Accounts :
        from # to /\ d[from] = -d[to] /\ \A a \in Accounts \ {from, to} : d[a] = 0
  BY Zenon DEF Transfers
<1> DEFINE rest == Accounts \ {from, to}
<1>2. \A a \in Accounts : d[a] \in Int
  BY DEF Transfers, Movement
<1>3. IsFiniteSet(Accounts)
  <2>1. IsFiniteSet({"available"} \cup {"reserved"}) /\ IsFiniteSet({"settling"} \cup {"clearing"})
    BY FS_Singleton, FS_Union
  <2>2. IsFiniteSet(({"available"} \cup {"reserved"}) \cup ({"settling"} \cup {"clearing"}))
    BY <2>1, FS_Union
  <2>3. Accounts = ({"available"} \cup {"reserved"}) \cup ({"settling"} \cup {"clearing"})
    BY DEF Accounts
  <2> QED
    BY <2>2, <2>3
<1>4. IsFiniteSet(Accounts \ {from}) /\ IsFiniteSet(rest)
  BY <1>3, FS_Difference
<1>5. (Accounts \ {from}) \ {to} = rest /\ to \in Accounts \ {from}
  BY <1>1
<1>6. SumFunctionOnSet(d, Accounts) = d[from] + SumFunctionOnSet(d, Accounts \ {from})
  BY <1>2, <1>3, SumRemove
<1>7. SumFunctionOnSet(d, Accounts \ {from}) = d[to] + SumFunctionOnSet(d, rest)
  <2>1. \A a \in Accounts \ {from} : d[a] \in Int
    BY <1>2
  <2> QED
    BY <1>4, <1>5, <2>1, SumRemove
<1>8. SumFunctionOnSet(d, rest) = 0
  BY <1>1, <1>4, SumOfZeros
<1>9. d[from] \in Int /\ d[to] \in Int /\ d[from] = -d[to]
  BY <1>1, <1>2
<1> QED
  BY <1>6, <1>7, <1>8, <1>9

LEMMA MoveTransfers ==
  ASSUME NEW x \in Int, NEW from \in Accounts, NEW to \in Accounts, from # to
  PROVE  Transfers(Move(x, from, to))
<1> DEFINE d == Move(x, from, to)
<1>1. d \in Movement /\ d[from] = -x /\ d[to] = x /\ \A a \in Accounts \ {from, to} : d[a] = 0
  BY MoveFields
<1> HIDE DEF d
<1>2. Transfers(d)
  BY <1>1 DEF Transfers
<1> QED
  BY <1>2 DEF d

\* What cancels a transfer is one.
LEMMA OppositeTransfers ==
  ASSUME NEW d, NEW e \in Movement, Transfers(d), \A a \in Accounts : e[a] = -d[a]
  PROVE  Transfers(e)
<1>1. PICK from \in Accounts, to \in Accounts :
        from # to /\ d[from] = -d[to] /\ \A a \in Accounts \ {from, to} : d[a] = 0
  BY Zenon DEF Transfers
<1>2. \A a \in Accounts : d[a] \in Int /\ e[a] \in Int
  BY DEF Transfers, Movement
<1>3. e[from] = -e[to] /\ \A a \in Accounts \ {from, to} : e[a] = 0
  BY <1>1, <1>2
<1> QED
  BY <1>1, <1>3, Zenon DEF Transfers

\* The original that a reversal cancels is in the journal.
Cancels(p) == \E o \in journal : /\ o.key = p.key /\ ~o.rev
                                 /\ \A a \in Accounts : p.delta[a] = -o.delta[a]

\* A transaction of postings under keys of their own that overdraws nobody is a step of
\* the promise.
LEMMA PostAllApplies ==
  ASSUME StateInv, NobodyOwes, NEW P, IsFiniteSet(P), Book!PostAll(P),
         \A p \in P : Transfers(p.delta) /\ (p.rev => Cancels(p)),
         \A p, q \in P : p.key = q.key /\ p.rev = q.rev => p = q
  PROVE  NobodyOwes' /\ [Promise!Apply]_ledger
<1> DEFINE F == Fresh(P)
           val(a) == [p \in F |-> p.delta[a]]
<1>1. /\ journal' = journal \cup F
      /\ balance' = [a \in Accounts |-> balance[a] + Moved(P, a)]
  BY PostAllPosts
<1>2. F \subseteq P /\ F \cap journal = {}
  BY FreshPart
<1>3. \A p \in P : p.delta \in Movement
  BY DEF Transfers
<1>4. \A a \in Accounts : Moved(P, a) \in Int /\ balance[a] \in Int
  <2>1. \A a \in Accounts : balance[a] \in Int
    BY DEF StateInv, StateType, Movement
  <2> QED
    BY <1>3, <2>1, MovedType
<1>5. NobodyOwes'
  <2>1. ASSUME NEW a \in {"available", "reserved", "settling"}
        PROVE  balance'[a] >= 0
    <3>1. a \in Accounts /\ balance[a] >= 0
      BY AccountNames DEF NobodyOwes
    <3>2. Moved(P, a) < 0 => balance[a] + Moved(P, a) >= 0
      <4> DEFINE G == {p \in P : ~\E r \in journal : r.key = p.key /\ r.rev = p.rev}
                 M == [p \in G |-> p.delta[a]]
      <4>1. Book!SumFunction(M) < 0 => balance[a] + Book!SumFunction(M) >= 0
        BY Zenon DEF Book!PostAll
      <4>2. Book!SumFunction(M) = SumFunction(M) /\ SumFunction(M) = SumFunctionOnSet(M, G)
        BY SameBook, SumOnDomain
      <4>3. SumFunctionOnSet(M, G) = Moved(P, a)
        BY Zenon DEF Moved, Fresh
      <4> QED
        BY <4>1, <4>2, <4>3
    <3>3. balance'[a] = balance[a] + Moved(P, a)
      BY <1>1, <3>1
    <3> QED
      BY <1>4, <3>1, <3>2, <3>3
  <2> QED
    BY <2>1 DEF NobodyOwes
<1>6. CASE F = {}
  <2>1. journal' = journal
    BY <1>1, <1>6
  <2>2. ASSUME NEW a \in Accounts
        PROVE  Moved(P, a) = 0
    BY <1>6, SumOfNothing DEF Moved
  <2>3. balance \in Movement
    BY DEF StateInv, StateType
  <2>4. balance' = balance
    BY <1>1, <1>4, <2>2, <2>3 DEF Movement
  <2> QED
    BY <1>5, <2>1, <2>4 DEF ledger
<1>7. CASE F # {}
  <2>1. journal' \ journal = F /\ journal \subseteq journal'
    BY <1>1, <1>2
  <2>2. ASSUME NEW p \in F
        PROVE  Promise!Balanced(p) /\ Promise!Fits(p, journal')
    <3>1. Promise!Balanced(p)
      BY <1>2, TransfersBalance, SamePromise DEF Promise!Balanced
    <3>2. ASSUME NEW q \in journal', q.key = p.key, q.rev = p.rev
          PROVE  q = p
      <4>1. q \notin journal
        BY <3>2 DEF Fresh
      <4>2. q \in P /\ p \in P
        BY <1>1, <1>2, <4>1
      <4> QED
        BY <3>2, <4>2
    <3>3. p.rev => \E o \in journal' : /\ o.key = p.key /\ ~o.rev
                                       /\ \A a \in Accounts : p.delta[a] = -o.delta[a]
      BY <1>1, <1>2 DEF Cancels
    <3> QED
      BY <3>1, <3>2, <3>3, Zenon DEF Promise!Fits
  <2>3. ASSUME NEW a \in Accounts
        PROVE  Promise!SumFunction(val(a)) = Moved(P, a)
    <3>1. SumFunction(val(a)) = SumFunctionOnSet(val(a), F)
      BY SumOnDomain
    <3>2. Promise!SumFunction(val(a)) = SumFunction(val(a))
      BY SamePromise
    <3> QED
      BY <3>1, <3>2, Zenon DEF Moved
  <2>4. balance' = [a \in Accounts |-> balance[a] + Promise!SumFunction(val(a))]
    <3> HIDE DEF val
    <3> QED
      BY <1>1, <2>3
  <2>5. Promise!Apply
    <3> HIDE DEF F
    <3> QED
      BY <1>5, <1>7, <2>1, <2>2, <2>4, Zenon DEF Promise!Apply, NobodyOwes
  <2> QED
    BY <1>5, <2>5
<1> QED
  BY <1>6, <1>7

\* A transaction of one posting.
LEMMA PostOneApplies ==
  ASSUME StateInv, NobodyOwes, NEW p, Transfers(p.delta), p.rev = FALSE, Book!PostAll({p})
  PROVE  NobodyOwes' /\ [Promise!Apply]_ledger
<1>1. IsFiniteSet({p}) /\ \A q \in {p} : Transfers(q.delta) /\ (q.rev => Cancels(q))
  BY FS_Singleton
<1>2. \A q, r \in {p} : q.key = r.key /\ q.rev = r.rev => q = r
  OBVIOUS
<1> QED
  BY <1>1, <1>2, PostAllApplies

\* Each kind of posting takes from an account what it gives to another.
LEMMA PostingsTransfer ==
  /\ \A o \in OrderIds : /\ Transfers(Reserve(o).delta)
                         /\ \A n \in Int : Transfers(Release(o, n).delta)
  /\ \A l \in Lines : /\ Transfers(Fill(l).delta) /\ Transfers(Payment(l).delta)
                      /\ Transfers(Repayment(l).delta)
<1>1. ASSUME NEW o \in OrderIds, NEW n \in Int
      PROVE  Transfers(Reserve(o).delta) /\ Transfers(Release(o, n).delta)
  <2>1. MaxAmount[o] \in Int
    OBVIOUS
  <2>2. /\ Reserve(o).delta = Move(MaxAmount[o], "available", "reserved")
        /\ Release(o, n).delta = Move(n, "reserved", "available")
    BY DEF Reserve, Release, Book!Posting
  <2> QED
    BY <2>1, <2>2, AccountNames, MoveTransfers
<1>2. ASSUME NEW l \in Lines
      PROVE  /\ Transfers(Fill(l).delta) /\ Transfers(Payment(l).delta)
             /\ Transfers(Repayment(l).delta)
  <2>1. l.amount \in Int
    OBVIOUS
  <2>2. Transfers(Move(l.amount, "reserved", "clearing"))
    BY <2>1, AccountNames, MoveTransfers
  <2>3. Transfers(Move(l.amount, "clearing", "settling"))
    BY <2>1, AccountNames, MoveTransfers
  <2>4. Transfers(Move(l.amount, "settling", "available"))
    BY <2>1, AccountNames, MoveTransfers
  <2>5. Transfers(Move(l.amount, "reserved", "available"))
    BY <2>1, AccountNames, MoveTransfers
  <2>6. Transfers(Fill(l).delta)
    BY <2>2, <2>3 DEF Fill, Book!Posting
  <2>7. Transfers(Payment(l).delta) /\ Transfers(Repayment(l).delta)
    BY <2>4, <2>5 DEF Payment, Repayment, Book!Posting
  <2> QED
    BY <2>6, <2>7
<1>3. 0 \in Int
  OBVIOUS
<1> QED
  BY <1>1, <1>2, <1>3

LEMMA ExecutesApplies ==
  ASSUME StateInv, NobodyOwes, NEW l \in Lines, NEW f \in Nat, NEW n \in Nat, Executes(l, f, n)
  PROVE  NobodyOwes' /\ [Promise!Apply]_ledger
<1> DEFINE P == {Fill(l)} \cup Rest(l, f)
<1>1. Book!PostAll(P) /\ IsFiniteSet(P)
  BY ExecutesPosts, RestIsFinite
<1>2. Fill(l).key[1] = "fill" /\ Fill(l).rev = FALSE /\ Transfers(Fill(l).delta)
  BY FillFields, PostingsTransfer
<1>3. ASSUME NEW q \in Rest(l, f)
      PROVE  /\ q.key[1] = "release" /\ q.rev = FALSE /\ Rest(l, f) = {q}
             /\ Transfers(q.delta)
  <2>1. StateInv /\ l \in Lines /\ f \in Nat /\ q \in Rest(l, f)
    BY <1>3
  <2>2. q.key[1] = "release" /\ q.rev = FALSE /\ Rest(l, f) = {q}
    BY ONLY <2>1, RestFields
  <2>3. q = Release(l.order, Remainder(l)) /\ l.order \in OrderIds /\ Remainder(l) \in Int
    BY <1>3, RestIsFinite DEF Rest
  <2>4. Transfers(q.delta)
    BY ONLY <2>3, PostingsTransfer
  <2> QED
    BY <2>2, <2>4
<1>4. \A p \in P : Transfers(p.delta) /\ p.rev = FALSE
  BY <1>2, <1>3
<1>5. \A p, q \in P : p.key = q.key /\ p.rev = q.rev => p = q
  BY <1>2, <1>3
<1> HIDE DEF P
<1> QED
  BY <1>1, <1>4, <1>5, PostAllApplies

LEMMA FailsApplies ==
  ASSUME StateInv, NobodyOwes, NEW l \in Lines, Fails(l)
  PROVE  NobodyOwes' /\ [Promise!Apply]_ledger
<1> DEFINE P == {Reverse(l)} \cup Back(l)
<1>1. Book!PostAll(P) /\ IsFiniteSet(P) /\ executions[l] # "none"
  BY FailsPosts DEF Fails
<1>2. /\ Reverse(l).key = FillKey(l) /\ Reverse(l).key[1] = "fill" /\ Reverse(l).rev = TRUE
      /\ Reverse(l).delta \in Movement
      /\ \A a \in Accounts : Reverse(l).delta[a] = -Fill(l).delta[a]
  BY <1>1, ReverseFields
<1>3. Fill(l) \in journal /\ Fill(l).key = FillKey(l) /\ Fill(l).rev = FALSE
  <2>1. Traced(l)
    BY DEF StateInv, LineInv
  <2> QED
    BY <1>1, <2>1, FillFields DEF Traced
<1>4. Transfers(Reverse(l).delta) /\ Cancels(Reverse(l))
  <2>1. Transfers(Reverse(l).delta)
    BY <1>2, PostingsTransfer, OppositeTransfers
  <2>2. Cancels(Reverse(l))
    BY <1>2, <1>3 DEF Cancels
  <2> QED
    BY <2>1, <2>2
<1>5. /\ Repayment(l).key[1] = "settlement-fail-release" /\ Repayment(l).rev = FALSE
      /\ Transfers(Repayment(l).delta)
  BY RepaymentFields, PostingsTransfer
<1>6. \A p \in P : p = Reverse(l) \/ p = Repayment(l)
  BY DEF Back
<1>7. \A p \in P : Transfers(p.delta) /\ (p.rev => Cancels(p))
  BY <1>4, <1>5, <1>6
<1>8. \A p, q \in P : p.key = q.key /\ p.rev = q.rev => p = q
  BY <1>2, <1>5, <1>6
<1> HIDE DEF P
<1> QED
  BY <1>1, <1>7, <1>8, PostAllApplies

LEMMA EffectApplies ==
  ASSUME StateInv, NobodyOwes, Effect
  PROVE  NobodyOwes' /\ [Promise!Apply]_ledger
<1>1. CASE UNCHANGED ledger
  BY <1>1 DEF ledger, NobodyOwes
<1>2. ASSUME NEW o \in OrderIds, Places(o), ~UNCHANGED ledger
      PROVE  NobodyOwes' /\ [Promise!Apply]_ledger
  <2>1. Book!PostAll({Reserve(o)})
    BY <1>2 DEF Places, reserveCash, reserveShares, Reserve
  <2>2. Reserve(o).rev = FALSE /\ Transfers(Reserve(o).delta)
    BY ReserveFields, PostingsTransfer
  <2> QED
    BY <2>1, <2>2, PostOneApplies
<1>3. ASSUME NEW o \in OrderIds, NEW f \in Nat, NEW to \in Statuses, Closes(o, f, to),
             ~UNCHANGED ledger
      PROVE  NobodyOwes' /\ [Promise!Apply]_ledger
  <2> DEFINE n == MaxAmount[o] - consumedReserve(o)
  <2>1. Book!PostAll({Release(o, n)})
    BY <1>3 DEF Closes, releaseRemaining, ledger
  <2>2. n \in Int
    BY Fills
  <2> HIDE DEF n
  <2>3. o \in OrderIds /\ n \in Int
    BY <2>2
  <2>4. Release(o, n).rev = FALSE
    BY ONLY <2>3, ReleaseFields
  <2>5. Transfers(Release(o, n).delta)
    BY ONLY <2>3, PostingsTransfer
  <2> QED
    BY <2>1, <2>4, <2>5, PostOneApplies
<1>4. ASSUME NEW l \in Lines, Settles(l), ~UNCHANGED ledger
      PROVE  NobodyOwes' /\ [Promise!Apply]_ledger
  <2>1. Book!PostAll({Payment(l)})
    BY <1>4 DEF Settles, postSellSettlement, Payment
  <2>2. Payment(l).rev = FALSE /\ Transfers(Payment(l).delta)
    BY PaymentFields, PostingsTransfer
  <2> QED
    BY <2>1, <2>2, PostOneApplies
<1>5. Nothing \/ (\E o \in OrderIds, to \in Statuses : Marks(o, to))
        \/ (\E S \in SUBSET OrderIds : Transmits(S)) => UNCHANGED ledger
  BY DEF Nothing, Marks, Transmits
<1> QED
  BY <1>1, <1>2, <1>3, <1>4, <1>5, ExecutesApplies, FailsApplies DEF Effect

\* What the brokerage posts is what the ledger promises to journal, however requests, jobs
\* and files interleave: each transaction of placeOrder, releaseRemaining,
\* applyExecution, settleDue and failSettlement appends balanced postings under keys of
\* their own, cancels only a FILL that is there, and leaves no account of the user
\* below zero.
THEOREM PostsFit == Spec => []NobodyOwes /\ [][Promise!Apply]_ledger
<1>1. Init => NobodyOwes
  BY AccountNames DEF Init, NobodyOwes
<1>2. Base /\ NobodyOwes /\ [Next]_vars => NobodyOwes' /\ [Promise!Apply]_ledger
  <2>1. CASE UNCHANGED vars
    BY <2>1 DEF vars, ledger, NobodyOwes
  <2>2. ASSUME Base, NobodyOwes, Next
        PROVE  NobodyOwes' /\ [Promise!Apply]_ledger
    BY <2>2, EffectOfSteps, EffectApplies DEF Base
  <2> QED
    BY <2>1, <2>2
<1> QED
  BY <1>1, <1>2, InitBase, BaseStep, PTL DEF Spec
=============================================================================
