-------------------------- MODULE BackOfficeProofs --------------------------
(***************************************************************************)
(* What holds of the back office for any staff, handlers, requests, rows,  *)
(* values and stops of the process: the audit chain verifies, an item is   *)
(* written off by two people, a parameter is served no later than TTL      *)
(* after it was in force, retries are bounded, a change of fees leaves no  *)
(* gap, a fee stays within its bounds, a statement misses only what was    *)
(* posted meanwhile or not yet committed, and an order lasts its sessions. *)
(***************************************************************************)
EXTENDS BackOffice, SumLemmas

USE HandlersAssumption

\* What a value is made of, whatever it holds.
Fields == {"op", "id", "who", "seen", "appr"}
IsTask(t) == DOMAIN t = Fields /\ t = [f \in Fields |-> t[f]]
TaskTypes ==
    /\ DOMAIN task = Handlers /\ task = [h \in Handlers |-> task[h]]
    /\ \A h \in Handlers : IsTask(task[h])

Columns == {"state", "action", "target", "decision", "maker", "checker"}
IsRequest(a) == DOMAIN a = Columns /\ a = [c \in Columns |-> a[c]]
RequestTypes ==
    /\ DOMAIN approvals = RequestIds /\ approvals = [r \in RequestIds |-> approvals[r]]
    /\ \A r \in RequestIds : IsRequest(approvals[r])

ChainTypes ==
    /\ \E S : chain \in Seq(S)
    /\ DOMAIN prevHash = Handlers /\ prevHash = [h \in Handlers |-> prevHash[h]]

----------------------------------------------------------------------------
(* The invariant. *)

LastHash == IF chain = <<>> THEN NoHash ELSE chain[Len(chain)].hash
Appending == {"readLast", "insertRow"}

\* Every row follows its predecessor.
Follows(i) ==
    /\ chain[i].prev = IF i = 1 THEN NoHash ELSE chain[i - 1].hash
    /\ chain[i].hash = computeAuditHash(chain[i].prev, chain[i].body)
Linked == \A i \in 1 .. Len(chain) : Follows(i)

\* Two people stand behind a request.
Agreed(r) ==
    /\ approvals[r].state \in {"APPROVED", "EXECUTED", "FAILED"}
    /\ approvals[r].checker \in Checkers \ {approvals[r].maker}
AgreedFor(r, i) ==
    Agreed(r) /\ approvals[r].action = "RECON_WRITE_OFF" /\ approvals[r].target = i

WrittenOff == \A i \in ItemIds : items[i] = "WRITTEN_OFF" => \E r \in RequestIds : AgreedFor(r, i)

\* What a handler relies on at the await it has reached.
HoldsChain(h) ==
    /\ task[h].op \in Appending => chainLock = h
    /\ task[h].op = "insertRow" => prevHash[h] = LastHash
HoldsRequest(h) ==
    /\ task[h].op = "approve" =>
          /\ task[h].id \in RequestIds
          /\ approvals[task[h].id].state # "NONE"
          /\ task[h].who \in Checkers \ {approvals[task[h].id].maker}
    /\ task[h].op = "execute" => task[h].appr \in RequestIds /\ Agreed(task[h].appr)
    /\ task[h].op = "writeOff" => task[h].appr \in RequestIds /\ AgreedFor(task[h].appr, task[h].id)
    /\ task[h].op = "updateItem" => task[h].seen \in Settable
Relies(h) == HoldsChain(h) /\ HoldsRequest(h)

Types ==
    /\ TaskTypes /\ RequestTypes /\ ChainTypes
    /\ items \in [ItemIds -> ItemStates]

Inv ==
    /\ Types
    /\ Linked
    /\ WrittenOff
    /\ \A h \in Handlers : Relies(h)

LEMMA InitInv == Init => Inv
<1> SUFFICES ASSUME Init PROVE Inv
  OBVIOUS
<1>1. \A h \in Handlers : task[h] = Idle
  BY DEF Init, ApprovalsInit
<1>2. IsTask(Idle) /\ IsRequest(NoRequest)
  BY DEF IsTask, Idle, Fields, IsRequest, NoRequest, Columns
<1>3. TaskTypes /\ RequestTypes
  BY <1>2 DEF Init, ApprovalsInit, TaskTypes, RequestTypes
<1>4. chain = <<>> /\ ChainTypes
  <2>1. chain = <<>>
    BY DEF Init, AuditInit
  <2>2. chain \in Seq({})
    BY <2>1
  <2>3. QED
    BY <2>1, <2>2 DEF Init, AuditInit, ChainTypes
<1>5. Linked
  BY <1>4 DEF Linked
<1>6. items \in [ItemIds -> ItemStates] /\ WrittenOff
  BY DEF Init, ReconInit, ItemStates, WrittenOff
<1>7. \A h \in Handlers : Relies(h)
  <2>1. ASSUME NEW h \in Handlers PROVE task[h].op = "idle"
    <3>1. Idle.op = "idle"
      BY DEF Idle
    <3>2. task[h] = Idle
      BY <1>1
    <3>3. QED
      BY <3>1, <3>2
  <2>2. QED
    BY <2>1 DEF Relies, HoldsChain, HoldsRequest, Appending
<1>8. QED
  BY <1>3, <1>4, <1>5, <1>6, <1>7 DEF Inv, Types

----------------------------------------------------------------------------
(* Tasks. *)

\* A step of h leaves the others where they are, and h at one of some steps.
Moves(h, ops) ==
    /\ TaskTypes'
    /\ \A g \in Handlers \ {h} : task'[g] = task[g]
    /\ task'[h].op \in ops

LEMMA SetTask ==
  ASSUME TaskTypes, NEW h \in Handlers, NEW t, IsTask(t), task' = [task EXCEPT ![h] = t]
  PROVE  Moves(h, {t.op}) /\ task'[h] = t
BY DEF TaskTypes, Moves

LEMMA OpTask ==
  ASSUME NEW t, IsTask(t), NEW op
  PROVE  LET u == [t EXCEPT !.op = op] IN
         IsTask(u) /\ u.op = op /\ u.id = t.id /\ u.who = t.who /\ u.seen = t.seen /\ u.appr = t.appr
BY DEF IsTask, Fields

LEMMA GotoMoves ==
  ASSUME TaskTypes, NEW h \in Handlers, NEW op, Goto(h, op)
  PROVE  /\ Moves(h, {op})
         /\ task'[h].id = task[h].id /\ task'[h].who = task[h].who
         /\ task'[h].seen = task[h].seen /\ task'[h].appr = task[h].appr
<1> DEFINE u == [task[h] EXCEPT !.op = op]
<1>1. task' = [task EXCEPT ![h] = u]
  BY DEF Goto
<1>2. IsTask(task[h])
  BY DEF TaskTypes
<1>3. /\ IsTask(u) /\ u.op = op /\ u.id = task[h].id /\ u.who = task[h].who
      /\ u.seen = task[h].seen /\ u.appr = task[h].appr
  BY <1>2, OpTask
<1> HIDE DEF u
<1>4. Moves(h, {u.op}) /\ task'[h] = u
  BY <1>1, <1>3, SetTask
<1>5. QED
  BY <1>3, <1>4

LEMMA DoneMoves ==
  ASSUME TaskTypes, NEW h \in Handlers, Done(h)
  PROVE  Moves(h, {"idle"})
<1>1. IsTask(Idle) /\ Idle.op = "idle"
  BY DEF Idle, IsTask, Fields
<1>2. QED
  BY <1>1, SetTask DEF Done

LEMMA StartMoves ==
  ASSUME TaskTypes, NEW h \in Handlers, NEW op, NEW id, NEW who, NEW seen, NEW appr,
         Start(h, op, id, who, seen, appr)
  PROVE  /\ Moves(h, {op})
         /\ task'[h].id = id /\ task'[h].who = who /\ task'[h].seen = seen /\ task'[h].appr = appr
<1> DEFINE t == [op |-> op, id |-> id, who |-> who, seen |-> seen, appr |-> appr]
<1>1. IsTask(t) /\ t.op = op /\ t.id = id /\ t.who = who /\ t.seen = seen /\ t.appr = appr
  BY DEF IsTask, Fields
<1>2. task' = [task EXCEPT ![h] = t]
  BY DEF Start
<1> HIDE DEF t
<1>3. QED
  BY <1>1, <1>2, SetTask

\* The steps that change more of a task than what comes next.
LEMMA ExceptMoves ==
  ASSUME TaskTypes, NEW h \in Handlers, NEW op, NEW id, NEW seen, NEW appr,
         \/ task' = [task EXCEPT ![h].op = op, ![h].id = id]
         \/ task' = [task EXCEPT ![h].op = op, ![h].seen = seen]
         \/ task' = [task EXCEPT ![h].op = op, ![h].appr = appr]
         \/ task' = [task EXCEPT ![h].op = op, ![h].id = id, ![h].seen = seen]
  PROVE  Moves(h, {op})
<1>1. IsTask(task[h])
  BY DEF TaskTypes
<1>2. CASE task' = [task EXCEPT ![h].op = op, ![h].id = id]
  <2>1. IsTask([task[h] EXCEPT !.op = op, !.id = id]) /\ [task[h] EXCEPT !.op = op, !.id = id].op = op
    BY <1>1 DEF IsTask, Fields
  <2>2. task' = [task EXCEPT ![h] = [task[h] EXCEPT !.op = op, !.id = id]]
    BY <1>2 DEF TaskTypes
  <2>3. QED
    BY <2>1, <2>2, SetTask
<1>3. CASE task' = [task EXCEPT ![h].op = op, ![h].seen = seen]
  <2>1. IsTask([task[h] EXCEPT !.op = op, !.seen = seen]) /\ [task[h] EXCEPT !.op = op, !.seen = seen].op = op
    BY <1>1 DEF IsTask, Fields
  <2>2. task' = [task EXCEPT ![h] = [task[h] EXCEPT !.op = op, !.seen = seen]]
    BY <1>3 DEF TaskTypes
  <2>3. QED
    BY <2>1, <2>2, SetTask
<1>4. CASE task' = [task EXCEPT ![h].op = op, ![h].appr = appr]
  <2>1. IsTask([task[h] EXCEPT !.op = op, !.appr = appr]) /\ [task[h] EXCEPT !.op = op, !.appr = appr].op = op
    BY <1>1 DEF IsTask, Fields
  <2>2. task' = [task EXCEPT ![h] = [task[h] EXCEPT !.op = op, !.appr = appr]]
    BY <1>4 DEF TaskTypes
  <2>3. QED
    BY <2>1, <2>2, SetTask
<1>5. CASE task' = [task EXCEPT ![h].op = op, ![h].id = id, ![h].seen = seen]
  <2>1. /\ IsTask([task[h] EXCEPT !.op = op, !.id = id, !.seen = seen])
        /\ [task[h] EXCEPT !.op = op, !.id = id, !.seen = seen].op = op
    BY <1>1 DEF IsTask, Fields
  <2>2. task' = [task EXCEPT ![h] = [task[h] EXCEPT !.op = op, !.id = id, !.seen = seen]]
    BY <1>5 DEF TaskTypes
  <2>3. QED
    BY <2>1, <2>2, SetTask
<1>6. QED
  BY <1>2, <1>3, <1>4, <1>5

----------------------------------------------------------------------------
(* What every step keeps. *)

\* A request keeps what it asks for, and what was agreed stays agreed.
Grows ==
    \A r \in RequestIds :
        /\ approvals[r].state # "NONE" =>
              /\ approvals'[r].state # "NONE"
              /\ approvals'[r].maker = approvals[r].maker
              /\ approvals'[r].action = approvals[r].action
              /\ approvals'[r].target = approvals[r].target
        /\ Agreed(r) => Agreed(r)'

\* The others find the end of the chain where they left it.
Undisturbed(h) ==
    \A g \in Handlers \ {h} : task[g].op \in Appending =>
        chainLock' = g /\ prevHash'[g] = prevHash[g] /\ LastHash' = LastHash

LEMMA GrowsFor ==
  ASSUME Grows, NEW r \in RequestIds, NEW i, AgreedFor(r, i)
  PROVE  AgreedFor(r, i)'
BY DEF Grows, AgreedFor, Agreed

LEMMA Unchanged ==
  ASSUME UNCHANGED approvals
  PROVE  Grows
BY DEF Grows, Agreed

\* Nothing another handler relies on is taken from it.
LEMMA OthersKeep ==
  ASSUME Inv, NEW h, NEW g \in Handlers, g # h,
         task'[g] = task[g], Grows, Undisturbed(h)
  PROVE  Relies(g)'
<1>1. Relies(g)
  BY DEF Inv
<1>2. HoldsChain(g)'
  BY <1>1 DEF Relies, HoldsChain, Undisturbed, Appending
<1>3. HoldsRequest(g)'
  <2>1. CASE task[g].op = "approve"
    BY <1>1, <2>1 DEF Relies, HoldsRequest, Grows
  <2>2. CASE task[g].op = "execute"
    BY <1>1, <2>2 DEF Relies, HoldsRequest, Grows
  <2>3. CASE task[g].op = "writeOff"
    <3>1. task[g].appr \in RequestIds /\ AgreedFor(task[g].appr, task[g].id)
      BY <1>1, <2>3 DEF Relies, HoldsRequest
    <3>2. PICK r \in RequestIds, i \in {task[g].id} : r = task[g].appr /\ AgreedFor(r, i)
      BY <3>1
    <3>3. AgreedFor(r, i)'
      BY <3>2, GrowsFor
    <3>4. AgreedFor(task[g].appr, task[g].id)'
      BY <3>2, <3>3 DEF AgreedFor, Agreed
    <3>5. QED
      BY <2>3, <3>1, <3>4 DEF HoldsRequest
  <2>4. CASE task[g].op = "updateItem"
    BY <1>1, <2>4 DEF Relies, HoldsRequest
  <2>5. QED
    BY <2>1, <2>2, <2>3, <2>4 DEF HoldsRequest
<1>4. QED
  BY <1>2, <1>3 DEF Relies

\* One handler moves.
LEMMA StepKeeps ==
  ASSUME Inv, NEW h \in Handlers,
         Types', \A g \in Handlers \ {h} : task'[g] = task[g],
         Grows, Undisturbed(h),
         Linked', WrittenOff', Relies(h)'
  PROVE  Inv'
<1>1. ASSUME NEW g \in Handlers PROVE Relies(g)'
  <2>1. CASE g = h
    BY <2>1 DEF Relies
  <2>2. CASE g # h
    BY <2>2, OthersKeep
  <2>3. QED
    BY <2>1, <2>2
<1>2. QED
  BY <1>1 DEF Inv

\* The parts of the invariant that a step leaves alone.
LEMMA SameChain ==
  ASSUME Inv, NEW h, UNCHANGED <<chain, chainLock, prevHash>>
  PROVE  ChainTypes' /\ Linked' /\ Undisturbed(h)
<1>1. ChainTypes' /\ Linked' /\ LastHash' = LastHash
  BY DEF Inv, Types, ChainTypes, Linked, Follows, LastHash
<1>2. \A g \in Handlers : Relies(g)
  BY DEF Inv
<1>3. QED
  BY <1>1, <1>2 DEF Undisturbed, Relies, HoldsChain

LEMMA SameItems ==
  ASSUME Inv, Grows, UNCHANGED items
  PROVE  items' \in [ItemIds -> ItemStates] /\ WrittenOff'
<1>1. items \in [ItemIds -> ItemStates] /\ WrittenOff
  BY DEF Inv, Types
<1>2. ASSUME NEW i \in ItemIds, items'[i] = "WRITTEN_OFF" PROVE \E r \in RequestIds : AgreedFor(r, i)'
  <2>1. PICK r \in RequestIds : AgreedFor(r, i)
    BY <1>1, <1>2 DEF WrittenOff
  <2>2. QED
    BY <2>1, GrowsFor
<1>3. QED
  BY <1>1, <1>2 DEF WrittenOff

LEMMA SameRequests ==
  ASSUME Inv, UNCHANGED approvals
  PROVE  RequestTypes' /\ Grows
BY Unchanged DEF Inv, Types, RequestTypes, IsRequest

\* Steps at which a handler relies on something.
Careful == Appending \cup {"approve", "execute", "writeOff", "updateItem"}

LEMMA CarelessRelies ==
  ASSUME NEW h, task'[h].op \notin Careful
  PROVE  Relies(h)'
BY DEF Careful, Relies, HoldsChain, HoldsRequest, Appending

\* A handler goes on to a step at which it relies on nothing.
Plain(h) ==
    /\ TaskTypes'
    /\ \A g \in Handlers \ {h} : task'[g] = task[g]
    /\ task'[h].op \notin Careful

LEMMA PlainGoto ==
  ASSUME TaskTypes, NEW h \in Handlers, NEW op, op \notin Careful, Goto(h, op)
  PROVE  Plain(h)
BY GotoMoves DEF Moves, Plain

LEMMA PlainExcept ==
  ASSUME TaskTypes, NEW h \in Handlers, NEW op, NEW id, NEW seen, NEW appr, op \notin Careful,
         \/ task' = [task EXCEPT ![h].op = op, ![h].id = id]
         \/ task' = [task EXCEPT ![h].op = op, ![h].seen = seen]
         \/ task' = [task EXCEPT ![h].op = op, ![h].id = id, ![h].seen = seen]
  PROVE  Plain(h)
<1>1. Moves(h, {op})
  BY ExceptMoves
<1>2. QED
  BY <1>1 DEF Moves, Plain

LEMMA PlainStart ==
  ASSUME TaskTypes, NEW h \in Handlers, NEW op, NEW id, NEW who, NEW seen, NEW appr,
         op \notin Careful, Start(h, op, id, who, seen, appr)
  PROVE  Plain(h)
<1>1. Moves(h, {op})
  BY StartMoves
<1>2. QED
  BY <1>1 DEF Moves, Plain

LEMMA PlainRecord ==
  ASSUME TaskTypes, NEW h \in Handlers, NEW kind, Record(h, kind)
  PROVE  Plain(h)
<1>1. "lockChain" \notin Careful
  BY DEF Careful, Appending
<1>2. QED
  BY <1>1, PlainExcept DEF Record

LEMMA PlainEnd ==
  ASSUME TaskTypes, NEW h \in Handlers, Done(h) \/ Return(h) \/ Throw(h) \/ Resume(h)
  PROVE  Plain(h)
<1>1. \A op \in {"idle", "executed", "failed", "line"} : op \notin Careful
  BY DEF Careful, Appending
<1>2. CASE Done(h)
  BY <1>1, <1>2, DoneMoves DEF Moves, Plain
<1>3. CASE ~Done(h)
  <2>1. Goto(h, "executed") \/ Goto(h, "failed") \/ Goto(h, "line")
    BY <1>3 DEF Return, Throw, Resume
  <2>2. QED
    BY <1>1, <2>1, PlainGoto
<1>4. QED
  BY <1>2, <1>3

LEMMA OrdinaryKeeps ==
  ASSUME Inv, NEW h \in Handlers, Plain(h),
         UNCHANGED <<chain, chainLock, prevHash, approvals, items>>
  PROVE  Inv'
<1>1. ChainTypes' /\ Linked' /\ Undisturbed(h)
  BY SameChain
<1>2. RequestTypes' /\ Grows
  BY SameRequests
<1>3. items' \in [ItemIds -> ItemStates] /\ WrittenOff'
  BY <1>2, SameItems
<1>4. Relies(h)'
  BY CarelessRelies DEF Plain
<1>5. Types'
  BY <1>1, <1>2, <1>3 DEF Types, Plain
<1>6. QED
  BY <1>1, <1>2, <1>3, <1>4, <1>5, StepKeeps DEF Plain

\* A step outside the handlers.
LEMMA OutsideKeeps ==
  ASSUME Inv, UNCHANGED <<task, chain, chainLock, prevHash, items>>,
         RequestTypes', Grows
  PROVE  Inv'
<1>1. ChainTypes' /\ Linked' /\ Undisturbed(Nobody)
  BY SameChain
<1>2. items' \in [ItemIds -> ItemStates] /\ WrittenOff'
  BY SameItems
<1>3. TaskTypes'
  BY DEF Inv, Types, TaskTypes, IsTask
<1>4. ASSUME NEW g \in Handlers PROVE Relies(g)'
  <2>1. Nobody # g
    OBVIOUS
  <2>2. QED
    BY <1>1, <2>1, OthersKeep
<1>5. QED
  BY <1>1, <1>2, <1>3, <1>4 DEF Inv, Types

----------------------------------------------------------------------------
(* The steps at which a handler relies on nothing. *)

LEMMA NotificationKeeps ==
  ASSUME Inv, NEW h \in Handlers, NotificationStep(h), UNCHANGED items
  PROVE  Inv'
<1>1. TaskTypes
  BY DEF Inv, Types
<1>2. UNCHANGED <<chain, chainLock, prevHash, approvals>>
  BY DEF NotificationStep, Dispatch, CreateLog, Send, WriteAttempt, RetryFailed, NextFailed,
         EndOfList, auditVars
<1>3. Plain(h)
  <2>1. \A op \in {"channel", "sendNew", "sendAgain", "writeNew", "writeAgain", "failedLog"} :
            op \notin Careful
    BY DEF Careful, Appending
  <2>2. CASE (\E template \in Templates, prefs \in Preferences : Dispatch(h, template, prefs))
             \/ RetryFailed(h)
    BY <1>1, <2>1, <2>2, PlainStart DEF Dispatch, RetryFailed
  <2>3. CASE CreateLog(h)
    BY <1>1, <2>1, <2>3, PlainExcept DEF CreateLog
  <2>4. CASE NextFailed(h)
    BY <1>1, <2>1, <2>4, PlainExcept DEF NextFailed
  <2>5. ASSUME NEW accepted, Send(h, accepted) PROVE Plain(h)
    <3>1. PICK op \in {"writeNew", "writeAgain"}, seen \in {"SENT", "FAILED"} :
              task' = [task EXCEPT ![h].op = op, ![h].seen = seen]
      BY <2>5 DEF Send
    <3>2. QED
      BY <1>1, <2>1, <3>1, PlainExcept
  <2>6. CASE WriteAttempt(h)
    <3>1. Goto(h, "channel") \/ Goto(h, "failedLog")
      BY <2>6 DEF WriteAttempt
    <3>2. QED
      BY <1>1, <2>1, <3>1, PlainGoto
  <2>7. CASE EndOfList(h)
    BY <1>1, <2>7, PlainEnd DEF EndOfList
  <2>8. QED
    BY <2>2, <2>3, <2>4, <2>5, <2>6, <2>7 DEF NotificationStep
<1>4. QED
  BY <1>2, <1>3, OrdinaryKeeps

LEMMA QuoteKeeps ==
  ASSUME Inv, NEW h \in Handlers, QuoteStep(h), UNCHANGED items
  PROVE  Inv'
<1>1. TaskTypes
  BY DEF Inv, Types
<1>2. UNCHANGED <<chain, chainLock, prevHash, approvals>>
  BY DEF QuoteStep, AddQuotes, UpsertQuote, ReadLatestQuote, RefreshPrice, LogIngestion, auditVars
<1>3. Plain(h)
  <2>1. \A op \in {"quoteRow", "readLatest", "refreshPrice"} : op \notin Careful
    BY DEF Careful, Appending
  <2>2. CASE \E rows \in SUBSET QuoteRows \ {{}} : AddQuotes(h, rows)
    BY <1>1, <2>1, <2>2, PlainStart DEF AddQuotes
  <2>3. CASE UpsertQuote(h)
    BY <1>1, <2>1, <2>3, PlainExcept DEF UpsertQuote
  <2>4. CASE ReadLatestQuote(h)
    <3>1. PICK close : close = quotes[task[h].id]
      OBVIOUS
    <3>2. PICK op \in {"quoteRow", "refreshPrice"} :
              task' = [task EXCEPT ![h].op = op, ![h].seen = close]
      BY <2>4, <3>1 DEF ReadLatestQuote
    <3>3. QED
      BY <1>1, <2>1, <3>2, PlainExcept
  <2>5. CASE RefreshPrice(h)
    BY <1>1, <2>1, <2>5, PlainGoto DEF RefreshPrice
  <2>6. CASE LogIngestion(h)
    BY <1>1, <2>6, PlainEnd DEF LogIngestion
  <2>7. QED
    BY <2>2, <2>3, <2>4, <2>5, <2>6 DEF QuoteStep
<1>4. QED
  BY <1>2, <1>3, OrdinaryKeeps

LEMMA ConfigKeeps ==
  ASSUME Inv, NEW h \in Handlers, ConfigStep(h), UNCHANGED items
  PROVE  Inv'
<1>1. TaskTypes
  BY DEF Inv, Types
<1>2. UNCHANGED <<chain, chainLock, prevHash, approvals>>
  BY DEF ConfigStep, GetConfig, QueryConfig, FillCache, SetConfig, CloseRows, CommitSet, DropCache,
         auditVars
<1>3. Plain(h)
  <2>1. \A op \in {"queryConfig", "fillCache", "closeRows", "insertOnly", "insertRowAndClose",
                   "dropCache"} : op \notin Careful
    BY DEF Careful, Appending
  <2>2. CASE GetConfig(h)
    BY <1>1, <2>1, <2>2, PlainStart DEF GetConfig
  <2>3. CASE QueryConfig(h)
    BY <1>1, <2>1, <2>3, PlainExcept DEF QueryConfig
  <2>4. CASE FillCache(h)
    BY <1>1, <2>4, PlainEnd DEF FillCache
  <2>5. CASE SetConfig(h)
    BY <1>1, <2>1, <2>5, PlainExcept DEF SetConfig
  <2>6. CASE CloseRows(h)
    <3>1. Goto(h, "insertOnly") \/ Goto(h, "insertRowAndClose")
      BY <2>6 DEF CloseRows
    <3>2. QED
      BY <1>1, <2>1, <3>1, PlainGoto
  <2>7. CASE CommitSet(h)
    BY <1>1, <2>1, <2>7, PlainGoto DEF CommitSet
  <2>8. CASE DropCache(h)
    BY <1>1, <2>8, PlainRecord DEF DropCache
  <2>9. QED
    BY <2>2, <2>3, <2>4, <2>5, <2>6, <2>7, <2>8 DEF ConfigStep
<1>4. QED
  BY <1>2, <1>3, OrdinaryKeeps

LEMMA SwitchKeeps ==
  ASSUME Inv, NEW h \in Handlers, SwitchStep(h), UNCHANGED items
  PROVE  Inv'
<1>1. TaskTypes
  BY DEF Inv, Types
<1>2. UNCHANGED <<chain, chainLock, prevHash, approvals>>
  BY DEF SwitchStep, LiveTradingToggle, ExecutePosting, PaymentForceComplete, auditVars
<1>3. Plain(h)
  BY <1>1, PlainRecord, PlainEnd DEF SwitchStep, LiveTradingToggle, ExecutePosting, PaymentForceComplete
<1>4. QED
  BY <1>2, <1>3, OrdinaryKeeps

LEMMA FeeKeeps ==
  ASSUME Inv, NEW h \in Handlers, FeeStep(h), UNCHANGED items
  PROVE  Inv'
<1>1. TaskTypes
  BY DEF Inv, Types
<1>2. UNCHANGED <<chain, chainLock, prevHash, approvals>>
  BY DEF FeeStep, DirectFeeStep, FeeChangeStep, CreateFee, DeactivateFee, FeeChange, MatchSchedules, LockSchedules, InsertSchedule,
         DirectFeeStep, FeeChangeStep, auditVars
<1>3. Plain(h)
  <2>1. \A op \in {"lockChain", "matchSchedules", "lockSchedules", "insertSchedule"} :
            op \notin Careful
    BY DEF Careful, Appending
  <2>2. CASE \/ \E m \in MarketIds \cup {Global}, name \in DOMAIN RateOf, w \in Windows :
                    CreateFee(h, m, name, w)
             \/ \E i \in DOMAIN schedules : DeactivateFee(h, i)
    BY <1>1, <2>1, <2>2, PlainStart DEF CreateFee, DeactivateFee
  <2>3. CASE FeeChange(h)
    BY <1>1, <2>1, <2>3, PlainExcept DEF FeeChange
  <2>4. CASE MatchSchedules(h) \/ LockSchedules(h)
    BY <1>1, <2>1, <2>4, PlainGoto DEF MatchSchedules, LockSchedules
  <2>5. CASE InsertSchedule(h)
    BY <1>1, <2>5, PlainRecord DEF InsertSchedule
  <2>6. QED
    BY <2>2, <2>3, <2>4, <2>5 DEF FeeStep, DirectFeeStep, FeeChangeStep
<1>4. QED
  BY <1>2, <1>3, OrdinaryKeeps

LEMMA PortfolioKeeps ==
  ASSUME Inv, NEW h \in Handlers, PortfolioStep(h), UNCHANGED items
  PROVE  Inv'
<1>1. TaskTypes
  BY DEF Inv, Types
<1>2. UNCHANGED <<chain, chainLock, prevHash, approvals>>
  BY DEF PortfolioStep, InsertPosting, CommitPosting, RollBackPosting, StartStatement, ReadEntries,
         ReadAfter, ReadBalances, auditVars, approvalVars
<1>3. CASE ReadEntries(h) \/ ReadAfter(h)
  <2>1. UNCHANGED task
    BY <1>3 DEF ReadEntries, ReadAfter, approvalVars
  <2>2. QED
    BY <1>2, <2>1, SameRequests, OutsideKeeps
<1>4. CASE ~(ReadEntries(h) \/ ReadAfter(h))
  <2>1. "statement" \notin Careful /\ "posting" \notin Careful
    BY DEF Careful, Appending
  <2>2. Plain(h)
    BY <1>1, <1>4, <2>1, PlainStart, PlainEnd
       DEF PortfolioStep, InsertPosting, CommitPosting, RollBackPosting, StartStatement, ReadBalances
  <2>3. QED
    BY <1>2, <2>2, OrdinaryKeeps
<1>5. QED
  BY <1>3, <1>4

----------------------------------------------------------------------------
(* Approvals. *)

LEMMA RequestsKeep ==
  ASSUME Inv, NEW h \in Handlers, TaskTypes', \A g \in Handlers \ {h} : task'[g] = task[g],
         RequestTypes', Grows, Relies(h)',
         UNCHANGED <<chain, chainLock, prevHash, items>>
  PROVE  Inv'
<1>1. ChainTypes' /\ Linked' /\ Undisturbed(h)
  BY SameChain
<1>2. items' \in [ItemIds -> ItemStates] /\ WrittenOff'
  BY SameItems
<1>3. Types'
  BY <1>1, <1>2 DEF Types
<1>4. QED
  BY <1>1, <1>2, <1>3, StepKeeps

\* The row a step writes keeps its shape.
LEMMA SetRequest ==
  ASSUME RequestTypes, NEW r, NEW a, IsRequest(a), approvals' = [approvals EXCEPT ![r] = a]
  PROVE  /\ RequestTypes'
         /\ \A q \in RequestIds \ {r} : approvals'[q] = approvals[q]
         /\ r \in RequestIds => approvals'[r] = a
BY DEF RequestTypes

LEMMA ClaimKeeps ==
  ASSUME RequestTypes, NEW h, NEW state, state # "NONE",
         ClaimAs(h, state), Unclaimed(h), task[h].id \in RequestIds
  PROVE  /\ RequestTypes' /\ Grows
         /\ approvals'[task[h].id].maker = approvals[task[h].id].maker
         /\ approvals'[task[h].id].state = state
         /\ approvals'[task[h].id].checker = task[h].who
<1>1. PICK r \in RequestIds : r = task[h].id
  OBVIOUS
<1>2. PICK who : who = task[h].who
  OBVIOUS
<1> DEFINE a == [approvals[r] EXCEPT !.state = state, !.checker = who]
<1>3. IsRequest(approvals[r])
  BY <1>1 DEF RequestTypes
<1>4. /\ IsRequest(a) /\ a.state = state /\ a.checker = who /\ a.maker = approvals[r].maker
      /\ a.action = approvals[r].action /\ a.target = approvals[r].target
  BY <1>3 DEF IsRequest, Columns
<1>5. approvals' = [approvals EXCEPT ![r] = a]
  BY <1>1, <1>2 DEF ClaimAs, RequestTypes
<1> HIDE DEF a
<1>6. RequestTypes' /\ approvals'[r] = a /\ \A q \in RequestIds \ {r} : approvals'[q] = approvals[q]
  BY <1>4, <1>5, SetRequest
<1>7. approvals[r].state = "PENDING"
  BY <1>1 DEF Unclaimed
<1>8. Grows
  BY <1>1, <1>4, <1>6, <1>7 DEF Grows, Agreed
<1>9. QED
  BY <1>1, <1>2, <1>4, <1>6, <1>8

LEMMA ApprovalKeeps ==
  ASSUME Inv, NEW h \in Handlers, ApprovalStep(h),
         UNCHANGED <<chain, chainLock, prevHash, items>>
  PROVE  Inv'
<1>1. TaskTypes /\ RequestTypes /\ Relies(h)
  BY DEF Inv, Types
<1>2. ASSUME NEW r \in RequestIds, NEW s \in Staff, NEW verdict \in {"approve", "reject"},
             ReadRequest(h, r, s, verdict)
      PROVE  Inv'
  <2>1. RequestTypes' /\ Grows
    BY <1>2, SameRequests DEF ReadRequest
  <2>2. Moves(h, {verdict}) /\ task'[h].id = r /\ task'[h].who = s
    BY <1>1, <1>2, StartMoves DEF ReadRequest
  <2>3. approvals'[r].state # "NONE" /\ s \in Checkers \ {approvals'[r].maker}
    BY <1>2 DEF ReadRequest, IsChecker
  <2>4. Relies(h)'
    BY <2>2, <2>3 DEF Moves, Relies, HoldsChain, HoldsRequest, Appending
  <2>5. QED
    BY <2>1, <2>2, <2>4, RequestsKeep DEF Moves
<1>3. CASE ClaimApproved(h)
  <2>1. CASE Unclaimed(h)
    <3>1. /\ task[h].id \in RequestIds
          /\ task[h].who \in Checkers \ {approvals[task[h].id].maker}
      BY <1>1, <1>3 DEF Relies, HoldsRequest, ClaimApproved
    <3>2. /\ ClaimAs(h, "APPROVED")
          /\ task' = [task EXCEPT ![h].op = "execute", ![h].appr = task[h].id]
      BY <1>3, <2>1 DEF ClaimApproved
    <3>3. /\ RequestTypes' /\ Grows
          /\ approvals'[task[h].id].maker = approvals[task[h].id].maker
          /\ approvals'[task[h].id].state = "APPROVED"
          /\ approvals'[task[h].id].checker = task[h].who
      BY <1>1, <2>1, <3>1, <3>2, ClaimKeeps
    <3>4. PICK r : r = task[h].id
      OBVIOUS
    <3>5. Agreed(r)'
      BY <3>1, <3>3, <3>4 DEF Agreed
    <3>6. Moves(h, {"execute"})
      BY <1>1, <3>2, ExceptMoves
    <3>7. task'[h].appr = r
      BY <1>1, <3>2, <3>4 DEF TaskTypes, IsTask, Fields
    <3>8. HoldsRequest(h)'
      <4>1. task'[h].op = "execute" /\ r \in RequestIds
        BY <3>1, <3>4, <3>6 DEF Moves
      <4>2. Agreed(task[h].appr)'
        BY <3>5, <3>7 DEF Agreed
      <4>3. QED
        BY <3>7, <4>1, <4>2 DEF HoldsRequest
    <3>9. Relies(h)'
      BY <3>6, <3>8 DEF Moves, Relies, HoldsChain, Appending
    <3>10. QED
      BY <3>3, <3>6, <3>9, RequestsKeep DEF Moves
  <2>2. CASE ~Unclaimed(h)
    <3>1. Plain(h) /\ UNCHANGED approvals
      BY <1>1, <1>3, <2>2, PlainEnd DEF ClaimApproved
    <3>2. QED
      BY <3>1, OrdinaryKeeps
  <2>3. QED
    BY <2>1, <2>2
<1>4. CASE ClaimRejected(h)
  <2>1. Plain(h)
    BY <1>1, <1>4, PlainEnd DEF ClaimRejected
  <2>2. Relies(h)'
    BY <2>1, CarelessRelies DEF Plain
  <2>3. RequestTypes' /\ Grows
    <3>1. CASE UNCHANGED approvals
      BY <3>1, SameRequests
    <3>2. CASE Unclaimed(h) /\ ClaimAs(h, "REJECTED") /\ task[h].id \in RequestIds
      BY <1>1, <3>2, ClaimKeeps
    <3>3. task[h].id \notin RequestIds /\ ClaimAs(h, "REJECTED") => UNCHANGED approvals
      BY <1>1 DEF ClaimAs, RequestTypes
    <3>4. QED
      BY <1>4, <3>1, <3>2, <3>3 DEF ClaimRejected
  <2>4. QED
    BY <2>1, <2>2, <2>3, RequestsKeep DEF Plain
<1>5. CASE Finish(h)
  <2>1. Plain(h)
    BY <1>1, <1>5, PlainEnd DEF Finish
  <2>2. Relies(h)'
    BY <2>1, CarelessRelies DEF Plain
  <2>3. PICK r : r = task[h].appr
    OBVIOUS
  <2>4. PICK state \in {"EXECUTED", "FAILED"} : approvals' = [approvals EXCEPT ![r].state = state]
    BY <1>5, <2>3 DEF Finish
  <2>5. RequestTypes' /\ Grows
    <3>1. CASE r \in RequestIds
      <4> DEFINE a == [approvals[r] EXCEPT !.state = state]
      <4>1. IsRequest(approvals[r])
        BY <1>1, <3>1 DEF RequestTypes
      <4>2. /\ IsRequest(a) /\ a.state = state /\ a.checker = approvals[r].checker
            /\ a.maker = approvals[r].maker /\ a.action = approvals[r].action
            /\ a.target = approvals[r].target
        BY <4>1 DEF IsRequest, Columns
      <4>3. approvals' = [approvals EXCEPT ![r] = a]
        BY <2>4
      <4> HIDE DEF a
      <4>4. /\ RequestTypes' /\ approvals'[r] = a
            /\ \A q \in RequestIds \ {r} : approvals'[q] = approvals[q]
        BY <1>1, <3>1, <4>2, <4>3, SetRequest
      <4>5. Grows
        BY <4>2, <4>4 DEF Grows, Agreed
      <4>6. QED
        BY <4>4, <4>5
    <3>2. CASE r \notin RequestIds
      <4>1. UNCHANGED approvals
        BY <1>1, <2>4, <3>2 DEF RequestTypes
      <4>2. QED
        BY <4>1, SameRequests
    <3>3. QED
      BY <3>1, <3>2
  <2>6. QED
    BY <2>1, <2>2, <2>5, RequestsKeep DEF Plain
<1>6. QED
  BY <1>2, <1>3, <1>4, <1>5 DEF ApprovalStep

----------------------------------------------------------------------------
(* The audit log. *)

LEMMA AuditTypes ==
  ASSUME Inv, NEW h \in Handlers, NEW x, prevHash' = [prevHash EXCEPT ![h] = x]
  PROVE  /\ DOMAIN prevHash' = Handlers /\ prevHash' = [g \in Handlers |-> prevHash'[g]]
         /\ prevHash'[h] = x /\ \A g \in Handlers \ {h} : prevHash'[g] = prevHash[g]
BY DEF Inv, Types, ChainTypes

\* One appender at a time: what only the holder of the lock touches.
LEMMA ChainKeeps ==
  ASSUME Inv, NEW h \in Handlers, TaskTypes', \A g \in Handlers \ {h} : task'[g] = task[g],
         ChainTypes', Linked', Relies(h)',
         chainLock \in {h, Nobody} \/ UNCHANGED <<chain, chainLock>>,
         \A g \in Handlers \ {h} : prevHash'[g] = prevHash[g],
         UNCHANGED <<approvals, items>>
  PROVE  Inv'
<1>1. Undisturbed(h)
  <2>1. \A g \in Handlers \ {h} : task[g].op \in Appending => chainLock = g
    BY DEF Inv, Relies, HoldsChain
  <2>2. chainLock \in {h, Nobody} => \A g \in Handlers \ {h} : task[g].op \notin Appending
    BY <2>1
  <2>3. UNCHANGED chain => LastHash' = LastHash
    BY DEF LastHash
  <2>4. QED
    BY <2>1, <2>2, <2>3 DEF Undisturbed
<1>2. RequestTypes' /\ Grows
  BY SameRequests
<1>3. items' \in [ItemIds -> ItemStates] /\ WrittenOff'
  BY <1>2, SameItems
<1>4. Types'
  BY <1>2, <1>3 DEF Types
<1>5. QED
  BY <1>1, <1>2, <1>3, <1>4, StepKeeps

\* The row that InsertRow adds follows the last one.
LEMMA AppendRow ==
  ASSUME NEW S, chain \in Seq(S), Linked, NEW row, chain' = Append(chain, row),
         row.prev = LastHash, row.hash = computeAuditHash(row.prev, row.body)
  PROVE  (\E T : chain' \in Seq(T)) /\ Linked'
<1>1. chain \in Seq(S \cup {row}) /\ row \in S \cup {row}
  OBVIOUS
<1>2. chain' \in Seq(S \cup {row}) /\ Len(chain') = Len(chain) + 1 /\ Len(chain) \in Nat
  BY <1>1
<1>3. /\ \A i \in 1 .. Len(chain) : chain'[i] = chain[i]
      /\ chain'[Len(chain) + 1] = row
  BY <1>1
<1>4. ASSUME NEW i \in 1 .. Len(chain) PROVE Follows(i)'
  <2>1. Follows(i)
    BY DEF Linked
  <2>2. i # 1 => i - 1 \in 1 .. Len(chain)
    BY <1>2
  <2>3. QED
    BY <1>3, <2>1, <2>2 DEF Follows
<1>5. ASSUME NEW i, i = Len(chain) + 1 PROVE Follows(i)'
  <2>1. row.prev = IF i = 1 THEN NoHash ELSE chain'[i - 1].hash
    <3>1. CASE chain = <<>>
      BY <1>5, <3>1 DEF LastHash
    <3>2. CASE chain # <<>>
      <4>1. Len(chain) # 0
        BY <3>2
      <4>2. i # 1 /\ i - 1 = Len(chain) /\ Len(chain) \in 1 .. Len(chain)
        BY <1>2, <1>5, <4>1
      <4>3. QED
        BY <1>3, <3>2, <4>2 DEF LastHash
    <3>3. QED
      BY <3>1, <3>2
  <2>2. QED
    BY <1>3, <1>5, <2>1 DEF Follows
<1>6. QED
  BY <1>2, <1>4, <1>5 DEF Linked

LEMMA AuditKeeps ==
  ASSUME Inv, NEW h \in Handlers, AuditStep(h), UNCHANGED items
  PROVE  Inv'
<1>1. TaskTypes /\ ChainTypes /\ Linked /\ Relies(h)
  BY DEF Inv, Types
<1>2. UNCHANGED approvals
  BY DEF AuditStep, LockChain, ReadLast, InsertRow, AbortAppend
<1>3. CASE LockChain(h)
  <2>1. Moves(h, {"readLast"}) /\ chainLock' = h /\ chainLock = Nobody /\ UNCHANGED <<chain, prevHash>>
    BY <1>1, <1>3, GotoMoves DEF LockChain, Unlocked
  <2>2. ChainTypes' /\ Linked'
    BY <1>1, <2>1 DEF ChainTypes, Linked, Follows
  <2>3. Relies(h)'
    BY <2>1 DEF Moves, Relies, HoldsChain, HoldsRequest, Appending
  <2>4. QED
    BY <1>2, <2>1, <2>2, <2>3, ChainKeeps DEF Moves
<1>4. CASE ReadLast(h)
  <2>1. PICK last : last = LastHash
    OBVIOUS
  <2>2. /\ Moves(h, {"insertRow"}) /\ UNCHANGED <<chain, chainLock>>
        /\ prevHash' = [prevHash EXCEPT ![h] = last]
    BY <1>1, <1>4, <2>1, GotoMoves DEF ReadLast, LastHash
  <2>3. /\ DOMAIN prevHash' = Handlers /\ prevHash' = [g \in Handlers |-> prevHash'[g]]
        /\ prevHash'[h] = last /\ \A g \in Handlers \ {h} : prevHash'[g] = prevHash[g]
    BY <2>2, AuditTypes
  <2>4. ChainTypes' /\ Linked' /\ LastHash' = last
    BY <1>1, <2>1, <2>2, <2>3 DEF ChainTypes, Linked, Follows, LastHash
  <2>5. chainLock = h
    BY <1>1, <1>4 DEF ReadLast, Relies, HoldsChain, Appending
  <2>6. Relies(h)'
    BY <2>2, <2>3, <2>4, <2>5 DEF Moves, Relies, HoldsChain, HoldsRequest, Appending
  <2>7. QED
    BY <1>2, <2>2, <2>3, <2>4, <2>5, <2>6, ChainKeeps DEF Moves
<1>5. CASE InsertRow(h)
  <2>1. Plain(h)
    BY <1>1, <1>5, PlainRecord, PlainEnd DEF InsertRow
  <2>2. prevHash[h] = LastHash /\ chainLock = h
    BY <1>1, <1>5 DEF InsertRow, Relies, HoldsChain, Appending
  <2>3. /\ DOMAIN prevHash' = Handlers /\ prevHash' = [g \in Handlers |-> prevHash'[g]]
        /\ \A g \in Handlers \ {h} : prevHash'[g] = prevHash[g]
    BY <1>5, AuditTypes DEF InsertRow
  <2>4. PICK row : /\ chain' = Append(chain, row) /\ row.prev = LastHash
                   /\ row.hash = computeAuditHash(row.prev, row.body)
    BY <1>5, <2>2 DEF InsertRow
  <2>5. (\E T : chain' \in Seq(T)) /\ Linked'
    BY <1>1, <2>4, AppendRow DEF ChainTypes
  <2>6. Relies(h)'
    BY <2>1, CarelessRelies DEF Plain
  <2>7. QED
    BY <1>2, <2>1, <2>2, <2>3, <2>5, <2>6, ChainKeeps DEF Plain, ChainTypes
<1>6. CASE AbortAppend(h)
  <2>1. Plain(h) /\ UNCHANGED chain
    BY <1>1, <1>6, PlainEnd DEF AbortAppend
  <2>2. /\ DOMAIN prevHash' = Handlers /\ prevHash' = [g \in Handlers |-> prevHash'[g]]
        /\ \A g \in Handlers \ {h} : prevHash'[g] = prevHash[g]
    BY <1>6, AuditTypes DEF AbortAppend
  <2>3. ChainTypes' /\ Linked'
    BY <1>1, <2>1, <2>2 DEF ChainTypes, Linked, Follows
  <2>4. chainLock = h \/ UNCHANGED chainLock
    BY <1>1, <1>6 DEF AbortAppend, Relies, HoldsChain, Appending
  <2>5. Relies(h)'
    BY <2>1, CarelessRelies DEF Plain
  <2>6. QED
    BY <1>2, <2>1, <2>2, <2>3, <2>4, <2>5, ChainKeeps DEF Plain
<1>7. QED
  BY <1>3, <1>4, <1>5, <1>6 DEF AuditStep

LEMMA OtherEntryKeeps ==
  ASSUME Inv, NEW h \in Handlers, NEW kind, OtherEntry(h, kind), UNCHANGED items
  PROVE  Inv'
<1>1. TaskTypes
  BY DEF Inv, Types
<1>2. "lockChain" \notin Careful
  BY DEF Careful, Appending
<1>3. Plain(h)
  BY <1>1, <1>2, PlainStart DEF OtherEntry
<1>4. QED
  BY <1>3, OrdinaryKeeps DEF OtherEntry, auditVars

----------------------------------------------------------------------------
(* The reconciliation. *)

LEMMA ItemsKeep ==
  ASSUME Inv, NEW h \in Handlers, TaskTypes', \A g \in Handlers \ {h} : task'[g] = task[g], Relies(h)',
         items' \in [ItemIds -> ItemStates],
         \A i \in ItemIds : items'[i] = "WRITTEN_OFF" =>
             items[i] = "WRITTEN_OFF" \/ \E r \in RequestIds : AgreedFor(r, i),
         UNCHANGED <<chain, chainLock, prevHash, approvals>>
  PROVE  Inv'
<1>1. ChainTypes' /\ Linked' /\ Undisturbed(h)
  BY SameChain
<1>2. RequestTypes' /\ Grows
  BY SameRequests
<1>3. WrittenOff'
  <2>1. ASSUME NEW i \in ItemIds, items'[i] = "WRITTEN_OFF" PROVE \E r \in RequestIds : AgreedFor(r, i)'
    <3>1. PICK r \in RequestIds : AgreedFor(r, i)
      BY <2>1 DEF Inv, WrittenOff
    <3>2. QED
      BY <1>2, <3>1, GrowsFor
  <2>2. QED
    BY <2>1 DEF WrittenOff
<1>4. Types'
  BY <1>1, <1>2 DEF Types
<1>5. QED
  BY <1>1, <1>2, <1>3, <1>4, StepKeeps

SetItem(i, state) == items' = [items EXCEPT ![i] = state]

\* An item is set to WRITTEN_OFF for a request that was agreed, or is so already.
MaySet(i, state) ==
    state = "WRITTEN_OFF" =>
        (i \in ItemIds /\ items[i] = "WRITTEN_OFF") \/ \E r \in RequestIds : AgreedFor(r, i)

LEMMA ItemKeeps ==
  ASSUME Inv, NEW h \in Handlers, Plain(h), NEW i, NEW state \in ItemStates,
         SetItem(i, state), MaySet(i, state),
         UNCHANGED <<chain, chainLock, prevHash, approvals>>
  PROVE  Inv'
<1>1. items \in [ItemIds -> ItemStates]
  BY DEF Inv, Types
<1>2. items' \in [ItemIds -> ItemStates] /\ \A j \in ItemIds : items'[j] = IF j = i THEN state ELSE items[j]
  BY <1>1 DEF SetItem
<1>3. Relies(h)'
  BY CarelessRelies DEF Plain
<1>4. QED
  BY <1>2, <1>3, ItemsKeep DEF Plain, MaySet

LEMMA ReconKeeps ==
  ASSUME Inv, NEW h \in Handlers, ReconStep(h)
  PROVE  Inv'
<1>1. TaskTypes /\ Relies(h) /\ items \in [ItemIds -> ItemStates]
  BY DEF Inv, Types
<1>2. UNCHANGED <<chain, chainLock, prevHash, approvals>>
  BY DEF ReconStep, StartRun, ReadLine, MarkPaid, CloseMatchedItem, FindItem, CreateItem, AlertMirror,
         MirrorCheck, UpdateItem, WriteUpdate, ReadWriteOff, WriteOff, auditVars
<1>3. \A op \in {"line", "openItem", "closeItem", "markPaid", "createItem", "alertMirror"} : op \notin Careful
  BY DEF Careful, Appending
<1>4. CASE \E lines \in SUBSET Refs \ {{}} : StartRun(h, lines)
  BY <1>1, <1>2, <1>3, <1>4, PlainStart, OrdinaryKeeps DEF StartRun, reconVars
<1>5. ASSUME NEW r \in Refs, NEW sameAmount \in BOOLEAN, ReadLine(h, r, sameAmount) PROVE Inv'
  <2>1. PICK op \in {"openItem", "closeItem", "markPaid"} : op = Outcome(r, sameAmount)
    BY DEF Outcome
  <2>2. task' = [task EXCEPT ![h].op = op, ![h].id = r] /\ UNCHANGED items
    BY <1>5, <2>1 DEF ReadLine, reconVars
  <2>3. Plain(h)
    BY <1>1, <1>3, <2>2, PlainExcept
  <2>4. QED
    BY <1>2, <2>2, <2>3, OrdinaryKeeps
<1>6. CASE MarkPaid(h)
  <2>1. (Goto(h, "line") \/ Goto(h, "openItem")) /\ UNCHANGED items
    BY <1>6 DEF MarkPaid
  <2>2. QED
    BY <1>1, <1>2, <1>3, <2>1, PlainGoto, OrdinaryKeeps
<1>7. CASE CloseMatchedItem(h)
  <2>1. PICK i : i = task[h].id
    OBVIOUS
  <2>2. PICK state : state = IF items[i] \in OpenStates THEN "RESOLVED" ELSE items[i]
    OBVIOUS
  <2>3. SetItem(i, state) /\ Plain(h)
    BY <1>1, <1>3, <1>7, <2>1, <2>2, PlainGoto DEF CloseMatchedItem, SetItem
  <2>4. CASE i \in ItemIds
    <3>1. state \in ItemStates /\ MaySet(i, state)
      BY <1>1, <2>2, <2>4 DEF ItemStates, MaySet
    <3>2. QED
      BY <1>2, <2>3, <2>4, <3>1, ItemKeeps
  <2>5. CASE i \notin ItemIds
    BY <1>1, <1>2, <2>3, <2>5, OrdinaryKeeps DEF SetItem
  <2>6. QED
    BY <2>4, <2>5
<1>8. CASE FindItem(h)
  <2>1. Plain(h) /\ UNCHANGED items
    BY <1>1, <1>3, <1>8, PlainGoto, PlainRecord DEF FindItem, reconVars
  <2>2. QED
    BY <1>2, <2>1, OrdinaryKeeps
<1>9. CASE CreateItem(h)
  <2>1. Plain(h)
    BY <1>1, <1>3, <1>9, PlainGoto, PlainRecord, PlainEnd DEF CreateItem
  <2>2. PICK i : i = task[h].id
    OBVIOUS
  <2>3. CASE SetItem(i, "OPEN")
    <3>1. "OPEN" \in ItemStates /\ MaySet(i, "OPEN")
      BY DEF ItemStates, OpenStates, MaySet
    <3>2. QED
      BY <1>2, <2>1, <2>3, <3>1, ItemKeeps
  <2>4. CASE UNCHANGED items
    BY <1>2, <2>1, <2>4, OrdinaryKeeps
  <2>5. QED
    BY <1>9, <2>2, <2>3, <2>4 DEF CreateItem, SetItem
<1>10. CASE AlertMirror(h)
  BY <1>1, <1>2, <1>10, PlainRecord, OrdinaryKeeps DEF AlertMirror
<1>11. CASE \E gap \in BOOLEAN : MirrorCheck(h, gap)
  <2>1. Plain(h) /\ UNCHANGED items
    BY <1>1, <1>3, <1>11, PlainExcept, PlainEnd DEF MirrorCheck, reconVars
  <2>2. QED
    BY <1>2, <2>1, OrdinaryKeeps
<1>12. ASSUME NEW s \in Staff, NEW i \in ItemIds, NEW state \in ItemStates, UpdateItem(h, s, i, state)
       PROVE  Inv'
  <2>1. Moves(h, {"updateItem"}) /\ task'[h].seen = state /\ state \in Settable /\ UNCHANGED items
    BY <1>1, <1>12, StartMoves DEF UpdateItem, reconVars
  <2>2. Relies(h)'
    BY <2>1 DEF Moves, Relies, HoldsChain, HoldsRequest, Appending
  <2>3. QED
    BY <1>1, <1>2, <2>1, <2>2, ItemsKeep DEF Moves
<1>13. CASE WriteUpdate(h)
  <2>1. PICK i, state : i = task[h].id /\ state = task[h].seen
    OBVIOUS
  <2>2. state \in Settable /\ SetItem(i, state) /\ Plain(h)
    BY <1>1, <1>13, <2>1, PlainRecord, PlainEnd DEF WriteUpdate, Relies, HoldsRequest, SetItem
  <2>3. state \in ItemStates /\ MaySet(i, state)
    BY <2>2 DEF Settable, ItemStates, OpenStates, MaySet
  <2>4. QED
    BY <1>2, <2>2, <2>3, ItemKeeps
<1>14. CASE ReadWriteOff(h)
  <2>1. UNCHANGED items
    BY <1>14 DEF ReadWriteOff, reconVars
  <2>2. PICK a, i : a = task[h].appr /\ i = approvals[a].target
    OBVIOUS
  <2>3. CASE task' = [task EXCEPT ![h].op = "writeOff", ![h].id = i]
    <3>1. a \in RequestIds /\ AgreedFor(a, i)
      BY <1>1, <1>14, <2>2 DEF ReadWriteOff, Executing, Relies, HoldsRequest, AgreedFor
    <3>2. Moves(h, {"writeOff"})
      BY <1>1, <2>3, ExceptMoves
    <3>3. task'[h].id = i /\ task'[h].appr = a
      BY <1>1, <2>2, <2>3 DEF TaskTypes, IsTask, Fields
    <3>4. AgreedFor(a, i)'
      BY <1>2, <3>1 DEF AgreedFor, Agreed
    <3>5. HoldsRequest(h)'
      <4>1. AgreedFor(task[h].appr, task[h].id)'
        BY <3>3, <3>4 DEF AgreedFor, Agreed
      <4>2. QED
        BY <3>1, <3>2, <3>3, <4>1 DEF Moves, HoldsRequest
    <3>6. Relies(h)'
      BY <3>2, <3>5 DEF Moves, Relies, HoldsChain, Appending
    <3>7. QED
      BY <1>1, <1>2, <2>1, <3>2, <3>6, ItemsKeep DEF Moves
  <2>4. CASE Return(h) \/ Throw(h)
    BY <1>1, <1>2, <2>1, <2>4, PlainEnd, OrdinaryKeeps
  <2>5. QED
    BY <1>14, <2>2, <2>3, <2>4 DEF ReadWriteOff
<1>15. CASE WriteOff(h)
  <2>1. PICK i, r : i = task[h].id /\ r = task[h].appr
    OBVIOUS
  <2>2. r \in RequestIds /\ AgreedFor(r, i)
    BY <1>1, <1>15, <2>1 DEF WriteOff, Relies, HoldsRequest, AgreedFor, Agreed
  <2>3. Plain(h) /\ SetItem(i, "WRITTEN_OFF")
    BY <1>1, <1>15, <2>1, PlainRecord DEF WriteOff, SetItem
  <2>4. "WRITTEN_OFF" \in ItemStates /\ MaySet(i, "WRITTEN_OFF")
    BY <2>2 DEF ItemStates, MaySet
  <2>5. QED
    BY <1>2, <2>3, <2>4, ItemKeeps
<1>16. QED
  BY <1>4, <1>5, <1>6, <1>7, <1>8, <1>9, <1>10, <1>11, <1>12, <1>13, <1>14, <1>15 DEF ReconStep

----------------------------------------------------------------------------
(* The placing of orders. *)

LEMMA EntryKeeps ==
  ASSUME Inv, NEW h \in Handlers, EntryStep(h), UNCHANGED items
  PROVE  Inv'
<1>1. TaskTypes
  BY DEF Inv, Types
<1>2. UNCHANGED <<chain, chainLock, prevHash, approvals>>
  BY DEF EntryStep, LoadInstrument, CanTrade, QuoteFee, QuoteGlobalFee, CanPlaceOrder, InsertOrder,
         auditVars
<1>3. Plain(h)
  <2>1. \A op \in {"canTrade", "quoteFee", "quoteGlobalFee", "canPlace", "insertOrder"} :
            op \notin Careful
    BY DEF Careful, Appending
  <2>2. CASE \E side \in {"BUY", "SELL"} : LoadInstrument(h, side)
    BY <1>1, <2>1, <2>2, PlainStart DEF LoadInstrument
  <2>3. CASE CanTrade(h)
    <3>1. Goto(h, "quoteFee") \/ Done(h)
      BY <2>3 DEF CanTrade, Goto
    <3>2. QED
      BY <1>1, <2>1, <3>1, PlainGoto, PlainEnd
  <2>4. CASE QuoteFee(h)
    <3>1. Goto(h, "canPlace") \/ task' = [task EXCEPT ![h].op = "quoteGlobalFee", ![h].id = now]
      BY <2>4 DEF QuoteFee
    <3>2. QED
      BY <1>1, <2>1, <3>1, PlainGoto, PlainExcept
  <2>5. CASE QuoteGlobalFee(h)
    BY <1>1, <2>1, <2>5, PlainGoto DEF QuoteGlobalFee
  <2>6. CASE \E funded \in BOOLEAN : CanPlaceOrder(h, funded)
    <3>1. Goto(h, "insertOrder") \/ Done(h)
      BY <2>6 DEF CanPlaceOrder
    <3>2. QED
      BY <1>1, <2>1, <3>1, PlainGoto, PlainEnd
  <2>7. CASE InsertOrder(h)
    BY <1>1, <2>7, PlainRecord, PlainEnd DEF InsertOrder
  <2>8. QED
    BY <2>2, <2>3, <2>4, <2>5, <2>6, <2>7 DEF EntryStep
<1>4. QED
  BY <1>2, <1>3, OrdinaryKeeps

----------------------------------------------------------------------------
(* Requests, and what happens outside the handlers. *)

LEMMA RequestedKeeps ==
  ASSUME Inv, NEW s \in Staff, NEW action, NEW target, NEW decision,
         Requested(s, action, target, decision),
         UNCHANGED <<task, chain, chainLock, prevHash, items>>
  PROVE  Inv'
<1> DEFINE a == [state |-> "PENDING", action |-> action, target |-> target,
                 decision |-> decision, maker |-> s, checker |-> Nobody]
<1>1. IsRequest(a)
  BY DEF IsRequest, Columns
<1>2. PICK r \in RequestIds : approvals[r] = NoRequest /\ approvals' = [approvals EXCEPT ![r] = a]
  BY DEF Requested
<1> HIDE DEF a
<1>3. /\ RequestTypes' /\ \A q \in RequestIds \ {r} : approvals'[q] = approvals[q]
  BY <1>1, <1>2, SetRequest DEF Inv, Types
<1>4. approvals[r].state = "NONE"
  <2>1. NoRequest.state = "NONE"
    BY DEF NoRequest
  <2>2. QED
    BY <1>2, <2>1
<1>5. Grows
  BY <1>3, <1>4 DEF Grows, Agreed
<1>6. QED
  BY <1>3, <1>5, OutsideKeeps

LEMMA ArriveKeeps ==
  ASSUME Inv, Arrive
  PROVE  Inv'
<1>1. ASSUME NEW s \in Staff, NEW i \in ItemIds, RequestWriteOff(s, i),
             UNCHANGED <<settingsVars, logs, Rest>>
      PROVE  Inv'
  BY <1>1, RequestedKeeps DEF RequestWriteOff, auditVars, reconVars, Rest
<1>2. ASSUME NEW r \in Refs, NEW state \in {"PAID", "FAILED"}, PaymentSettles(r, state),
             UNCHANGED <<settingsVars, logs, Rest>>
      PROVE  Inv'
  BY <1>2, SameRequests, OutsideKeeps
     DEF PaymentSettles, approvalVars, auditVars, Rest
<1>3. CASE Tick /\ UNCHANGED <<reconVars, logs, Rest>>
  BY <1>3, SameRequests, OutsideKeeps DEF Tick, approvalVars, auditVars, reconVars, Rest
<1>4. ASSUME NEW s \in Staff, NEW v \in Values, RequestConfigChange(s, v), UNCHANGED <<reconVars, logs, Rest>>
      PROVE  Inv'
  BY <1>4, RequestedKeeps DEF RequestConfigChange, auditVars, reconVars, Rest
<1>5. ASSUME NEW s \in Staff, RequestToggle(s) \/ RequestPosting(s) \/ RequestForceComplete(s),
             UNCHANGED <<reconVars, logs, Rest>>
      PROVE  Inv'
  <2>1. PICK action, decision : Requested(s, action, 0, decision)
    BY <1>5 DEF RequestToggle, RequestPosting, RequestForceComplete
  <2>2. UNCHANGED <<task, auditVars>>
    BY <1>5 DEF RequestToggle, RequestPosting, RequestForceComplete
  <2>3. QED
    BY <1>5, <2>1, <2>2, RequestedKeeps DEF auditVars, reconVars, Rest
<1>6. ASSUME NEW s \in Staff, NEW m, NEW name, RequestFeeChange(s, m, name),
             UNCHANGED <<reconVars, logs, quoteVars, entryVars, Reports>>
      PROVE  Inv'
  BY <1>6, RequestedKeeps DEF RequestFeeChange, auditVars, reconVars
<1>7. CASE ClientChanges /\ UNCHANGED <<reconVars, logs, Reports>>
  BY <1>7, SameRequests, OutsideKeeps DEF ClientChanges, approvalVars, auditVars, reconVars
<1>8. CASE UNCHANGED <<approvalVars, auditVars, reconVars, settingsVars, logs, Orders, portfolioVars>>
  BY <1>8, SameRequests, OutsideKeeps DEF approvalVars, auditVars, reconVars
<1>9. QED
  BY <1>1, <1>2, <1>3, <1>4, <1>5, <1>6, <1>7, <1>8 DEF Arrive

----------------------------------------------------------------------------
(* Every step. *)

LEMMA ServeKeeps ==
  ASSUME Inv, NEW h \in Handlers, Serve(h)
  PROVE  Inv'
<1>1. CASE ApprovalStep(h) /\ UNCHANGED <<auditVars, reconVars, settingsVars, logs, Rest>>
  BY <1>1, ApprovalKeeps DEF auditVars, reconVars, Rest
<1>2. CASE AuditStep(h) /\ UNCHANGED <<reconVars, settingsVars, logs, Rest>>
  BY <1>2, AuditKeeps DEF reconVars, Rest
<1>3. CASE (\E kind : OtherEntry(h, kind)) /\ UNCHANGED <<reconVars, settingsVars, logs, Rest>>
  BY <1>3, OtherEntryKeeps DEF reconVars, Rest
<1>4. CASE ReconStep(h) /\ UNCHANGED <<settingsVars, logs, Rest>>
  BY <1>4, ReconKeeps DEF Rest, Orders, entryVars
<1>5. CASE ConfigStep(h) /\ UNCHANGED <<reconVars, logs, Rest>>
  BY <1>5, ConfigKeeps DEF reconVars, Rest
<1>6. CASE SwitchStep(h) /\ UNCHANGED <<reconVars, logs, Rest>>
  BY <1>6, SwitchKeeps DEF reconVars, Rest
<1>7. CASE NotificationStep(h) /\ UNCHANGED <<reconVars, settingsVars, Rest>>
  BY <1>7, NotificationKeeps DEF reconVars, Rest
<1>8. CASE QuoteStep(h) /\ UNCHANGED <<reconVars, settingsVars, logs, schedules, entryVars, Reports>>
  BY <1>8, QuoteKeeps DEF reconVars
<1>9. CASE (DirectFeeStep(h) \/ FeeChangeStep(h)) /\ UNCHANGED <<reconVars, logs, quoteVars, entryVars, Reports>>
  BY <1>9, FeeKeeps DEF FeeStep, DirectFeeStep, FeeChangeStep, reconVars
<1>10. CASE EntryStep(h) /\ UNCHANGED <<reconVars, logs, Reports>>
  BY <1>10, EntryKeeps DEF reconVars
<1>11. CASE PortfolioStep(h) /\ UNCHANGED <<reconVars, logs, Orders, validityVars>>
  BY <1>11, PortfolioKeeps DEF reconVars
<1>12. QED
  BY <1>1, <1>2, <1>3, <1>4, <1>5, <1>6, <1>7, <1>8, <1>9, <1>10, <1>11 DEF Serve

\* The process stops: every handler starts afresh, the rows stay.
LEMMA CrashKeeps ==
  ASSUME Inv, Crash
  PROVE  Inv'
<1>1. /\ task' = [h \in Handlers |-> Idle]
      /\ prevHash' = [h \in Handlers |-> NoHash]
      /\ UNCHANGED <<approvals, chain, items>>
  BY DEF Crash, CrashAudit, CrashTasks, reconVars
<1>2. IsTask(Idle) /\ Idle.op = "idle"
  BY DEF IsTask, Idle, Fields
<1>3. RequestTypes' /\ Grows
  BY <1>1, SameRequests
<1>4. items' \in [ItemIds -> ItemStates] /\ WrittenOff'
  BY <1>1, <1>3, SameItems
<1>5. TaskTypes'
  BY <1>1, <1>2 DEF TaskTypes
<1>6. ChainTypes' /\ Linked'
  BY <1>1 DEF Inv, Types, ChainTypes, Linked, Follows
<1>7. "idle" \notin Careful
  BY DEF Careful, Appending
<1>8. ASSUME NEW h \in Handlers PROVE Relies(h)'
  <2>1. task'[h].op \notin Careful
    BY <1>1, <1>2, <1>7
  <2>2. QED
    BY <2>1, CarelessRelies
<1>9. QED
  BY <1>3, <1>4, <1>5, <1>6, <1>8 DEF Inv, Types

LEMMA NextKeeps ==
  ASSUME Inv, [Next]_vars
  PROVE  Inv'
<1>1. CASE UNCHANGED vars
  BY <1>1, SameRequests, OutsideKeeps DEF vars, approvalVars, auditVars, reconVars, entryVars
<1>2. CASE Next
  BY <1>2, ServeKeeps, ArriveKeeps, CrashKeeps DEF Next
<1>3. QED
  BY <1>1, <1>2

THEOREM InvHolds == Spec => []Inv
<1>1. Init => Inv
  BY InitInv
<1>2. Inv /\ [Next]_vars => Inv'
  BY NextKeeps
<1>3. QED
  BY <1>1, <1>2, PTL DEF Spec

----------------------------------------------------------------------------
\* The audit chain verifies from any row at any time: whatever handlers append to
\* it, wherever a transaction fails and whenever the process stops, the row that
\* commits follows the row that was read as the last one under the lock
\* (audit.service.ts:169-170).
THEOREM AuditVerifies == Spec => []ChainVerifies
<1>1. Inv => ChainVerifies
  <2> SUFFICES ASSUME Inv PROVE ChainVerifies
    OBVIOUS
  <2>1. ASSUME NEW from \in 1 .. Len(chain) + 1, NEW i \in from .. Len(chain) PROVE Follows(i)
    <3>1. Len(chain) \in Nat
      BY DEF Inv, Types, ChainTypes
    <3>2. i \in 1 .. Len(chain)
      BY <3>1
    <3>3. QED
      BY <3>2 DEF Inv, Linked
  <2>2. QED
    BY <2>1 DEF ChainVerifies, verifyChain, Follows
<1>2. QED
  BY <1>1, InvHolds, PTL

\* An item of the reconciliation is WRITTEN_OFF only for a request about it that a
\* second person approved, however many runs, updates and write-offs interleave
\* and wherever the process stops between the approval, the executor and the row.
THEOREM WriteOffsTakeTwo == Spec => []WrittenOffByTwoPeople
<1>1. Inv => WrittenOffByTwoPeople
  BY DEF Inv, WrittenOff, AgreedFor, Agreed, WrittenOffByTwoPeople
<1>2. QED
  BY <1>1, InvHolds, PTL

----------------------------------------------------------------------------
(* What the calls of one kind rely on, that no call of another touches. *)

ConfigOps == {"queryConfig", "fillCache", "closeRows", "insertOnly", "insertRowAndClose"}
RetryOps == {"failedLog", "sendNew", "sendAgain", "writeNew", "writeAgain"}
FeeOps == {"matchSchedules", "lockSchedules", "insertSchedule"}
ReportOps == {"statement", "posting"}
Special == ConfigOps \cup RetryOps \cup FeeOps \cup ReportOps

\* A value decided on is one of the parameter's.
Decided ==
    \A r \in RequestIds :
        approvals[r].action = "CONFIG_CHANGE" => approvals[r].decision \in Values

\* Every version that was current at a time was in force no earlier, and what the
\* cache holds, or is about to, lapses TTL after that.
SettingsTypes ==
    /\ now \in 0 .. MaxTime
    /\ config \subseteq [value : Values, from : Int, to : Int]
    /\ inForce \in [Values -> Never .. now]
    /\ cache \in [value : Values, expiresAt : Int]
RowsRecent == \A t \in 0 .. now : \A row \in current(config, t) : t <= inForce[row.value]
CacheRecent == cache.expiresAt <= inForce[cache.value] + TTL
HoldsVersion(h) ==
    /\ task[h].op \in ConfigOps => task[h].id \in 0 .. now
    /\ task[h].op \in ConfigOps \ {"queryConfig"} => task[h].seen \in Values
    /\ task[h].op = "fillCache" => task[h].id <= inForce[task[h].seen]

SettingsInv ==
    /\ Decided /\ SettingsTypes /\ RowsRecent /\ CacheRecent
    /\ \A h \in Handlers : HoldsVersion(h)

\* Every run of the job that may still try a row again counts as an attempt.
ListTypes == DOMAIN todo = Handlers /\ todo = [h \in Handlers |-> todo[h]]
LogTypes == logs \in [LogIds -> [status : {"NONE", "QUEUED", "SENT", "FAILED"}, attempts : Nat]]
Pending(h, l) ==
    \/ task[h].op \in {"failedLog", "sendAgain", "writeAgain"} /\ l \in todo[h]
    \/ task[h].op \in RetryOps \ {"failedLog"} /\ l = task[h].id
PendingAt(l) == {h \in Handlers : Pending(h, l)}
Limit == MAX_ATTEMPTS + Cardinality(Handlers) - 1
AttemptsBounded == \A l \in LogIds : logs[l].attempts + Cardinality(PendingAt(l)) <= Limit
HoldsLog(h) ==
    /\ task[h].op \in RetryOps \ {"failedLog"} => task[h].id \in LogIds
    /\ task[h].op \in {"failedLog", "sendAgain", "writeAgain"} => todo[h] \subseteq LogIds
    /\ task[h].op \in {"sendAgain", "writeAgain"} => task[h].id \notin todo[h]
    /\ task[h].op \in {"writeNew", "writeAgain"} => task[h].seen \in {"SENT", "FAILED"}

LogsInv ==
    /\ ListTypes /\ LogTypes /\ AttemptsBounded
    /\ \A h \in Handlers : HoldsLog(h)

\* What a change of fees is about to close are schedules of its market.
ScheduleFields == {"market", "rate", "from", "to", "active"}
IsSchedule(s) ==
    /\ DOMAIN s = ScheduleFields /\ s = [f \in ScheduleFields |-> s[f]]
    /\ s.from \in Int /\ s.to \in Int
ScheduleTypes ==
    /\ \E S : schedules \in Seq(S)
    /\ \A i \in DOMAIN schedules : IsSchedule(schedules[i])
HoldsFees(h) ==
    /\ task[h].op \in FeeOps =>
          /\ task[h].id \in 0 .. now
          /\ task[h].appr \in RequestIds /\ approvals[task[h].appr].state # "NONE"
    /\ task[h].op \in {"lockSchedules", "insertSchedule"} =>
          \A i \in todo[h] :
              i \in DOMAIN schedules /\ schedules[i].market = approvals[task[h].appr].target

FeesInv ==
    /\ calls \in Nat /\ ScheduleTypes
    /\ \A h \in Handlers : HoldsFees(h)

\* What a statement has not seen was posted since it began.
Reading == [queries : SUBSET {"entries", "after"}, movements : Nat, after : Nat, known : Nat]
Lags(pending, read, inMonth, afterMonth, length) ==
    /\ read.known <= length
    /\ "entries" \notin pending => read.movements <= inMonth
    /\ "after" \notin pending => read.after <= afterMonth
    /\ (IF "entries" \in pending THEN 0 ELSE inMonth - read.movements)
          + (IF "after" \in pending THEN 0 ELSE afterMonth - read.after)
          <= length - read.known
Missed(h, m) ==
    /\ m \in Nat /\ StartOf(m) <= now
    /\ Lags(reading[h].queries, reading[h], InMonth(m), AfterMonth(m), Len(posted))
HoldsReading(h) ==
    IF task[h].op = "statement"
    THEN Missed(h, task[h].id)
    ELSE reading[h].queries = {} /\ (task[h].op = "posting" => task[h].id \in Int)

\* A balance given out is the one at an instant, but for what it counts too much,
\* and for what was in flight then: the rest of that may still commit.
Flying(at) == {h \in Handlers : task[h].op = "posting" /\ task[h].id < at}
Covers(balance, late, unseen, at) ==
    /\ balance <= Before(at) + late
    /\ Before(at) + InFlight(at) <= balance + unseen
Says(s) ==
    /\ Covers(s.opening, s.late, s.unseen.opening, StartOf(s.month))
    /\ s.over => Covers(s.closing, s.late, s.unseen.closing, EndOf(s.month))
Given(s) ==
    /\ s.month \in Nat /\ s.opening \in Int /\ s.closing \in Int
    /\ s.over \in BOOLEAN /\ s.late \in Nat
    /\ s.unseen.opening \in Nat /\ s.unseen.closing \in Nat
    /\ StartOf(s.month) <= now /\ (s.over => EndOf(s.month) <= now)

ReportsInv ==
    /\ posted \in Seq(Int) /\ reading \in [Handlers -> Reading]
    /\ \A s \in statements : Given(s) /\ Says(s)
    /\ \A h \in Handlers : HoldsReading(h)

----------------------------------------------------------------------------
(* The steps of the calls that are not special. *)

LEMMA IdMoves ==
  ASSUME TaskTypes, NEW h \in Handlers, NEW op, NEW id, task' = [task EXCEPT ![h].op = op, ![h].id = id]
  PROVE  Moves(h, {op}) /\ task'[h].id = id /\ task'[h].seen = task[h].seen /\ task'[h].appr = task[h].appr
<1> DEFINE u == [task[h] EXCEPT !.op = op, !.id = id]
<1>1. IsTask(task[h])
  BY DEF TaskTypes
<1>2. IsTask(u) /\ u.op = op /\ u.id = id /\ u.seen = task[h].seen /\ u.appr = task[h].appr
  BY <1>1 DEF IsTask, Fields
<1>3. task' = [task EXCEPT ![h] = u]
  BY DEF TaskTypes
<1> HIDE DEF u
<1>4. Moves(h, {u.op}) /\ task'[h] = u
  BY <1>2, <1>3, SetTask
<1>5. QED
  BY <1>2, <1>4

LEMMA SeenMoves ==
  ASSUME TaskTypes, NEW h \in Handlers, NEW op, NEW seen,
         task' = [task EXCEPT ![h].op = op, ![h].seen = seen]
  PROVE  Moves(h, {op}) /\ task'[h].seen = seen /\ task'[h].id = task[h].id /\ task'[h].appr = task[h].appr
<1> DEFINE u == [task[h] EXCEPT !.op = op, !.seen = seen]
<1>1. IsTask(task[h])
  BY DEF TaskTypes
<1>2. IsTask(u) /\ u.op = op /\ u.seen = seen /\ u.id = task[h].id /\ u.appr = task[h].appr
  BY <1>1 DEF IsTask, Fields
<1>3. task' = [task EXCEPT ![h] = u]
  BY DEF TaskTypes
<1> HIDE DEF u
<1>4. Moves(h, {u.op}) /\ task'[h] = u
  BY <1>2, <1>3, SetTask
<1>5. QED
  BY <1>2, <1>4

SetsId(h, op, id) == task' = [task EXCEPT ![h].op = op, ![h].id = id]
SetsSeen(h, op, seen) == task' = [task EXCEPT ![h].op = op, ![h].seen = seen]

LEMMA SetsMove ==
  ASSUME TaskTypes, NEW h \in Handlers, NEW op, NEW value
  PROVE  /\ SetsId(h, op, value) =>
               /\ Moves(h, {op}) /\ task'[h].id = value
               /\ task'[h].seen = task[h].seen /\ task'[h].appr = task[h].appr
         /\ SetsSeen(h, op, value) =>
               /\ Moves(h, {op}) /\ task'[h].seen = value
               /\ task'[h].id = task[h].id /\ task'[h].appr = task[h].appr
<1>1. ASSUME SetsId(h, op, value)
      PROVE  Moves(h, {op}) /\ task'[h].id = value /\ task'[h].seen = task[h].seen /\ task'[h].appr = task[h].appr
  <2>1. task' = [task EXCEPT ![h].op = op, ![h].id = value]
    BY <1>1 DEF SetsId
  <2>2. QED
    BY <2>1, IdMoves
<1>2. ASSUME SetsSeen(h, op, value)
      PROVE  Moves(h, {op}) /\ task'[h].seen = value /\ task'[h].id = task[h].id /\ task'[h].appr = task[h].appr
  <2>1. task' = [task EXCEPT ![h].op = op, ![h].seen = value]
    BY <1>2 DEF SetsSeen
  <2>2. QED
    BY <2>1, SeenMoves
<1>3. QED
  BY <1>1, <1>2

SetsIdAndSeen(h, op, id, seen) ==
    task' = [task EXCEPT ![h].op = op, ![h].id = id, ![h].seen = seen]

LEMMA IdSeenMoves ==
  ASSUME TaskTypes, NEW h \in Handlers, NEW op, NEW id, NEW seen, SetsIdAndSeen(h, op, id, seen)
  PROVE  Moves(h, {op}) /\ task'[h].id = id /\ task'[h].seen = seen /\ task'[h].appr = task[h].appr
<1> DEFINE u == [task[h] EXCEPT !.op = op, !.id = id, !.seen = seen]
<1>1. IsTask(task[h])
  BY DEF TaskTypes
<1>2. IsTask(u) /\ u.op = op /\ u.id = id /\ u.seen = seen /\ u.appr = task[h].appr
  BY <1>1 DEF IsTask, Fields
<1>3. task' = [task EXCEPT ![h] = u]
  BY DEF TaskTypes, SetsIdAndSeen
<1> HIDE DEF u
<1>4. Moves(h, {u.op}) /\ task'[h] = u
  BY <1>2, <1>3, SetTask
<1>5. QED
  BY <1>2, <1>4

LEMMA MovesOneOf ==
  ASSUME NEW h, NEW ops, NEW op \in ops, Moves(h, {op})
  PROVE  Moves(h, ops)
BY DEF Moves

LEMMA EndTask ==
  ASSUME TaskTypes, NEW h \in Handlers, Done(h) \/ Return(h) \/ Throw(h) \/ Resume(h)
  PROVE  Moves(h, {"idle", "executed", "failed", "line"})
<1>1. CASE Done(h)
  BY <1>1, DoneMoves DEF Moves
<1>2. CASE ~Done(h)
  <2>1. Goto(h, "executed") \/ Goto(h, "failed") \/ Goto(h, "line")
    BY <1>2 DEF Return, Throw, Resume
  <2>2. QED
    BY <2>1, GotoMoves DEF Moves
<1>3. QED
  BY <1>1, <1>2

LEMMA RecordTask ==
  ASSUME TaskTypes, NEW h \in Handlers, NEW kind, Record(h, kind)
  PROVE  Moves(h, {"lockChain"})
BY IdMoves DEF Record

LEMMA WasIdle ==
  ASSUME NEW h, NEW op, NEW id, NEW who, NEW seen, NEW appr, Start(h, op, id, who, seen, appr)
  PROVE  task[h].op = "idle"
<1>1. Idle.op = "idle"
  BY DEF Idle
<1>2. QED
  BY <1>1 DEF Start

\* A handler at none of some steps goes on to none of them.
Avoids(h, ops) ==
    /\ TaskTypes'
    /\ \A g \in Handlers \ {h} : task'[g] = task[g]
    /\ task[h].op \notin ops
    /\ task'[h].op \notin ops
Ordinary(h) == Avoids(h, Special)

LEMMA AvoidsSome ==
  ASSUME NEW h, NEW from, NEW ops, NEW special, task[h].op \in from, Moves(h, ops),
         from \cap special = {}, ops \cap special = {}
  PROVE  Avoids(h, special)
BY DEF Moves, Avoids

LEMMA ApprovalAvoids ==
  ASSUME TaskTypes, NEW h \in Handlers, ApprovalStep(h)
  PROVE  Ordinary(h)
<1> DEFINE from == {"idle", "approve", "reject", "executed", "failed"}
           ops == {"approve", "reject", "execute", "idle", "executed", "failed", "line"}
<1>1. task[h].op \in from /\ Moves(h, ops)
  <2>1. ASSUME NEW r, NEW s, NEW verdict \in {"approve", "reject"}, ReadRequest(h, r, s, verdict)
        PROVE  task[h].op \in from /\ Moves(h, ops)
    <3>1. Start(h, verdict, r, s, "", 0)
      BY <2>1 DEF ReadRequest
    <3>2. Moves(h, {verdict}) /\ task[h].op = "idle"
      BY <3>1, StartMoves, WasIdle
    <3>3. QED
      BY <3>2 DEF Moves
  <2>2. CASE ClaimApproved(h)
    <3>1. CASE ~Done(h)
      <4>1. PICK r : task' = [task EXCEPT ![h].op = "execute", ![h].appr = r]
        BY <2>2, <3>1 DEF ClaimApproved
      <4>2. Moves(h, {"execute"})
        BY <4>1, ExceptMoves
      <4>3. QED
        BY <2>2, <4>2 DEF ClaimApproved, Moves
    <3>2. QED
      BY <2>2, <3>1, DoneMoves DEF ClaimApproved, Moves
  <2>3. CASE ClaimRejected(h) \/ Finish(h)
    BY <2>3, DoneMoves DEF ClaimRejected, Finish, Moves
  <2>4. QED
    BY <2>1, <2>2, <2>3 DEF ApprovalStep
<1>2. from \cap Special = {} /\ ops \cap Special = {}
  BY DEF Special, ConfigOps, RetryOps, FeeOps, ReportOps
<1> HIDE DEF from, ops
<1>3. QED
  BY <1>1, <1>2, AvoidsSome DEF Ordinary

LEMMA AuditAvoids ==
  ASSUME TaskTypes, NEW h \in Handlers, AuditStep(h) \/ \E kind : OtherEntry(h, kind)
  PROVE  Ordinary(h)
<1> DEFINE from == {"idle", "lockChain", "readLast", "insertRow"}
           ops == {"lockChain", "readLast", "insertRow", "idle", "executed", "failed", "line"}
<1>1. task[h].op \in from /\ Moves(h, ops)
  <2>1. ASSUME NEW kind, OtherEntry(h, kind) PROVE task[h].op \in from /\ Moves(h, ops)
    <3>1. Start(h, "lockChain", kind, Nobody, "", 0)
      BY <2>1 DEF OtherEntry
    <3>2. Moves(h, {"lockChain"}) /\ task[h].op = "idle"
      BY <3>1, StartMoves, WasIdle
    <3>3. QED
      BY <3>2 DEF Moves
  <2>2. CASE LockChain(h) \/ ReadLast(h)
    BY <2>2, GotoMoves DEF LockChain, ReadLast, Moves
  <2>3. CASE InsertRow(h)
    BY <2>3, RecordTask, EndTask DEF InsertRow, Moves
  <2>4. CASE AbortAppend(h)
    BY <2>4, EndTask DEF AbortAppend, Moves
  <2>5. QED
    BY <2>1, <2>2, <2>3, <2>4 DEF AuditStep
<1>2. from \cap Special = {} /\ ops \cap Special = {}
  BY DEF Special, ConfigOps, RetryOps, FeeOps, ReportOps
<1> HIDE DEF from, ops
<1>3. QED
  BY <1>1, <1>2, AvoidsSome DEF Ordinary

LEMMA ReconAvoids ==
  ASSUME TaskTypes, NEW h \in Handlers, ReconStep(h)
  PROVE  Ordinary(h)
<1> DEFINE from == {"idle", "line", "markPaid", "closeItem", "openItem", "createItem", "alertMirror",
                    "updateItem", "execute", "writeOff"}
           ops == {"idle", "line", "markPaid", "closeItem", "openItem", "createItem", "alertMirror",
                   "updateItem", "writeOff", "lockChain", "executed", "failed"}
           Goes == task[h].op \in from /\ Moves(h, ops)
<1>1. Goes
  <2>1. ASSUME NEW lines, StartRun(h, lines) PROVE Goes
    BY <2>1, StartMoves, WasIdle DEF StartRun, Moves
  <2>2. ASSUME NEW r, NEW sameAmount, ReadLine(h, r, sameAmount) PROVE Goes
    <3>1. PICK op \in {"openItem", "closeItem", "markPaid"} : op = Outcome(r, sameAmount)
      BY DEF Outcome
    <3>2. Moves(h, {op})
      BY <2>2, <3>1, IdMoves DEF ReadLine
    <3>3. QED
      BY <2>2, <3>2 DEF ReadLine, Moves
  <2>3. CASE MarkPaid(h) \/ CloseMatchedItem(h)
    BY <2>3, GotoMoves DEF MarkPaid, CloseMatchedItem, Moves
  <2>4. CASE FindItem(h) \/ CreateItem(h)
    BY <2>4, GotoMoves, RecordTask, DoneMoves DEF FindItem, CreateItem, Moves
  <2>5. CASE AlertMirror(h) \/ WriteOff(h)
    BY <2>5, RecordTask DEF AlertMirror, WriteOff, Moves
  <2>6. ASSUME NEW gap, MirrorCheck(h, gap) PROVE Goes
    <3>1. CASE Done(h)
      BY <2>6, <3>1, DoneMoves DEF MirrorCheck, Moves
    <3>2. CASE ~Done(h)
      <4>1. SetsIdAndSeen(h, "openItem", Mirror, "")
        BY <2>6, <3>2 DEF MirrorCheck, SetsIdAndSeen
      <4>2. Moves(h, {"openItem"})
        BY <4>1, IdSeenMoves
      <4>3. QED
        BY <2>6, <4>2 DEF MirrorCheck, Moves
    <3>3. QED
      BY <3>1, <3>2
  <2>7. ASSUME NEW s, NEW i, NEW state, UpdateItem(h, s, i, state) PROVE Goes
    BY <2>7, StartMoves, WasIdle DEF UpdateItem, Moves
  <2>8. CASE WriteUpdate(h)
    BY <2>8, RecordTask, DoneMoves DEF WriteUpdate, Moves
  <2>9. CASE ReadWriteOff(h)
    <3>1. (\E i : task' = [task EXCEPT ![h].op = "writeOff", ![h].id = i]) \/ Return(h) \/ Throw(h)
      BY <2>9 DEF ReadWriteOff
    <3>2. task[h].op \in from
      BY <2>9 DEF ReadWriteOff, Executing
    <3>3. QED
      BY <3>1, <3>2, IdMoves, EndTask DEF Moves
  <2>10. QED
    BY <2>1, <2>2, <2>3, <2>4, <2>5, <2>6, <2>7, <2>8, <2>9 DEF ReconStep
<1>2. from \cap Special = {} /\ ops \cap Special = {}
  BY DEF Special, ConfigOps, RetryOps, FeeOps, ReportOps
<1> HIDE DEF from, ops
<1>3. QED
  BY <1>1, <1>2, AvoidsSome DEF Ordinary

LEMMA SwitchAvoids ==
  ASSUME TaskTypes, NEW h \in Handlers, SwitchStep(h)
  PROVE  Ordinary(h)
<1> DEFINE from == {"execute"}
           ops == {"lockChain", "idle", "executed", "failed", "line"}
<1>1. task[h].op \in from /\ Moves(h, ops)
  <2>1. task[h].op = "execute"
    BY DEF SwitchStep, LiveTradingToggle, ExecutePosting, PaymentForceComplete, Executing
  <2>2. (\E kind : Record(h, kind)) \/ Return(h) \/ Throw(h)
    BY DEF SwitchStep, LiveTradingToggle, ExecutePosting, PaymentForceComplete
  <2>3. QED
    BY <2>1, <2>2, RecordTask, EndTask DEF Moves
<1>2. from \cap Special = {} /\ ops \cap Special = {}
  BY DEF Special, ConfigOps, RetryOps, FeeOps, ReportOps
<1> HIDE DEF from, ops
<1>3. QED
  BY <1>1, <1>2, AvoidsSome DEF Ordinary

LEMMA QuoteAvoids ==
  ASSUME TaskTypes, NEW h \in Handlers, QuoteStep(h)
  PROVE  Ordinary(h)
<1> DEFINE from == {"idle", "quoteRow", "readLatest", "refreshPrice"}
           ops == {"idle", "quoteRow", "readLatest", "refreshPrice"}
           Goes == task[h].op \in from /\ Moves(h, ops)
<1>1. Goes
  <2>1. ASSUME NEW rows, AddQuotes(h, rows) PROVE Goes
    <3>1. Start(h, "quoteRow", 0, Nobody, "", 0)
      BY <2>1 DEF AddQuotes
    <3>2. Moves(h, {"quoteRow"}) /\ task[h].op = "idle"
      BY <3>1, StartMoves, WasIdle
    <3>3. QED
      BY <3>2 DEF Moves
  <2>2. CASE UpsertQuote(h)
    <3>1. PICK d : task' = [task EXCEPT ![h].op = "readLatest", ![h].id = d]
      BY <2>2 DEF UpsertQuote
    <3>2. Moves(h, {"readLatest"})
      BY <3>1, IdMoves
    <3>3. QED
      BY <2>2, <3>2 DEF UpsertQuote, Moves
  <2>3. CASE ReadLatestQuote(h)
    <3>1. PICK close : close = quotes[task[h].id]
      OBVIOUS
    <3>2. PICK op \in {"quoteRow", "refreshPrice"} :
              task' = [task EXCEPT ![h].op = op, ![h].seen = close]
      BY <2>3, <3>1 DEF ReadLatestQuote
    <3>3. Moves(h, {op})
      BY <3>2, SeenMoves
    <3>4. QED
      BY <2>3, <3>3 DEF ReadLatestQuote, Moves
  <2>4. CASE RefreshPrice(h) \/ LogIngestion(h)
    BY <2>4, GotoMoves, DoneMoves DEF RefreshPrice, LogIngestion, Moves
  <2>5. QED
    BY <2>1, <2>2, <2>3, <2>4 DEF QuoteStep
<1>2. from \cap Special = {} /\ ops \cap Special = {}
  BY DEF Special, ConfigOps, RetryOps, FeeOps, ReportOps
<1> HIDE DEF from, ops
<1>3. QED
  BY <1>1, <1>2, AvoidsSome DEF Ordinary

LEMMA EntryAvoids ==
  ASSUME TaskTypes, NEW h \in Handlers, EntryStep(h)
  PROVE  Ordinary(h)
<1> DEFINE from == {"idle", "canTrade", "quoteFee", "quoteGlobalFee", "canPlace", "insertOrder"}
           ops == {"idle", "canTrade", "quoteFee", "quoteGlobalFee", "canPlace", "insertOrder", "lockChain"}
           Goes == task[h].op \in from /\ Moves(h, ops)
<1>1. Goes
  <2>1. ASSUME NEW side, LoadInstrument(h, side) PROVE Goes
    <3>1. Start(h, "canTrade", 0, Nobody, lastPrice, 0)
      BY <2>1 DEF LoadInstrument
    <3>2. Moves(h, {"canTrade"}) /\ task[h].op = "idle"
      BY <3>1, StartMoves, WasIdle
    <3>3. QED
      BY <3>2 DEF Moves
  <2>2. CASE CanTrade(h)
    <3>1. Goto(h, "quoteFee") \/ Done(h)
      BY <2>2 DEF CanTrade, Goto
    <3>2. QED
      BY <2>2, <3>1, GotoMoves, DoneMoves DEF CanTrade, Moves
  <2>3. CASE QuoteFee(h)
    <3>1. CASE ~Goto(h, "canPlace")
      <4>1. task' = [task EXCEPT ![h].op = "quoteGlobalFee", ![h].id = now]
        BY <2>3, <3>1 DEF QuoteFee
      <4>2. Moves(h, {"quoteGlobalFee"})
        BY <4>1, IdMoves
      <4>3. QED
        BY <2>3, <4>2 DEF QuoteFee, Moves
    <3>2. QED
      BY <2>3, <3>1, GotoMoves DEF QuoteFee, Moves
  <2>4. CASE QuoteGlobalFee(h)
    BY <2>4, GotoMoves DEF QuoteGlobalFee, Moves
  <2>5. ASSUME NEW funded, CanPlaceOrder(h, funded) PROVE Goes
    <3>1. Goto(h, "insertOrder") \/ Done(h)
      BY <2>5 DEF CanPlaceOrder
    <3>2. QED
      BY <2>5, <3>1, GotoMoves, DoneMoves DEF CanPlaceOrder, Moves
  <2>6. CASE InsertOrder(h)
    BY <2>6, RecordTask, DoneMoves DEF InsertOrder, Moves
  <2>7. QED
    BY <2>1, <2>2, <2>3, <2>4, <2>5, <2>6 DEF EntryStep
<1>2. from \cap Special = {} /\ ops \cap Special = {}
  BY DEF Special, ConfigOps, RetryOps, FeeOps, ReportOps
<1> HIDE DEF from, ops
<1>3. QED
  BY <1>1, <1>2, AvoidsSome DEF Ordinary

\* The calls of one special kind keep off the steps of the others.
LEMMA ConfigAvoids ==
  ASSUME TaskTypes, NEW h \in Handlers, ConfigStep(h)
  PROVE  Avoids(h, Special \ ConfigOps)
<1> DEFINE from == {"idle", "execute", "dropCache"} \cup ConfigOps
           ops == {"idle", "dropCache", "lockChain"} \cup ConfigOps
           Goes == task[h].op \in from /\ Moves(h, ops)
<1>1. Goes
  <2>1. CASE GetConfig(h)
    <3>1. Start(h, "queryConfig", now, Nobody, "", 0)
      BY <2>1 DEF GetConfig
    <3>2. Moves(h, {"queryConfig"}) /\ task[h].op = "idle"
      BY <3>1, StartMoves, WasIdle
    <3>3. QED
      BY <3>2 DEF Moves, ConfigOps
  <2>2. CASE QueryConfig(h)
    <3>1. PICK value : task' = [task EXCEPT ![h].op = "fillCache", ![h].seen = value]
      BY <2>2 DEF QueryConfig
    <3>2. Moves(h, {"fillCache"})
      BY <3>1, SeenMoves
    <3>3. QED
      BY <2>2, <3>2 DEF QueryConfig, Moves, ConfigOps
  <2>3. CASE FillCache(h) \/ DropCache(h)
    BY <2>3, DoneMoves, RecordTask DEF FillCache, DropCache, Moves, ConfigOps
  <2>4. CASE SetConfig(h)
    <3>1. PICK at, value : SetsIdAndSeen(h, "closeRows", at, value)
      BY <2>4 DEF SetConfig, SetsIdAndSeen
    <3>2. Moves(h, {"closeRows"})
      BY <3>1, IdSeenMoves
    <3>3. QED
      BY <2>4, <3>2 DEF SetConfig, Executing, Moves, ConfigOps
  <2>5. CASE CloseRows(h)
    <3>1. Goto(h, "insertOnly") \/ Goto(h, "insertRowAndClose")
      BY <2>5 DEF CloseRows
    <3>2. QED
      BY <2>5, <3>1, GotoMoves DEF CloseRows, Moves, ConfigOps
  <2>6. CASE CommitSet(h)
    BY <2>6, GotoMoves DEF CommitSet, Closing, Moves, ConfigOps
  <2>7. QED
    BY <2>1, <2>2, <2>3, <2>4, <2>5, <2>6 DEF ConfigStep
<1>2. from \cap (Special \ ConfigOps) = {} /\ ops \cap (Special \ ConfigOps) = {}
  BY DEF Special, ConfigOps, RetryOps, FeeOps, ReportOps
<1> HIDE DEF from, ops
<1>3. QED
  BY <1>1, <1>2, AvoidsSome

LEMMA NotificationAvoids ==
  ASSUME TaskTypes, NEW h \in Handlers, NotificationStep(h)
  PROVE  Avoids(h, Special \ RetryOps)
<1> DEFINE from == {"idle", "channel"} \cup RetryOps
           ops == {"idle", "channel"} \cup RetryOps
           Goes == task[h].op \in from /\ Moves(h, ops)
<1>1. Goes
  <2>1. CASE \E op \in {"channel", "failedLog"} : Start(h, op, 0, Nobody, "", 0)
    <3>1. PICK op \in {"channel", "failedLog"} : Start(h, op, 0, Nobody, "", 0)
      BY <2>1
    <3>2. Moves(h, {op}) /\ task[h].op = "idle"
      BY <3>1, StartMoves, WasIdle
    <3>3. QED
      BY <3>2 DEF Moves, RetryOps
  <2>2. CASE CreateLog(h)
    <3>1. PICK l : task' = [task EXCEPT ![h].op = "sendNew", ![h].id = l]
      BY <2>2 DEF CreateLog
    <3>2. Moves(h, {"sendNew"})
      BY <3>1, IdMoves
    <3>3. QED
      BY <2>2, <3>2 DEF CreateLog, Moves, RetryOps
  <2>3. ASSUME NEW accepted, Send(h, accepted) PROVE Goes
    <3>1. PICK op \in {"writeNew", "writeAgain"}, seen \in {"SENT", "FAILED"} :
              task' = [task EXCEPT ![h].op = op, ![h].seen = seen]
      BY <2>3 DEF Send
    <3>2. Moves(h, {op})
      BY <3>1, SeenMoves
    <3>3. QED
      BY <2>3, <3>2 DEF Send, Moves, RetryOps
  <2>4. CASE WriteAttempt(h)
    <3>1. Goto(h, "channel") \/ Goto(h, "failedLog")
      BY <2>4 DEF WriteAttempt
    <3>2. QED
      BY <2>4, <3>1, GotoMoves DEF WriteAttempt, Moves, RetryOps
  <2>5. CASE NextFailed(h)
    <3>1. PICK l : task' = [task EXCEPT ![h].op = "sendAgain", ![h].id = l]
      BY <2>5 DEF NextFailed
    <3>2. Moves(h, {"sendAgain"})
      BY <3>1, IdMoves
    <3>3. QED
      BY <2>5, <3>2 DEF NextFailed, Moves, RetryOps
  <2>6. CASE EndOfList(h)
    BY <2>6, DoneMoves DEF EndOfList, Moves, RetryOps
  <2>7. QED
    BY <2>1, <2>2, <2>3, <2>4, <2>5, <2>6 DEF NotificationStep, Dispatch, RetryFailed
<1>2. from \cap (Special \ RetryOps) = {} /\ ops \cap (Special \ RetryOps) = {}
  BY DEF Special, ConfigOps, RetryOps, FeeOps, ReportOps
<1> HIDE DEF from, ops
<1>3. QED
  BY <1>1, <1>2, AvoidsSome

LEMMA FeeAvoids ==
  ASSUME TaskTypes, NEW h \in Handlers, FeeStep(h)
  PROVE  Avoids(h, Special \ FeeOps)
<1> DEFINE from == {"idle", "execute"} \cup FeeOps
           ops == {"lockChain"} \cup FeeOps
           Goes == task[h].op \in from /\ Moves(h, ops)
<1>1. Goes
  <2>1. CASE Start(h, "lockChain", EVENT, Nobody, "", 0)
    <3>1. Moves(h, {"lockChain"}) /\ task[h].op = "idle"
      BY <2>1, StartMoves, WasIdle
    <3>2. QED
      BY <3>1 DEF Moves
  <2>2. CASE FeeChange(h)
    <3>1. task' = [task EXCEPT ![h].op = "matchSchedules", ![h].id = now]
      BY <2>2 DEF FeeChange
    <3>2. Moves(h, {"matchSchedules"})
      BY <3>1, IdMoves
    <3>3. QED
      BY <2>2, <3>2 DEF FeeChange, Executing, Moves, FeeOps
  <2>3. CASE MatchSchedules(h) \/ LockSchedules(h)
    BY <2>3, GotoMoves DEF MatchSchedules, LockSchedules, Moves, FeeOps
  <2>4. CASE InsertSchedule(h)
    BY <2>4, RecordTask DEF InsertSchedule, Moves, FeeOps
  <2>5. QED
    BY <2>1, <2>2, <2>3, <2>4 DEF FeeStep, DirectFeeStep, FeeChangeStep, CreateFee, DeactivateFee
<1>2. from \cap (Special \ FeeOps) = {} /\ ops \cap (Special \ FeeOps) = {}
  BY DEF Special, ConfigOps, RetryOps, FeeOps, ReportOps
<1> HIDE DEF from, ops
<1>3. QED
  BY <1>1, <1>2, AvoidsSome

LEMMA PortfolioAvoids ==
  ASSUME TaskTypes, NEW h \in Handlers, PortfolioStep(h)
  PROVE  UNCHANGED task \/ Avoids(h, Special \ ReportOps)
<1> DEFINE from == {"idle"} \cup ReportOps
           Goes == task[h].op \in from /\ Moves(h, from)
<1>1. CASE ReadEntries(h) \/ ReadAfter(h)
  BY <1>1 DEF ReadEntries, ReadAfter, approvalVars
<1>2. ASSUME NEW month, StartStatement(h, month) PROVE Goes
  <2>1. Start(h, "statement", month, Nobody, "", 0)
    BY <1>2 DEF StartStatement
  <2>2. Moves(h, {"statement"}) /\ task[h].op = "idle"
    BY <2>1, StartMoves, WasIdle
  <2>3. QED
    BY <2>2 DEF Moves, ReportOps
<1>3. ASSUME InsertPosting(h) PROVE Goes
  <2>1. Moves(h, {"posting"}) /\ task[h].op = "idle"
    BY <1>3, StartMoves, WasIdle DEF InsertPosting
  <2>2. QED
    BY <2>1 DEF Moves, ReportOps
<1>4. ASSUME ReadBalances(h) \/ CommitPosting(h) \/ RollBackPosting(h) PROVE Goes
  BY <1>4, DoneMoves DEF ReadBalances, CommitPosting, RollBackPosting, Moves, ReportOps
<1>5. from \cap (Special \ ReportOps) = {}
  BY DEF Special, ConfigOps, RetryOps, FeeOps, ReportOps
<1>6. ASSUME Goes PROVE Avoids(h, Special \ ReportOps)
  <2> HIDE DEF from
  <2>1. QED
    BY <1>5, <1>6, AvoidsSome
<1>7. QED
  BY <1>1, <1>2, <1>3, <1>4, <1>6 DEF PortfolioStep

----------------------------------------------------------------------------
(* The kinds of steps, and what each leaves alone. *)

Versions == <<config, cache, now, inForce>>

\* Of the lists, h may change its own.
Lists(h) == todo' = todo \/ \E rows : todo' = [todo EXCEPT ![h] = rows]

OrdinaryStep(h) ==
    Ordinary(h) /\ Lists(h) /\ UNCHANGED <<Versions, logs, schedules, portfolioVars>>
OutsideStep ==
    /\ UNCHANGED <<task, calls, todo, logs, schedules>>
    /\ \/ Tick /\ UNCHANGED portfolioVars
       \/ UNCHANGED <<Versions, portfolioVars>>

LEMMA ServeKinds ==
  ASSUME Inv, NEW h \in Handlers, Serve(h)
  PROVE  \/ OrdinaryStep(h)
         \/ ConfigStep(h) /\ UNCHANGED <<logs, schedules, portfolioVars>>
         \/ NotificationStep(h) /\ UNCHANGED <<Versions, schedules, portfolioVars>>
         \/ FeeStep(h) /\ UNCHANGED <<Versions, logs, portfolioVars>>
         \/ PortfolioStep(h) /\ UNCHANGED <<Versions, logs, schedules>>
<1>1. TaskTypes
  BY DEF Inv, Types
<1>2. CASE ApprovalStep(h) /\ UNCHANGED <<auditVars, reconVars, settingsVars, logs, Rest>>
  BY <1>1, <1>2, ApprovalAvoids
     DEF OrdinaryStep, Lists, Versions, auditVars, settingsVars, Rest, Orders, Reports
<1>3. CASE (AuditStep(h) \/ \E kind : OtherEntry(h, kind)) /\ UNCHANGED <<reconVars, settingsVars, logs, Rest>>
  <2>1. UNCHANGED todo
    BY <1>3 DEF AuditStep, LockChain, ReadLast, InsertRow, AbortAppend, OtherEntry, auditVars
  <2>2. QED
    BY <1>1, <1>3, <2>1, AuditAvoids DEF OrdinaryStep, Lists, Versions, settingsVars, Rest, Orders, Reports
<1>4. CASE ReconStep(h) /\ UNCHANGED <<settingsVars, logs, Rest>>
  <2>1. Lists(h)
    BY <1>4 DEF Lists, ReconStep, StartRun, ReadLine, MarkPaid, CloseMatchedItem, FindItem, CreateItem,
                AlertMirror, MirrorCheck, UpdateItem, WriteUpdate, ReadWriteOff, WriteOff, auditVars
  <2>2. QED
    BY <1>1, <1>4, <2>1, ReconAvoids DEF OrdinaryStep, Versions, settingsVars, Rest, Orders, Reports
<1>5. CASE ConfigStep(h) /\ UNCHANGED <<reconVars, logs, Rest>>
  BY <1>5 DEF Rest, Orders, Reports
<1>6. CASE SwitchStep(h) /\ UNCHANGED <<reconVars, logs, Rest>>
  <2>1. UNCHANGED <<todo, Versions>>
    BY <1>6 DEF SwitchStep, LiveTradingToggle, ExecutePosting, PaymentForceComplete, auditVars,
                settingsVars, Versions
  <2>2. QED
    BY <1>1, <1>6, <2>1, SwitchAvoids DEF OrdinaryStep, Lists, Rest, Orders, Reports
<1>7. CASE NotificationStep(h) /\ UNCHANGED <<reconVars, settingsVars, Rest>>
  BY <1>7 DEF Versions, settingsVars, Rest, Orders, Reports
<1>8. CASE QuoteStep(h) /\ UNCHANGED <<reconVars, settingsVars, logs, schedules, entryVars, Reports>>
  <2>1. Lists(h)
    BY <1>8 DEF Lists, QuoteStep, AddQuotes, UpsertQuote, ReadLatestQuote, RefreshPrice, LogIngestion,
                auditVars
  <2>2. QED
    BY <1>1, <1>8, <2>1, QuoteAvoids DEF OrdinaryStep, Versions, settingsVars, Reports
<1>9. CASE (DirectFeeStep(h) \/ FeeChangeStep(h)) /\ UNCHANGED <<reconVars, logs, quoteVars, entryVars, Reports>>
  BY <1>9 DEF FeeStep, DirectFeeStep, FeeChangeStep, CreateFee, DeactivateFee, FeeChange, MatchSchedules, LockSchedules, InsertSchedule,
              Versions, settingsVars, Reports
<1>10. CASE EntryStep(h) /\ UNCHANGED <<reconVars, logs, Reports>>
  <2>1. UNCHANGED <<todo, Versions, schedules>>
    BY <1>10 DEF EntryStep, LoadInstrument, CanTrade, QuoteFee, QuoteGlobalFee, CanPlaceOrder, InsertOrder,
                 auditVars, settingsVars, Versions
  <2>2. QED
    BY <1>1, <1>10, <2>1, EntryAvoids DEF OrdinaryStep, Lists, Reports
<1>11. CASE PortfolioStep(h) /\ UNCHANGED <<reconVars, logs, Orders, validityVars>>
  BY <1>11 DEF PortfolioStep, InsertPosting, CommitPosting, RollBackPosting, StartStatement, ReadEntries,
               ReadAfter, ReadBalances, Versions, settingsVars,
               Orders
<1>12. QED
  BY <1>2, <1>3, <1>4, <1>5, <1>6, <1>7, <1>8, <1>9, <1>10, <1>11 DEF Serve

LEMMA ArriveKinds ==
  ASSUME Arrive
  PROVE  OutsideStep
<1>1. CASE /\ UNCHANGED <<settingsVars, logs, Rest>>
           /\ \/ \E s \in Staff, i \in ItemIds : RequestWriteOff(s, i)
              \/ \E r \in Refs, state \in {"PAID", "FAILED"} : PaymentSettles(r, state)
  BY <1>1 DEF OutsideStep, RequestWriteOff, PaymentSettles, Requested, approvalVars, auditVars, settingsVars,
              Versions, Rest, Orders, Reports
<1>2. CASE Tick /\ UNCHANGED <<reconVars, logs, Rest>>
  BY <1>2 DEF OutsideStep, Tick, approvalVars, auditVars, Rest, Orders, Reports
<1>3. CASE /\ UNCHANGED <<reconVars, logs, Rest>>
           /\ \/ \E s \in Staff, v \in Values : RequestConfigChange(s, v)
              \/ \E s \in Staff : RequestToggle(s) \/ RequestPosting(s) \/ RequestForceComplete(s)
  BY <1>3 DEF OutsideStep, RequestConfigChange, RequestToggle, RequestPosting, RequestForceComplete,
              Requested, auditVars, settingsVars, Versions, Rest, Orders, Reports
<1>4. CASE /\ \E s \in Staff, m \in MarketIds \cup {Global}, name \in DOMAIN RateOf :
                 RequestFeeChange(s, m, name)
           /\ UNCHANGED <<reconVars, logs, quoteVars, entryVars, Reports>>
  BY <1>4 DEF OutsideStep, RequestFeeChange, Requested, auditVars, settingsVars, Versions, Reports
<1>5. CASE ClientChanges /\ UNCHANGED <<reconVars, logs, Reports>>
  BY <1>5 DEF OutsideStep, ClientChanges, approvalVars, auditVars, settingsVars, Versions, Reports
<1>6. CASE UNCHANGED <<approvalVars, auditVars, reconVars, settingsVars, logs, Orders, portfolioVars>>
  BY <1>6 DEF OutsideStep, approvalVars, auditVars, settingsVars, Versions, Orders
<1>7. QED
  BY <1>1, <1>2, <1>3, <1>4, <1>5, <1>6 DEF Arrive

\* A request keeps what it asks for; a new one asks for what its maker may.
Lasting ==
    \A r \in RequestIds :
        \/ /\ approvals'[r].action = approvals[r].action
           /\ approvals'[r].target = approvals[r].target
           /\ approvals'[r].decision = approvals[r].decision
           /\ approvals[r].state # "NONE" => approvals'[r].state # "NONE"
        \/ /\ approvals[r].state = "NONE"
           /\ approvals'[r].action = "CONFIG_CHANGE" => approvals'[r].decision \in Values

LEMMA DecidesLasting ==
  ASSUME RequestTypes, NEW r, NEW state, state # "NONE", NEW who,
         \/ approvals' = [approvals EXCEPT ![r].state = state]
         \/ approvals' = [approvals EXCEPT ![r].state = state, ![r].checker = who]
  PROVE  Lasting
<1>1. CASE r \in RequestIds
  <2>1. IsRequest(approvals[r])
    BY <1>1 DEF RequestTypes
  <2>2. PICK a : /\ approvals' = [approvals EXCEPT ![r] = a]
                 /\ a.state = state /\ a.action = approvals[r].action
                 /\ a.target = approvals[r].target /\ a.decision = approvals[r].decision
    <3>1. CASE approvals' = [approvals EXCEPT ![r].state = state]
      <4> DEFINE a == [approvals[r] EXCEPT !.state = state]
      <4>1. /\ a.state = state /\ a.action = approvals[r].action
            /\ a.target = approvals[r].target /\ a.decision = approvals[r].decision
        BY <2>1 DEF IsRequest, Columns
      <4>2. approvals' = [approvals EXCEPT ![r] = a]
        BY <3>1
      <4> HIDE DEF a
      <4>3. QED
        BY <4>1, <4>2
    <3>2. CASE approvals' = [approvals EXCEPT ![r].state = state, ![r].checker = who]
      <4> DEFINE a == [approvals[r] EXCEPT !.state = state, !.checker = who]
      <4>1. /\ a.state = state /\ a.action = approvals[r].action
            /\ a.target = approvals[r].target /\ a.decision = approvals[r].decision
        BY <2>1 DEF IsRequest, Columns
      <4>2. approvals' = [approvals EXCEPT ![r] = a]
        BY <1>1, <3>2 DEF RequestTypes
      <4> HIDE DEF a
      <4>3. QED
        BY <4>1, <4>2
    <3>3. QED
      BY <3>1, <3>2
  <2>3. approvals'[r] = a /\ \A q \in RequestIds \ {r} : approvals'[q] = approvals[q]
    BY <1>1, <2>2 DEF RequestTypes
  <2>4. QED
    BY <2>2, <2>3 DEF Lasting
<1>2. CASE r \notin RequestIds
  BY <1>2 DEF RequestTypes, Lasting
<1>3. QED
  BY <1>1, <1>2

LEMMA RequestedLasting ==
  ASSUME RequestTypes, NEW s, NEW action, NEW target, NEW decision,
         Requested(s, action, target, decision),
         action = "CONFIG_CHANGE" => decision \in Values
  PROVE  Lasting
<1> DEFINE a == [state |-> "PENDING", action |-> action, target |-> target,
                 decision |-> decision, maker |-> s, checker |-> Nobody]
<1>1. PICK r \in RequestIds : approvals[r] = NoRequest /\ approvals' = [approvals EXCEPT ![r] = a]
  BY DEF Requested
<1>2. a.action = action /\ a.decision = decision
  OBVIOUS
<1> HIDE DEF a
<1>3. approvals'[r] = a /\ \A q \in RequestIds \ {r} : approvals'[q] = approvals[q]
  BY <1>1 DEF RequestTypes
<1>4. NoRequest.state = "NONE"
  BY DEF NoRequest
<1>5. QED
  BY <1>1, <1>2, <1>3, <1>4 DEF Lasting

LEMMA RequestsLast ==
  ASSUME Inv, [Next]_vars
  PROVE  Lasting
<1>1. RequestTypes
  BY DEF Inv, Types
<1>2. CASE UNCHANGED approvals
  BY <1>2 DEF Lasting
<1>3. ASSUME NEW h \in Handlers, ApprovalStep(h), ~UNCHANGED approvals PROVE Lasting
  <2>1. PICK r, who : r \in {task[h].id, task[h].appr} /\ who = task[h].who
    OBVIOUS
  <2>2. \E q, state : /\ state # "NONE"
                      /\ \/ approvals' = [approvals EXCEPT ![q].state = state]
                         \/ approvals' = [approvals EXCEPT ![q].state = state, ![q].checker = who]
    BY <1>3, <2>1 DEF ApprovalStep, ReadRequest, ClaimApproved, ClaimRejected, ClaimAs, Finish
  <2>3. QED
    BY <1>1, <2>2, DecidesLasting
<1>4. ASSUME NEW h \in Handlers, Serve(h), ~ApprovalStep(h) PROVE UNCHANGED approvals
  <2>1. AuditStep(h) \/ (\E kind : OtherEntry(h, kind)) => UNCHANGED approvals
    BY DEF AuditStep, LockChain, ReadLast, InsertRow, AbortAppend, OtherEntry
  <2>2. ReconStep(h) => UNCHANGED approvals
    BY DEF ReconStep, StartRun, ReadLine, MarkPaid, CloseMatchedItem, FindItem, CreateItem, AlertMirror,
           MirrorCheck, UpdateItem, WriteUpdate, ReadWriteOff, WriteOff
  <2>3. ConfigStep(h) \/ SwitchStep(h) => UNCHANGED approvals
    BY DEF ConfigStep, GetConfig, QueryConfig, FillCache, SetConfig, CloseRows, CommitSet, DropCache,
           SwitchStep, LiveTradingToggle, ExecutePosting, PaymentForceComplete
  <2>4. NotificationStep(h) \/ QuoteStep(h) => UNCHANGED approvals
    BY DEF NotificationStep, Dispatch, CreateLog, Send, WriteAttempt, RetryFailed, NextFailed, EndOfList,
           QuoteStep, AddQuotes, UpsertQuote, ReadLatestQuote, RefreshPrice, LogIngestion
  <2>5. FeeStep(h) \/ EntryStep(h) => UNCHANGED approvals
    BY DEF FeeStep, DirectFeeStep, FeeChangeStep, CreateFee, DeactivateFee, FeeChange, MatchSchedules, LockSchedules, InsertSchedule,
           EntryStep, LoadInstrument, CanTrade, QuoteFee, QuoteGlobalFee, CanPlaceOrder, InsertOrder
  <2>6. PortfolioStep(h) => UNCHANGED approvals
    BY DEF PortfolioStep, InsertPosting, CommitPosting, RollBackPosting, StartStatement, ReadEntries,
           ReadAfter, ReadBalances, approvalVars
  <2>7. QED
    BY <1>4, <2>1, <2>2, <2>3, <2>4, <2>5, <2>6 DEF Serve, FeeStep
<1>5. ASSUME Arrive, ~UNCHANGED approvals PROVE Lasting
  <2>1. ASSUME NEW s, NEW i, RequestWriteOff(s, i) PROVE Lasting
    BY <1>1, <2>1, RequestedLasting DEF RequestWriteOff
  <2>2. ASSUME NEW s, NEW v \in Values, RequestConfigChange(s, v) PROVE Lasting
    BY <1>1, <2>2, RequestedLasting DEF RequestConfigChange
  <2>3. ASSUME NEW s, RequestToggle(s) PROVE Lasting
    <3>1. PICK decision : Requested(s, "LIVE_TRADING_TOGGLE", 0, decision)
      BY <2>3 DEF RequestToggle
    <3>2. QED
      BY <1>1, <3>1, RequestedLasting
  <2>4. ASSUME NEW s, RequestPosting(s) \/ RequestForceComplete(s) PROVE Lasting
    BY <1>1, <2>4, RequestedLasting DEF RequestPosting, RequestForceComplete
  <2>5. ASSUME NEW s, NEW m, NEW name, RequestFeeChange(s, m, name) PROVE Lasting
    BY <1>1, <2>5, RequestedLasting DEF RequestFeeChange
  <2>6. \/ \E s \in Staff, i \in ItemIds : RequestWriteOff(s, i)
        \/ \E s \in Staff, v \in Values : RequestConfigChange(s, v)
        \/ \E s \in Staff : RequestToggle(s) \/ RequestPosting(s) \/ RequestForceComplete(s)
        \/ \E s \in Staff, m \in MarketIds \cup {Global}, name \in DOMAIN RateOf :
               RequestFeeChange(s, m, name)
    BY <1>5 DEF Arrive, PaymentSettles, Tick, ClientChanges, approvalVars
  <2>7. QED
    BY <2>1, <2>2, <2>3, <2>4, <2>5, <2>6
<1>6. Crash => UNCHANGED approvals
  BY DEF Crash, CrashAudit, CrashTasks
<1>7. UNCHANGED vars => UNCHANGED approvals
  BY DEF vars, approvalVars
<1>8. QED
  BY <1>2, <1>3, <1>4, <1>5, <1>6, <1>7 DEF Next

----------------------------------------------------------------------------
(* The parameter and its cache. *)

\* Time and the versions go on.
Later ==
    /\ now' \in 0 .. MaxTime /\ now <= now'
    /\ inForce' \in [Values -> Never .. now']
    /\ \A v \in Values : inForce[v] <= inForce'[v]

LEMMA TimesAreNumbers ==
  ASSUME SettingsTypes
  PROVE  /\ now \in Nat /\ MaxTime \in Nat /\ TTL \in Nat /\ Never = -TTL /\ Seed \in Values
         /\ \A v \in Values : inForce[v] \in Int /\ Never <= inForce[v] /\ inForce[v] <= now
         /\ cache.value \in Values /\ cache.expiresAt \in Int
BY SettingsAssumption DEF SettingsTypes, Never

LEMMA DecidedLasts ==
  ASSUME Decided, Lasting
  PROVE  Decided'
BY DEF Decided, Lasting

LEMMA VersionLasts ==
  ASSUME SettingsTypes, Later, NEW g, HoldsVersion(g), task'[g] = task[g] \/ task'[g].op \notin ConfigOps
  PROVE  HoldsVersion(g)'
<1>1. CASE task'[g].op \notin ConfigOps
  BY <1>1 DEF HoldsVersion, ConfigOps
<1>2. CASE task'[g] = task[g] /\ task[g].op \in ConfigOps
  <2>1. task[g].id \in 0 .. now'
    BY <1>2, TimesAreNumbers DEF HoldsVersion, Later
  <2>2. task[g].op # "queryConfig" => task[g].seen \in Values
    BY <1>2 DEF HoldsVersion
  <2>3. task[g].op = "fillCache" => task[g].id <= inForce'[task[g].seen]
    <3>1. SUFFICES ASSUME task[g].op = "fillCache" PROVE task[g].id <= inForce'[task[g].seen]
      OBVIOUS
    <3>2. PICK v \in Values : v = task[g].seen
      BY <2>2, <3>1
    <3>3. task[g].id <= inForce[v] /\ inForce[v] <= inForce'[v]
      BY <3>1, <3>2 DEF HoldsVersion, Later
    <3>4. task[g].id \in Int /\ inForce[v] \in Int /\ inForce'[v] \in Int
      BY <2>1, TimesAreNumbers, SettingsAssumption DEF Later, Never
    <3>5. QED
      BY <3>2, <3>3, <3>4
  <2>4. QED
    BY <1>2, <2>1, <2>2, <2>3 DEF HoldsVersion
<1>3. QED
  BY <1>1, <1>2

\* The cache keeps its entry, or loses it.
LEMMA CacheLasts ==
  ASSUME SettingsTypes, CacheRecent, Later, cache' = cache \/ cache' = NoEntry
  PROVE  cache' \in [value : Values, expiresAt : Int] /\ CacheRecent'
<1>1. CASE cache' = cache
  <2>1. PICK v \in Values : v = cache.value
    BY TimesAreNumbers
  <2>2. inForce[v] <= inForce'[v] /\ inForce[v] \in Int /\ inForce'[v] \in Int
    BY TimesAreNumbers, SettingsAssumption DEF Later, Never
  <2>3. cache.expiresAt <= inForce[v] + TTL /\ cache.expiresAt \in Int /\ TTL \in Int
    BY <2>1, TimesAreNumbers DEF CacheRecent
  <2>4. cache.expiresAt <= inForce'[v] + TTL
    BY <2>2, <2>3
  <2>5. QED
    BY <1>1, <2>1, <2>4 DEF SettingsTypes, CacheRecent
<1>2. CASE cache' = NoEntry
  <2>1. NoEntry.value = Seed /\ NoEntry.expiresAt = 0 /\ NoEntry \in [value : Values, expiresAt : Int]
    BY SettingsAssumption DEF NoEntry
  <2>2. Never <= inForce'[Seed] /\ inForce'[Seed] \in Int /\ Never = -TTL /\ TTL \in Int
    BY SettingsAssumption DEF Later, Never
  <2>3. 0 <= inForce'[Seed] + TTL
    BY <2>2
  <2>4. QED
    BY <1>2, <2>1, <2>3 DEF CacheRecent
<1>3. QED
  BY <1>1, <1>2

LEMMA SameVersions ==
  ASSUME SettingsInv, Lasting, UNCHANGED <<config, now, inForce>>, cache' = cache \/ cache' = NoEntry,
         \A g \in Handlers : task'[g] = task[g] \/ task'[g].op \notin ConfigOps
  PROVE  SettingsInv'
<1>1. SettingsTypes /\ CacheRecent /\ RowsRecent /\ Decided
  BY DEF SettingsInv
<1>2. Later
  BY <1>1, TimesAreNumbers DEF Later, SettingsTypes
<1>3. SettingsTypes' /\ CacheRecent'
  BY <1>1, <1>2, CacheLasts DEF SettingsTypes
<1>4. RowsRecent'
  BY <1>1 DEF RowsRecent, current, Effective
<1>5. \A g \in Handlers : HoldsVersion(g)'
  BY <1>1, <1>2, VersionLasts DEF SettingsInv
<1>6. QED
  BY <1>1, <1>3, <1>4, <1>5, DecidedLasts DEF SettingsInv

\* What InForce marks is in force now, the rest as it was.
LEMMA MarksInForce ==
  ASSUME SettingsTypes, now' \in 0 .. MaxTime, now <= now', NEW rows, NEW written, InForce(rows, now', written)
  PROVE  /\ Later
         /\ \A v \in Values : v \in written \/ (\E row \in current(rows, now') : row.value = v) =>
                inForce'[v] = now'
<1>1. \A v \in Values : inForce'[v] = IF v \in written \cup {row.value : row \in current(rows, now')}
                                      THEN now' ELSE inForce[v]
  BY DEF InForce
<1>2. \A v \in Values : inForce'[v] \in Never .. now' /\ inForce[v] <= inForce'[v]
  BY <1>1, TimesAreNumbers
<1>3. inForce' \in [Values -> Never .. now']
  BY <1>2 DEF InForce
<1>4. Later
  BY <1>2, <1>3 DEF Later
<1>5. QED
  BY <1>1, <1>4

LEMMA TickVersions ==
  ASSUME SettingsInv, Lasting, Tick
  PROVE  SettingsInv'
<1>1. SettingsTypes /\ CacheRecent /\ RowsRecent /\ Decided
  BY DEF SettingsInv
<1>2. now' = now + 1 /\ now \in Nat /\ now' \in 0 .. MaxTime /\ now <= now'
  BY <1>1, TimesAreNumbers DEF Tick
<1>3. /\ Later
      /\ \A v \in Values : (\E row \in current(config, now') : row.value = v) => inForce'[v] = now'
  <2>1. InForce(config, now', {})
    BY <1>2 DEF Tick
  <2>2. QED
    BY <1>1, <1>2, <2>1, MarksInForce
<1>4. SettingsTypes' /\ CacheRecent'
  BY <1>1, <1>3, CacheLasts DEF Tick, SettingsTypes, Later
<1>5. ASSUME NEW t \in 0 .. now', NEW row \in current(config, t) PROVE t <= inForce'[row.value]
  <2>1. row.value \in Values
    BY <1>1 DEF SettingsTypes, current, Effective
  <2>2. CASE t = now'
    BY <1>2, <1>3, <1>5, <2>1, <2>2
  <2>3. CASE t # now'
    <3>1. t \in 0 .. now
      BY <1>2, <2>3
    <3>2. t <= inForce[row.value]
      BY <1>1, <1>5, <3>1 DEF RowsRecent
    <3>3. inForce[row.value] <= inForce'[row.value] /\ inForce[row.value] \in Int
          /\ inForce'[row.value] \in Int /\ t \in Int
      BY <1>1, <1>3, <2>1, <3>1, TimesAreNumbers, SettingsAssumption DEF Later, Never
    <3>4. QED
      BY <3>2, <3>3
  <2>4. QED
    BY <2>2, <2>3
<1>6. RowsRecent'
  BY <1>5 DEF RowsRecent, Tick, current, Effective
<1>7. \A g \in Handlers : HoldsVersion(g)'
  <2>1. UNCHANGED task
    BY DEF Tick, approvalVars
  <2>2. QED
    BY <1>1, <1>3, <2>1, VersionLasts DEF SettingsInv
<1>8. QED
  BY <1>1, <1>4, <1>6, <1>7, DecidedLasts DEF SettingsInv

\* A row that is current after a set is the new one, or was current before.
SetRows(rows, at, new) ==
    \E kept \in {config, Closed(config, at)} : rows = kept \cup {new}

LEMMA CurrentAfterSet ==
  ASSUME SettingsTypes, NEW at \in 0 .. now, NEW new, new.from = at, new.to = Null,
         NEW rows, SetRows(rows, at, new),
         NEW t \in 0 .. now, NEW row \in current(rows, t), row # new
  PROVE  \E q \in current(config, t) : q.value = row.value
<1>1. PICK kept \in {config, Closed(config, at)} : rows = kept \cup {new}
  BY DEF SetRows
<1>2. /\ now \in Nat /\ now <= MaxTime /\ MaxTime \in Nat /\ Null = MaxTime + 1
  BY TimesAreNumbers DEF SettingsTypes, Null
<1>3. \A q \in config : q.from \in Int /\ q.to \in Int /\ q = [value |-> q.value, from |-> q.from, to |-> q.to]
  BY DEF SettingsTypes
<1> DEFINE Image(q) == IF q.to = Null /\ q.from <= at THEN [q EXCEPT !.to = at] ELSE q
<1>4. \A q \in config : /\ Image(q).value = q.value /\ Image(q).from = q.from
                        /\ Image(q).to = IF q.to = Null /\ q.from <= at THEN at ELSE q.to
  BY <1>3
<1>5. Closed(config, at) = {Image(q) : q \in config}
  BY DEF Closed
<1> HIDE DEF Image
<1>6. row \in rows /\ row.from <= t /\ t < row.to /\ \A p \in rows : p.from <= t /\ t < p.to => p.from <= row.from
  BY DEF current, Effective
<1>7. PICK q \in config : row = q \/ (row = Image(q) /\ kept = Closed(config, at))
  <2>1. row \in kept
    BY <1>1, <1>6
  <2>2. CASE kept = config
    BY <2>1, <2>2
  <2>3. CASE kept = Closed(config, at)
    BY <1>5, <2>1, <2>3
  <2>4. QED
    BY <2>2, <2>3
<1>8. q.value = row.value /\ q.from = row.from
  BY <1>4, <1>7
<1>9. q.from <= t /\ t < q.to
  BY <1>2, <1>3, <1>4, <1>6, <1>7, <1>8
<1>10. ASSUME NEW p \in config, p.from <= t, t < p.to PROVE p.from <= q.from
  <2>1. CASE kept = config
    BY <1>1, <1>6, <1>8, <1>10, <2>1
  <2>2. CASE kept = Closed(config, at) /\ t < Image(p).to
    <3>1. Image(p) \in rows
      BY <1>1, <1>5, <2>2
    <3>2. Image(p).from <= t
      BY <1>4, <1>10
    <3>3. Image(p).from <= row.from
      BY <1>6, <2>2, <3>1, <3>2
    <3>4. QED
      BY <1>4, <1>8, <3>3
  <2>3. CASE ~(t < Image(p).to)
    <3>1. Image(p).to # p.to
      BY <1>10, <2>3
    <3>2. p.from <= at /\ Image(p).to = at
      BY <1>4, <3>1
    <3>3. at <= t /\ t < new.to /\ new \in rows
      BY <1>1, <1>2, <2>3, <3>2
    <3>4. at <= row.from
      BY <1>6, <3>3
    <3>5. QED
      BY <1>3, <1>8, <3>2, <3>4
  <2>4. QED
    BY <2>1, <2>2, <2>3
<1>11. q \in current(config, t)
  BY <1>9, <1>10 DEF current, Effective
<1>12. QED
  BY <1>8, <1>11

LEMMA SetVersions ==
  ASSUME SettingsInv, Lasting, TaskTypes, NEW h \in Handlers, CommitSet(h)
  PROVE  SettingsInv'
<1>1. SettingsTypes /\ CacheRecent /\ RowsRecent /\ Decided
  BY DEF SettingsInv
<1>2. PICK at, v : at = task[h].id /\ v = task[h].seen
  OBVIOUS
<1> DEFINE new == [value |-> v, from |-> at, to |-> Null]
           kept == IF Closing(h) THEN Closed(config, at) ELSE config
           rows == kept \cup {new}
<1>3. at \in 0 .. now /\ v \in Values
  <2>1. task[h].op \in ConfigOps \ {"queryConfig"}
    BY DEF CommitSet, Closing, ConfigOps
  <2>2. QED
    BY <1>2, <2>1 DEF SettingsInv, HoldsVersion
<1>4. now \in Nat /\ now <= MaxTime /\ MaxTime \in Nat /\ Null = MaxTime + 1 /\ now \in 0 .. MaxTime
  BY <1>1, TimesAreNumbers DEF SettingsTypes, Null
<1>5. config' = rows /\ InForce(rows, now, {v}) /\ UNCHANGED <<cache, now>>
  BY <1>2 DEF CommitSet
<1>6. new \in [value : Values, from : Int, to : Int] /\ new.value = v /\ new.from = at /\ new.to = Null
  BY <1>3, <1>4
<1>7. rows \subseteq [value : Values, from : Int, to : Int]
  <2>1. Closed(config, at) \subseteq [value : Values, from : Int, to : Int]
    BY <1>1, <1>3 DEF Closed, SettingsTypes
  <2>2. QED
    BY <1>1, <1>6, <2>1 DEF SettingsTypes
<1>8. kept \in {config, Closed(config, at)}
  OBVIOUS
<1> HIDE DEF new, kept
<1>9. Later /\ inForce'[v] = now
  <2>1. InForce(rows, now', {v}) /\ now' \in 0 .. MaxTime /\ now <= now'
    BY <1>4, <1>5
  <2>2. QED
    BY <1>1, <1>3, <1>5, <2>1, MarksInForce
<1>10. SettingsTypes' /\ CacheRecent'
  BY <1>1, <1>5, <1>7, <1>9, CacheLasts DEF SettingsTypes, Later
<1>11. ASSUME NEW t \in 0 .. now, NEW row \in current(rows, t) PROVE t <= inForce'[row.value]
  <2>1. CASE row = new
    BY <1>6, <1>9, <1>11, <2>1
  <2>2. CASE row # new
    <3>1. \E q \in current(config, t) : q.value = row.value
      <4>1. SetRows(rows, at, new)
        BY <1>8 DEF SetRows
      <4> HIDE DEF rows
      <4>2. QED
        BY <1>1, <1>3, <1>6, <1>11, <2>2, <4>1, CurrentAfterSet
    <3>2. PICK q \in current(config, t) : q.value = row.value
      BY <3>1
    <3>3. t <= inForce[q.value] /\ q.value \in Values
      BY <1>1 DEF RowsRecent, SettingsTypes, current, Effective
    <3>4. inForce[q.value] <= inForce'[q.value] /\ inForce[q.value] \in Int
          /\ inForce'[q.value] \in Int /\ t \in Int
      BY <1>1, <1>9, <3>3, TimesAreNumbers, SettingsAssumption DEF Later, Never
    <3>5. QED
      BY <3>2, <3>3, <3>4
  <2>3. QED
    BY <2>1, <2>2
<1>12. RowsRecent'
  BY <1>5, <1>11 DEF RowsRecent, current, Effective
<1>13. Moves(h, {"dropCache"})
  BY GotoMoves DEF CommitSet
<1>14. ASSUME NEW g \in Handlers PROVE HoldsVersion(g)'
  <2>1. task'[g] = task[g] \/ task'[g].op \notin ConfigOps
    BY <1>13 DEF Moves, ConfigOps
  <2>2. HoldsVersion(g)
    BY DEF SettingsInv
  <2>3. QED
    BY <1>1, <1>9, <2>1, <2>2, VersionLasts
<1>15. QED
  BY <1>1, <1>10, <1>12, <1>14, DecidedLasts DEF SettingsInv

\* The other steps of get and set.
LEMMA StepVersions ==
  ASSUME SettingsInv, Lasting, TaskTypes, NEW h \in Handlers,
         \A g \in Handlers \ {h} : task'[g] = task[g], HoldsVersion(h)',
         UNCHANGED <<config, now, inForce>>,
         cache' \in [value : Values, expiresAt : Int], CacheRecent'
  PROVE  SettingsInv'
<1>1. SettingsTypes /\ RowsRecent /\ Decided
  BY DEF SettingsInv
<1>2. Later
  BY <1>1, TimesAreNumbers DEF Later, SettingsTypes
<1>3. SettingsTypes' /\ RowsRecent'
  BY <1>1 DEF SettingsTypes, RowsRecent, current, Effective
<1>4. ASSUME NEW g \in Handlers PROVE HoldsVersion(g)'
  <2>1. CASE g = h
    BY <2>1
  <2>2. CASE g # h
    <3>1. HoldsVersion(g) /\ task'[g] = task[g]
      BY <2>2 DEF SettingsInv
    <3>2. QED
      BY <1>1, <1>2, <3>1, VersionLasts
  <2>3. QED
    BY <2>1, <2>2
<1>5. QED
  BY <1>1, <1>3, <1>4, DecidedLasts DEF SettingsInv

LEMMA ConfigVersions ==
  ASSUME Inv, SettingsInv, Lasting, NEW h \in Handlers, ConfigStep(h)
  PROVE  SettingsInv'
<1>1. SettingsTypes /\ CacheRecent /\ RowsRecent /\ Decided /\ HoldsVersion(h) /\ TaskTypes /\ Relies(h)
  BY DEF SettingsInv, Inv, Types
<1>2. now \in 0 .. now /\ now \in Nat
  BY <1>1, TimesAreNumbers
<1>3. UNCHANGED cache => cache' \in [value : Values, expiresAt : Int] /\
                         (UNCHANGED inForce => CacheRecent')
  BY <1>1 DEF SettingsTypes, CacheRecent
<1>4. CASE GetConfig(h)
  <2>1. Start(h, "queryConfig", now, Nobody, "", 0) /\ UNCHANGED <<cache, config, now, inForce>>
    BY <1>4 DEF GetConfig, settingsVars
  <2>2. Moves(h, {"queryConfig"}) /\ task'[h].id = now
    BY <1>1, <2>1, StartMoves
  <2>3. HoldsVersion(h)'
    BY <1>2, <2>1, <2>2 DEF Moves, HoldsVersion, ConfigOps
  <2>4. QED
    BY <1>1, <1>3, <2>1, <2>2, <2>3, StepVersions DEF Moves
<1>5. CASE QueryConfig(h)
  <2>1. UNCHANGED <<cache, config, now, inForce>> /\ task[h].op = "queryConfig"
    BY <1>5 DEF QueryConfig, settingsVars
  <2>2. PICK row \in current(config, task[h].id) :
            SetsSeen(h, "fillCache", row.value)
    BY <1>5 DEF QueryConfig, SetsSeen
  <2>3. Moves(h, {"fillCache"}) /\ task'[h].seen = row.value /\ task'[h].id = task[h].id
    BY <1>1, <2>2, SetsMove
  <2>4. task[h].id \in 0 .. now
    BY <1>1, <2>1 DEF HoldsVersion, ConfigOps
  <2>5. row.value \in Values /\ task[h].id <= inForce[row.value]
    BY <1>1, <2>4 DEF RowsRecent, SettingsTypes, current, Effective
  <2>6. HoldsVersion(h)'
    BY <2>1, <2>3, <2>4, <2>5 DEF Moves, HoldsVersion, ConfigOps
  <2>7. QED
    BY <1>1, <1>3, <2>1, <2>3, <2>6, StepVersions DEF Moves
<1>6. CASE FillCache(h)
  <2>1. PICK at, v : at = task[h].id /\ v = task[h].seen
    OBVIOUS
  <2>2. v \in Values /\ at \in 0 .. now /\ at <= inForce[v]
    BY <1>1, <1>6, <2>1 DEF FillCache, HoldsVersion, ConfigOps
  <2>3. cache' = [value |-> v, expiresAt |-> at + TTL] /\ UNCHANGED <<config, now, inForce>>
    BY <1>6, <2>1 DEF FillCache, Expiry
  <2>4. inForce[v] \in Int /\ TTL \in Int /\ at \in Int
    BY <1>1, <2>2, TimesAreNumbers
  <2>5. cache' \in [value : Values, expiresAt : Int] /\ cache'.value = v /\ cache'.expiresAt = at + TTL
    BY <2>2, <2>3, <2>4
  <2>6. CacheRecent'
    BY <2>2, <2>3, <2>4, <2>5 DEF CacheRecent
  <2>7. Moves(h, {"idle"})
    BY <1>1, <1>6, DoneMoves DEF FillCache
  <2>8. HoldsVersion(h)'
    BY <2>7 DEF Moves, HoldsVersion, ConfigOps
  <2>9. QED
    BY <1>1, <2>3, <2>5, <2>6, <2>7, <2>8, StepVersions DEF Moves
<1>7. CASE SetConfig(h)
  <2>1. PICK r, at, v : r = task[h].appr /\ at = now /\ v = approvals[r].decision
    OBVIOUS
  <2>2. SetsIdAndSeen(h, "closeRows", at, v)
    BY <1>7, <2>1 DEF SetConfig, SetsIdAndSeen
  <2>3. r \in RequestIds /\ approvals[r].action = "CONFIG_CHANGE"
    BY <1>1, <1>7, <2>1 DEF SetConfig, Executing, Relies, HoldsRequest
  <2>4. v \in Values
    BY <1>1, <2>1, <2>3 DEF Decided
  <2>5. Moves(h, {"closeRows"}) /\ task'[h].id = at /\ task'[h].seen = v
    BY <1>1, <2>2, IdSeenMoves
  <2>6. HoldsVersion(h)'
    BY <1>2, <1>7, <2>1, <2>4, <2>5 DEF SetConfig, settingsVars, Moves, HoldsVersion, ConfigOps
  <2>7. QED
    BY <1>1, <1>3, <1>7, <2>5, <2>6, StepVersions DEF SetConfig, settingsVars, Moves
<1>8. CASE CloseRows(h)
  <2>1. PICK op \in {"insertOnly", "insertRowAndClose"} : Goto(h, op)
    BY <1>8 DEF CloseRows
  <2>2. Moves(h, {op}) /\ task'[h].id = task[h].id /\ task'[h].seen = task[h].seen
    BY <1>1, <2>1, GotoMoves
  <2>3. UNCHANGED <<cache, config, now, inForce>> /\ task[h].op = "closeRows"
    BY <1>8 DEF CloseRows, settingsVars
  <2>4. HoldsVersion(h)'
    BY <1>1, <2>2, <2>3 DEF Moves, HoldsVersion, ConfigOps
  <2>5. QED
    BY <1>1, <1>3, <2>2, <2>3, <2>4, StepVersions DEF Moves
<1>9. CASE CommitSet(h)
  BY <1>1, <1>9, SetVersions
<1>10. CASE DropCache(h)
  <2>1. Moves(h, {"lockChain"})
    BY <1>1, <1>10, RecordTask DEF DropCache
  <2>2. \A g \in Handlers : task'[g] = task[g] \/ task'[g].op \notin ConfigOps
    BY <2>1 DEF Moves, ConfigOps
  <2>3. QED
    BY <1>10, <2>2, SameVersions DEF DropCache
<1>11. QED
  BY <1>4, <1>5, <1>6, <1>7, <1>8, <1>9, <1>10 DEF ConfigStep

LEMMA VersionsKeep ==
  ASSUME Inv, SettingsInv, [Next]_vars
  PROVE  SettingsInv'
<1>1. Lasting
  BY RequestsLast
<1>2. ASSUME NEW h \in Handlers, Serve(h) PROVE SettingsInv'
  <2>1. CASE ConfigStep(h)
    BY <1>1, <2>1, ConfigVersions
  <2>2. CASE ~ConfigStep(h)
    <3>1. TaskTypes
      BY DEF Inv, Types
    <3>2. UNCHANGED task \/ \E ops : Avoids(h, ops) /\ ConfigOps \subseteq ops
      <4>1. OrdinaryStep(h) => Avoids(h, Special)
        BY DEF OrdinaryStep, Ordinary
      <4>2. /\ NotificationStep(h) => Avoids(h, Special \ RetryOps)
            /\ FeeStep(h) => Avoids(h, Special \ FeeOps)
            /\ PortfolioStep(h) => UNCHANGED task \/ Avoids(h, Special \ ReportOps)
        BY <3>1, NotificationAvoids, FeeAvoids, PortfolioAvoids
      <4>3. /\ ConfigOps \subseteq Special /\ ConfigOps \subseteq Special \ RetryOps
            /\ ConfigOps \subseteq Special \ FeeOps /\ ConfigOps \subseteq Special \ ReportOps
        BY DEF Special, ConfigOps, RetryOps, FeeOps, ReportOps
      <4>4. QED
        BY <1>2, <2>2, <4>1, <4>2, <4>3, ServeKinds
    <3>3. UNCHANGED Versions
      BY <1>2, <2>2, ServeKinds DEF OrdinaryStep
    <3>4. \A g \in Handlers : task'[g] = task[g] \/ task'[g].op \notin ConfigOps
      BY <3>2 DEF Avoids
    <3>5. QED
      BY <1>1, <3>3, <3>4, SameVersions DEF Versions
  <2>3. QED
    BY <2>1, <2>2
<1>3. CASE Arrive
  <2>1. CASE Tick
    BY <1>1, <2>1, TickVersions
  <2>2. CASE ~Tick
    <3>1. UNCHANGED <<task, config, now, inForce, cache>>
      BY <1>3, <2>2, ArriveKinds DEF OutsideStep, Versions, settingsVars
    <3>2. QED
      BY <1>1, <3>1, SameVersions
  <2>3. QED
    BY <2>1, <2>2
<1>4. CASE Crash
  <2>1. UNCHANGED <<config, now, inForce>> /\ cache' = NoEntry /\ task' = [h \in Handlers |-> Idle]
    BY <1>4 DEF Crash, CrashAudit, CrashTasks
  <2>2. Idle.op \notin ConfigOps
    BY DEF Idle, ConfigOps
  <2>3. QED
    BY <1>1, <2>1, <2>2, SameVersions
<1>5. CASE UNCHANGED vars
  BY <1>1, <1>5, SameVersions DEF vars, approvalVars, settingsVars
<1>6. QED
  BY <1>2, <1>3, <1>4, <1>5 DEF Next

LEMMA InitVersions == Init => SettingsInv
<1> SUFFICES ASSUME Init PROVE SettingsInv
  OBVIOUS
<1>1. /\ config = {[value |-> Seed, from |-> 0, to |-> Null]} /\ cache = NoEntry /\ now = 0
      /\ inForce = [v \in Values |-> IF v = Seed THEN 0 ELSE Never]
      /\ approvals = [r \in RequestIds |-> NoRequest] /\ task = [h \in Handlers |-> Idle]
  BY DEF Init, SettingsInit, ApprovalsInit
<1>2. Seed \in Values /\ TTL \in Nat \ {0} /\ MaxTime \in Nat /\ Null \in Int /\ Never \in Int /\ Never <= 0
  BY SettingsAssumption DEF Null, Never
<1>3. SettingsTypes
  BY <1>1, <1>2 DEF SettingsTypes, NoEntry
<1>4. Decided
  BY <1>1 DEF Decided, NoRequest
<1>5. CacheRecent
  BY <1>1, <1>2 DEF CacheRecent, NoEntry
<1>6. ASSUME NEW t \in 0 .. now, NEW row \in current(config, t) PROVE t <= inForce[row.value]
  <2>1. row = [value |-> Seed, from |-> 0, to |-> Null]
    BY <1>1 DEF current, Effective
  <2>2. QED
    BY <1>1, <1>2, <2>1
<1>7. \A h \in Handlers : HoldsVersion(h)
  BY <1>1 DEF Idle, HoldsVersion, ConfigOps
<1>8. QED
  BY <1>3, <1>4, <1>5, <1>6, <1>7 DEF SettingsInv, RowsRecent

\* What the cache answers was in force less than CACHE_TTL_MS ago, whatever reads
\* and changes of the parameter overlap: the entry that a late query puts back
\* after set dropped it counts its life from before the query
\* (config-values.service.ts:26 and 33), when the row it read was the current one.
THEOREM CacheIsRecent == Spec => []ServedIsRecent
<1>1. Init => SettingsInv
  BY InitVersions
<1>2. Inv /\ SettingsInv /\ [Next]_vars => SettingsInv'
  BY VersionsKeep
<1>3. SettingsInv => ServedIsRecent
  <2> SUFFICES ASSUME SettingsInv, Cached PROVE now - inForce[cache.value] < TTL
    BY DEF ServedIsRecent
  <2>1. SettingsTypes /\ CacheRecent
    BY DEF SettingsInv
  <2>2. now \in Int /\ cache.expiresAt \in Int /\ inForce[cache.value] \in Int /\ TTL \in Int
    BY <2>1, TimesAreNumbers
  <2>3. cache.expiresAt > now /\ cache.expiresAt <= inForce[cache.value] + TTL
    BY <2>1 DEF Cached, CacheRecent
  <2>4. QED
    BY <2>2, <2>3
<1>4. QED
  BY <1>1, <1>2, <1>3, InvHolds, PTL DEF Spec

----------------------------------------------------------------------------
(* The attempts. *)

LEMMA ListsLast ==
  ASSUME ListTypes, NEW h \in Handlers, Lists(h)
  PROVE  ListTypes' /\ \A g \in Handlers \ {h} : todo'[g] = todo[g]
BY DEF ListTypes, Lists

LEMMA PendingIsFinite ==
  ASSUME NEW l
  PROVE  /\ IsFiniteSet(PendingAt(l)) /\ Cardinality(PendingAt(l)) \in Nat
         /\ Cardinality(PendingAt(l)) <= Cardinality(Handlers) /\ Cardinality(Handlers) \in Nat
<1>1. PendingAt(l) \subseteq Handlers /\ IsFiniteSet(Handlers)
  BY NotificationsAssumption DEF PendingAt
<1>2. QED
  BY <1>1, FS_Subset, FS_CardinalityType

\* A row may be tried by fewer, or is tried by one of those who might, or has tries left.
LEMMA CountsOn ==
  ASSUME NEW l \in LogIds, logs[l].attempts \in Nat, logs'[l].attempts \in Nat,
         logs[l].attempts + Cardinality(PendingAt(l)) <= Limit,
         \/ logs'[l].attempts = logs[l].attempts /\ PendingAt(l)' \subseteq PendingAt(l)
         \/ \E h \in PendingAt(l) : /\ logs'[l].attempts = logs[l].attempts + 1
                                    /\ PendingAt(l)' \subseteq PendingAt(l) \ {h}
         \/ logs'[l].attempts < MAX_ATTEMPTS
  PROVE  (logs[l].attempts + Cardinality(PendingAt(l)) <= Limit)'
<1> DEFINE after == PendingAt(l)'
<1>1. /\ IsFiniteSet(PendingAt(l)) /\ Cardinality(PendingAt(l)) \in Nat
      /\ Cardinality(Handlers) \in Nat /\ MAX_ATTEMPTS \in Nat
  BY PendingIsFinite, NotificationsAssumption
<1>2. IsFiniteSet(after) /\ Cardinality(after) \in Nat /\ Cardinality(after) <= Cardinality(Handlers)
  <2>1. after \subseteq Handlers
    BY DEF PendingAt
  <2> HIDE DEF after
  <2>2. QED
    BY <2>1, NotificationsAssumption, FS_Subset, FS_CardinalityType
<1> HIDE DEF after
<1>3. CASE logs'[l].attempts = logs[l].attempts /\ after \subseteq PendingAt(l)
  <2>1. Cardinality(after) <= Cardinality(PendingAt(l))
    BY <1>1, <1>3, FS_Subset
  <2>2. logs'[l].attempts + Cardinality(after) <= Limit
    BY <1>1, <1>2, <1>3, <2>1 DEF Limit
  <2>3. QED
    BY <2>2 DEF after, Limit
<1>4. ASSUME NEW h \in PendingAt(l), logs'[l].attempts = logs[l].attempts + 1,
             after \subseteq PendingAt(l) \ {h}
      PROVE  (logs[l].attempts + Cardinality(PendingAt(l)) <= Limit)'
  <2>1. /\ IsFiniteSet(PendingAt(l) \ {h})
        /\ Cardinality(PendingAt(l) \ {h}) = Cardinality(PendingAt(l)) - 1
    BY <1>1, FS_RemoveElement
  <2>2. Cardinality(after) <= Cardinality(PendingAt(l)) - 1
    BY <1>4, <2>1, FS_Subset
  <2>3. logs'[l].attempts + Cardinality(after) <= Limit
    BY <1>1, <1>2, <1>4, <2>2 DEF Limit
  <2>4. QED
    BY <2>3 DEF after, Limit
<1>5. CASE logs'[l].attempts < MAX_ATTEMPTS
  <2>1. logs'[l].attempts + Cardinality(after) <= Limit
    BY <1>1, <1>2, <1>5 DEF Limit
  <2>2. QED
    BY <2>1 DEF after, Limit
<1>6. QED
  BY <1>3, <1>4, <1>5 DEF after

\* What a handler holds, it holds as long as it stays where it is.
StaysAt(g) == task'[g] = task[g] /\ todo'[g] = todo[g]

LEMMA LogLasts ==
  ASSUME NEW g, HoldsLog(g), StaysAt(g)
  PROVE  HoldsLog(g)' /\ \A l : Pending(g, l)' => Pending(g, l)
BY DEF HoldsLog, Pending, StaysAt

LEMMA NoLogHeld ==
  ASSUME NEW g, task'[g].op \notin RetryOps
  PROVE  HoldsLog(g)' /\ \A l : ~Pending(g, l)'
BY DEF HoldsLog, Pending, RetryOps

LEMMA SameLogs ==
  ASSUME LogsInv, ListTypes', UNCHANGED logs,
         \A g \in Handlers : StaysAt(g) \/ task'[g].op \notin RetryOps
  PROVE  LogsInv'
<1>1. LogTypes /\ AttemptsBounded /\ \A g \in Handlers : HoldsLog(g)
  BY DEF LogsInv
<1>2. \A g \in Handlers : HoldsLog(g)' /\ \A l : Pending(g, l)' => Pending(g, l)
  BY <1>1, LogLasts, NoLogHeld
<1>3. ASSUME NEW l \in LogIds PROVE (logs[l].attempts + Cardinality(PendingAt(l)) <= Limit)'
  <2>1. PendingAt(l)' \subseteq PendingAt(l)
    BY <1>2 DEF PendingAt
  <2>2. logs[l].attempts \in Nat /\ logs'[l].attempts = logs[l].attempts
    BY <1>1 DEF LogTypes
  <2>3. logs[l].attempts + Cardinality(PendingAt(l)) <= Limit
    BY <1>1 DEF AttemptsBounded
  <2>4. QED
    BY <2>1, <2>2, <2>3, CountsOn
<1>4. QED
  BY <1>1, <1>2, <1>3 DEF LogsInv, LogTypes, AttemptsBounded

\* One handler tries.
LEMMA StepLogs ==
  ASSUME LogsInv, NEW h \in Handlers, ListTypes', LogTypes',
         \A g \in Handlers \ {h} : StaysAt(g), HoldsLog(h)',
         \A l \in LogIds :
            \/ logs'[l].attempts = logs[l].attempts /\ (Pending(h, l)' => Pending(h, l))
            \/ /\ logs'[l].attempts = logs[l].attempts + 1
               /\ Pending(h, l) /\ ~Pending(h, l)'
            \/ logs'[l].attempts < MAX_ATTEMPTS
  PROVE  LogsInv'
<1>1. LogTypes /\ AttemptsBounded /\ \A g \in Handlers : HoldsLog(g)
  BY DEF LogsInv
<1>2. \A g \in Handlers \ {h} : HoldsLog(g)' /\ \A l : Pending(g, l)' => Pending(g, l)
  BY <1>1, LogLasts
<1>3. ASSUME NEW l \in LogIds PROVE (logs[l].attempts + Cardinality(PendingAt(l)) <= Limit)'
  <2>1. logs[l].attempts \in Nat /\ logs'[l].attempts \in Nat
    BY <1>1 DEF LogTypes
  <2>2. logs[l].attempts + Cardinality(PendingAt(l)) <= Limit
    BY <1>1 DEF AttemptsBounded
  <2>3. CASE logs'[l].attempts = logs[l].attempts /\ (Pending(h, l)' => Pending(h, l))
    <3>1. PendingAt(l)' \subseteq PendingAt(l)
      BY <1>2, <2>3 DEF PendingAt
    <3>2. QED
      BY <2>1, <2>2, <2>3, <3>1, CountsOn
  <2>4. CASE logs'[l].attempts = logs[l].attempts + 1 /\ Pending(h, l) /\ ~Pending(h, l)'
    <3>1. h \in PendingAt(l) /\ PendingAt(l)' \subseteq PendingAt(l) \ {h}
      BY <1>2, <2>4 DEF PendingAt
    <3>2. QED
      BY <2>1, <2>2, <2>4, <3>1, CountsOn
  <2>5. CASE logs'[l].attempts < MAX_ATTEMPTS
    BY <2>1, <2>2, <2>5, CountsOn
  <2>6. QED
    BY <2>3, <2>4, <2>5
<1>4. \A g \in Handlers : HoldsLog(g)'
  BY <1>2
<1>5. QED
  BY <1>3, <1>4 DEF LogsInv, AttemptsBounded

\* What the next lemmas need of the rows, the lists and the other handlers.
LEMMA ListOf ==
  ASSUME ListTypes, NEW h \in Handlers, NEW rows, todo' = [todo EXCEPT ![h] = rows]
  PROVE  ListTypes' /\ todo'[h] = rows /\ \A g \in Handlers \ {h} : todo'[g] = todo[g]
BY DEF ListTypes

LEMMA TriesLogs ==
  ASSUME TaskTypes, LogsInv, NEW h \in Handlers,
         \/ \E template, prefs : Dispatch(h, template, prefs)
         \/ RetryFailed(h) \/ EndOfList(h) \/ \E accepted : Send(h, accepted)
  PROVE  LogsInv'
<1>1. ListTypes /\ LogTypes /\ HoldsLog(h)
  BY DEF LogsInv
<1>2. LogTypes' /\ \A l \in LogIds : logs'[l].attempts = logs[l].attempts
  BY <1>1 DEF Dispatch, RetryFailed, EndOfList, Send, LogTypes
<1>3. ASSUME NEW template, NEW prefs, Dispatch(h, template, prefs) PROVE LogsInv'
  <2>1. Moves(h, {"channel"})
    BY <1>3, StartMoves DEF Dispatch
  <2>2. ListTypes' /\ \A g \in Handlers \ {h} : todo'[g] = todo[g]
    BY <1>1, <1>3, ListOf DEF Dispatch
  <2>3. \A g \in Handlers : StaysAt(g) \/ task'[g].op \notin RetryOps
    BY <2>1, <2>2 DEF Moves, StaysAt, RetryOps
  <2>4. QED
    BY <1>3, <2>2, <2>3, SameLogs DEF Dispatch
<1>4. CASE RetryFailed(h)
  <2>1. Moves(h, {"failedLog"})
    BY <1>4, StartMoves DEF RetryFailed
  <2>2. ListTypes' /\ todo'[h] = ToRetry /\ \A g \in Handlers \ {h} : todo'[g] = todo[g]
    BY <1>1, <1>4, ListOf DEF RetryFailed
  <2>3. task'[h].op = "failedLog" /\ \A g \in Handlers \ {h} : StaysAt(g)
    BY <2>1, <2>2 DEF Moves, StaysAt
  <2>4. HoldsLog(h)' /\ \A l : Pending(h, l)' => l \in ToRetry
    BY <2>2, <2>3 DEF HoldsLog, Pending, ToRetry, RetryOps
  <2>5. \A l \in LogIds : logs'[l].attempts < MAX_ATTEMPTS \/ ~Pending(h, l)'
    BY <1>2, <2>4 DEF ToRetry
  <2>6. QED
    BY <1>2, <2>2, <2>3, <2>4, <2>5, StepLogs
<1>5. CASE EndOfList(h)
  <2>1. Moves(h, {"idle"})
    BY <1>5, DoneMoves DEF EndOfList
  <2>2. UNCHANGED <<todo, logs>>
    BY <1>5 DEF EndOfList, auditVars
  <2>3. \A g \in Handlers : StaysAt(g) \/ task'[g].op \notin RetryOps
    BY <2>1, <2>2 DEF Moves, StaysAt, RetryOps
  <2>4. QED
    BY <1>1, <2>2, <2>3, SameLogs DEF ListTypes
<1>6. ASSUME NEW accepted, Send(h, accepted) PROVE LogsInv'
  <2>1. PICK op \in {"writeNew", "writeAgain"}, seen \in {"SENT", "FAILED"} :
           /\ op = "writeNew" <=> task[h].op = "sendNew"
           /\ SetsSeen(h, op, seen)
    BY <1>6 DEF Send, SetsSeen
  <2>2. /\ Moves(h, {op}) /\ task'[h].id = task[h].id /\ task'[h].seen = seen
        /\ task[h].op \in {"sendNew", "sendAgain"} /\ UNCHANGED <<todo, logs>>
    <3>1. Moves(h, {op}) /\ task'[h].id = task[h].id /\ task'[h].seen = seen
      BY <2>1, SetsMove
    <3>2. QED
      BY <1>6, <3>1 DEF Send, auditVars
  <2>3. ListTypes' /\ task'[h].op = op /\ \A g \in Handlers \ {h} : StaysAt(g)
    BY <1>1, <2>2 DEF ListTypes, Moves, StaysAt
  <2>4. HoldsLog(h)' /\ \A l : Pending(h, l)' => Pending(h, l)
    BY <1>1, <2>1, <2>2, <2>3 DEF HoldsLog, Pending, RetryOps
  <2>5. QED
    BY <1>2, <2>3, <2>4, StepLogs
<1>7. QED
  BY <1>3, <1>4, <1>5, <1>6

LEMMA NewLog ==
  ASSUME TaskTypes, LogsInv, NEW h \in Handlers, CreateLog(h)
  PROVE  LogsInv'
<1>1. ListTypes /\ LogTypes
  BY DEF LogsInv
<1>2. PICK l, rows :
         /\ l \in LogIds /\ logs[l] = NoLog
         /\ logs' = [logs EXCEPT ![l].status = "QUEUED"]
         /\ todo' = [todo EXCEPT ![h] = rows]
         /\ SetsId(h, "sendNew", l)
  BY DEF CreateLog, SetsId
<1>3. LogTypes' /\ \A k \in LogIds : logs'[k].attempts = logs[k].attempts
  BY <1>1, <1>2 DEF LogTypes
<1>4. logs'[l].attempts < MAX_ATTEMPTS
  <2>1. logs'[l].attempts = 0
    BY <1>2, <1>3 DEF NoLog
  <2>2. QED
    BY <2>1, NotificationsAssumption
<1>5. ListTypes' /\ \A g \in Handlers \ {h} : todo'[g] = todo[g]
  <2>1. PICK list : todo' = [todo EXCEPT ![h] = list]
    BY <1>2
  <2>2. QED
    BY <1>1, <2>1, ListOf
<1>6. Moves(h, {"sendNew"}) /\ task'[h].id = l
  BY <1>2, SetsMove
<1>7. task'[h].op = "sendNew" /\ \A g \in Handlers \ {h} : StaysAt(g)
  BY <1>5, <1>6 DEF Moves, StaysAt
<1>8. HoldsLog(h)' /\ \A k : Pending(h, k)' => k = l
  <2>1. HoldsLog(h)'
    BY <1>2, <1>6, <1>7 DEF HoldsLog, RetryOps
  <2>2. \A k : Pending(h, k)' => k = l
    BY <1>6, <1>7 DEF Pending
  <2>3. QED
    BY <2>1, <2>2
<1>9. \A k \in LogIds : logs'[k].attempts < MAX_ATTEMPTS \/ ~Pending(h, k)'
  BY <1>4, <1>8
<1>10. QED
  BY <1>3, <1>5, <1>7, <1>8, <1>9, StepLogs

LEMMA TriedLog ==
  ASSUME TaskTypes, LogsInv, NEW h \in Handlers, WriteAttempt(h)
  PROVE  LogsInv'
<1>0. PICK m : m = task[h].id
  OBVIOUS
<1> DEFINE row == [status |-> task[h].seen, attempts |-> logs[m].attempts + 1]
<1>1. ListTypes /\ LogTypes /\ HoldsLog(h) /\ task[h].op \in {"writeNew", "writeAgain"}
  BY DEF LogsInv, WriteAttempt
<1>2. m \in LogIds /\ Pending(h, m) /\ task[h].seen \in {"SENT", "FAILED"}
  BY <1>0, <1>1 DEF HoldsLog, Pending, RetryOps
<1>3. logs' = [logs EXCEPT ![m] = row]
  BY <1>0 DEF WriteAttempt
<1>4. /\ row \in [status : {"NONE", "QUEUED", "SENT", "FAILED"}, attempts : Nat]
      /\ row.attempts = logs[m].attempts + 1
  BY <1>1, <1>2 DEF LogTypes
<1> HIDE DEF row
<1>5. LogTypes' /\ logs'[m].attempts = logs[m].attempts + 1
  BY <1>1, <1>2, <1>3, <1>4 DEF LogTypes
<1>6. \A k \in LogIds \ {m} : logs'[k].attempts = logs[k].attempts
  BY <1>1, <1>3 DEF LogTypes
<1>7. PICK op : op = (IF task[h].op = "writeNew" THEN "channel" ELSE "failedLog") /\ Goto(h, op)
  BY DEF WriteAttempt
<1>8. Moves(h, {op}) /\ UNCHANGED todo
  BY <1>7, GotoMoves DEF WriteAttempt, auditVars
<1>9. ListTypes' /\ task'[h].op = op /\ \A g \in Handlers \ {h} : StaysAt(g)
  BY <1>1, <1>8 DEF ListTypes, Moves, StaysAt
<1>10. HoldsLog(h)' /\ ~Pending(h, m)' /\ \A k : Pending(h, k)' => Pending(h, k)
  <2>1. CASE task[h].op = "writeNew"
    <3>1. task'[h].op = "channel"
      BY <1>7, <1>9, <2>1
    <3>2. QED
      BY <3>1, NoLogHeld DEF RetryOps
  <2>2. CASE task[h].op = "writeAgain"
    <3>1. task'[h].op = "failedLog" /\ todo'[h] = todo[h]
      BY <1>7, <1>8, <1>9, <2>2
    <3>2. m \notin todo[h] /\ todo[h] \subseteq LogIds
      BY <1>0, <1>1, <2>2 DEF HoldsLog, RetryOps
    <3>3. QED
      BY <2>2, <3>1, <3>2 DEF HoldsLog, Pending, RetryOps
  <2>3. QED
    BY <1>1, <2>1, <2>2
<1>11. \A k \in LogIds :
           \/ logs'[k].attempts = logs[k].attempts /\ (Pending(h, k)' => Pending(h, k))
           \/ /\ logs'[k].attempts = logs[k].attempts + 1
              /\ Pending(h, k) /\ ~Pending(h, k)'
  BY <1>2, <1>5, <1>6, <1>10
<1>12. QED
  BY <1>5, <1>9, <1>10, <1>11, StepLogs

LEMMA NextLog ==
  ASSUME TaskTypes, LogsInv, NEW h \in Handlers, NextFailed(h)
  PROVE  LogsInv'
<1>1. ListTypes /\ LogTypes /\ HoldsLog(h) /\ task[h].op = "failedLog" /\ UNCHANGED logs
  BY DEF LogsInv, NextFailed
<1>2. PICK l, rows :
         /\ l \in todo[h] /\ rows = todo[h] \ {l}
         /\ todo' = [todo EXCEPT ![h] = rows]
         /\ SetsId(h, "sendAgain", l)
  BY DEF NextFailed, SetsId
<1>3. ListTypes' /\ todo'[h] = rows /\ \A g \in Handlers \ {h} : todo'[g] = todo[g]
  BY <1>1, <1>2, ListOf
<1>4. Moves(h, {"sendAgain"}) /\ task'[h].id = l
  BY <1>2, SetsMove
<1>5. task'[h].op = "sendAgain" /\ \A g \in Handlers \ {h} : StaysAt(g)
  BY <1>3, <1>4 DEF Moves, StaysAt
<1>6. HoldsLog(h)' /\ \A k : Pending(h, k)' => Pending(h, k)
  BY <1>1, <1>2, <1>3, <1>4, <1>5 DEF HoldsLog, Pending, RetryOps
<1>7. QED
  BY <1>1, <1>3, <1>5, <1>6, StepLogs DEF LogTypes

LEMMA NotificationLogs ==
  ASSUME TaskTypes, LogsInv, NEW h \in Handlers, NotificationStep(h)
  PROVE  LogsInv'
BY TriesLogs, NewLog, TriedLog, NextLog DEF NotificationStep

LEMMA LogsKeep ==
  ASSUME Inv, LogsInv, [Next]_vars
  PROVE  LogsInv'
<1>1. TaskTypes /\ ListTypes
  BY DEF Inv, Types, LogsInv
<1>2. ASSUME NEW h \in Handlers, Serve(h) PROVE LogsInv'
  <2>1. CASE NotificationStep(h)
    BY <1>1, <2>1, NotificationLogs
  <2>2. CASE ~NotificationStep(h)
    <3>1. UNCHANGED <<task, todo>> \/ \E ops : Avoids(h, ops) /\ RetryOps \subseteq ops
      <4>1. OrdinaryStep(h) => Avoids(h, Special)
        BY DEF OrdinaryStep, Ordinary
      <4>2. /\ ConfigStep(h) => Avoids(h, Special \ ConfigOps)
            /\ FeeStep(h) => Avoids(h, Special \ FeeOps)
            /\ PortfolioStep(h) => UNCHANGED task \/ Avoids(h, Special \ ReportOps)
        BY <1>1, ConfigAvoids, FeeAvoids, PortfolioAvoids
      <4>3. PortfolioStep(h) => UNCHANGED todo
        BY DEF PortfolioStep, InsertPosting, CommitPosting, RollBackPosting, StartStatement, ReadEntries,
           ReadAfter, ReadBalances, auditVars
      <4>4. /\ RetryOps \subseteq Special /\ RetryOps \subseteq Special \ ConfigOps
            /\ RetryOps \subseteq Special \ FeeOps /\ RetryOps \subseteq Special \ ReportOps
        BY DEF Special, ConfigOps, RetryOps, FeeOps, ReportOps
      <4>5. QED
        BY <1>2, <2>2, <4>1, <4>2, <4>3, <4>4, ServeKinds
    <3>2. UNCHANGED logs /\ Lists(h)
      <4>1. ConfigStep(h) => UNCHANGED todo
        BY DEF ConfigStep, GetConfig, QueryConfig, FillCache, SetConfig, CloseRows, CommitSet, DropCache,
               auditVars
      <4>2. FeeStep(h) => Lists(h)
        BY DEF FeeStep, DirectFeeStep, FeeChangeStep, CreateFee, DeactivateFee, FeeChange, MatchSchedules, LockSchedules, InsertSchedule,
               auditVars, Lists
      <4>3. PortfolioStep(h) => UNCHANGED todo
        BY DEF PortfolioStep, InsertPosting, CommitPosting, RollBackPosting, StartStatement, ReadEntries,
           ReadAfter, ReadBalances, auditVars
      <4>4. QED
        BY <1>2, <2>2, <4>1, <4>2, <4>3, ServeKinds DEF OrdinaryStep, Lists
    <3>3. ListTypes' /\ \A g \in Handlers \ {h} : todo'[g] = todo[g]
      BY <1>1, <3>2, ListsLast
    <3>4. \A g \in Handlers \ {h} : StaysAt(g)
      BY <3>1, <3>3 DEF Avoids, StaysAt
    <3>5. StaysAt(h) \/ task'[h].op \notin RetryOps
      BY <3>1 DEF Avoids, StaysAt
    <3>6. QED
      BY <3>2, <3>3, <3>4, <3>5, SameLogs
  <2>3. QED
    BY <2>1, <2>2
<1>3. CASE Arrive
  <2>1. UNCHANGED <<task, todo, logs>>
    BY <1>3, ArriveKinds DEF OutsideStep
  <2>2. QED
    BY <1>1, <2>1, SameLogs DEF ListTypes, StaysAt
<1>4. CASE Crash
  <2>1. task' = [h \in Handlers |-> Idle] /\ todo' = [h \in Handlers |-> {}] /\ UNCHANGED logs
    BY <1>4 DEF Crash, CrashAudit, CrashTasks
  <2>2. Idle.op \notin RetryOps /\ ListTypes'
    BY <2>1 DEF Idle, RetryOps, ListTypes
  <2>3. QED
    BY <2>1, <2>2, SameLogs
<1>5. CASE UNCHANGED vars
  <2>1. UNCHANGED <<task, todo, logs>>
    BY <1>5 DEF vars, approvalVars, auditVars
  <2>2. QED
    BY <1>1, <2>1, SameLogs DEF ListTypes, StaysAt
<1>6. QED
  BY <1>2, <1>3, <1>4, <1>5 DEF Next

LEMMA InitLogs == Init => LogsInv
<1> SUFFICES ASSUME Init PROVE LogsInv
  OBVIOUS
<1>1. /\ task = [h \in Handlers |-> Idle] /\ todo = [h \in Handlers |-> {}]
      /\ logs = [l \in LogIds |-> NoLog]
  BY DEF Init, ApprovalsInit, AuditInit, NotificationsInit
<1>2. ListTypes /\ LogTypes /\ \A l \in LogIds : logs[l].attempts = 0
  BY <1>1 DEF ListTypes, LogTypes, NoLog
<1>3. \A h \in Handlers : HoldsLog(h) /\ \A l : ~Pending(h, l)
  BY <1>1 DEF HoldsLog, Pending, RetryOps, Idle
<1>4. ASSUME NEW l \in LogIds PROVE logs[l].attempts + Cardinality(PendingAt(l)) <= Limit
  <2>1. PendingAt(l) = {}
    BY <1>3 DEF PendingAt
  <2>2. Cardinality(PendingAt(l)) = 0
    BY <2>1, FS_EmptySet
  <2>3. Cardinality(Handlers) \in Nat /\ MAX_ATTEMPTS \in Nat /\ MAX_ATTEMPTS > 0
    BY PendingIsFinite, NotificationsAssumption
  <2>4. QED
    BY <1>2, <2>2, <2>3 DEF Limit
<1>5. QED
  BY <1>2, <1>3, <1>4 DEF LogsInv, AttemptsBounded

\* However many runs of the job overlap, and wherever the process stops between an
\* answer and the row it is written to, a message is tried at most once more than
\* MAX_ATTEMPTS for each handler that may be under way: every handler that still
\* holds the row is counted as an attempt (notifications.service.ts:90, 97, 171).
THEOREM RetriesEnd == Spec => []RetriesAreBounded
<1>1. Init => LogsInv
  BY InitLogs
<1>2. Inv /\ LogsInv /\ [Next]_vars => LogsInv'
  BY LogsKeep
<1>3. LogsInv => RetriesAreBounded
  <2> SUFFICES ASSUME LogsInv, NEW l \in LogIds
               PROVE  logs[l].attempts <= MAX_ATTEMPTS + Cardinality(Handlers) - 1
    BY DEF RetriesAreBounded
  <2>1. logs[l].attempts \in Nat /\ logs[l].attempts + Cardinality(PendingAt(l)) <= Limit
    BY DEF LogsInv, LogTypes, AttemptsBounded
  <2>2. Cardinality(PendingAt(l)) \in Nat /\ Cardinality(Handlers) \in Nat /\ MAX_ATTEMPTS \in Nat
    BY PendingIsFinite, NotificationsAssumption
  <2>3. QED
    BY <2>1, <2>2 DEF Limit
<1>4. QED
  BY <1>1, <1>2, <1>3, InvHolds, PTL DEF Spec

----------------------------------------------------------------------------
(* The schedules. *)

LEMMA CallsCount ==
  ASSUME calls \in Nat, [Next]_vars
  PROVE  calls' \in Nat
<1> DEFINE Counts == UNCHANGED calls \/ calls' = calls + 1
<1>1. ASSUME NEW h \in Handlers, Serve(h) PROVE Counts
  <2>1. ApprovalStep(h) \/ AuditStep(h) \/ (\E kind : OtherEntry(h, kind)) => Counts
    BY DEF ApprovalStep, ReadRequest, ClaimApproved, ClaimRejected, Finish, AuditStep, LockChain, ReadLast,
           InsertRow, AbortAppend, OtherEntry, Start
  <2>2. ReconStep(h) => Counts
    BY DEF ReconStep, StartRun, ReadLine, MarkPaid, CloseMatchedItem, FindItem, CreateItem, AlertMirror,
           MirrorCheck, UpdateItem, WriteUpdate, ReadWriteOff, WriteOff, Start
  <2>3. ConfigStep(h) \/ SwitchStep(h) => Counts
    BY DEF ConfigStep, GetConfig, QueryConfig, FillCache, SetConfig, CloseRows, CommitSet, DropCache,
           SwitchStep, LiveTradingToggle, ExecutePosting, PaymentForceComplete, Start
  <2>4. NotificationStep(h) \/ QuoteStep(h) => Counts
    BY DEF NotificationStep, Dispatch, CreateLog, Send, WriteAttempt, RetryFailed, NextFailed, EndOfList,
           QuoteStep, AddQuotes, UpsertQuote, ReadLatestQuote, RefreshPrice, LogIngestion, Start
  <2>5. FeeStep(h) \/ EntryStep(h) => Counts
    BY DEF FeeStep, DirectFeeStep, FeeChangeStep, CreateFee, DeactivateFee, FeeChange, MatchSchedules, LockSchedules, InsertSchedule,
           EntryStep, LoadInstrument, CanTrade, QuoteFee, QuoteGlobalFee, CanPlaceOrder, InsertOrder, Start
  <2>6. PortfolioStep(h) => Counts
    BY DEF PortfolioStep, InsertPosting, CommitPosting, RollBackPosting, StartStatement, ReadEntries,
           ReadAfter, ReadBalances, approvalVars, Start
  <2> HIDE DEF Counts
  <2>7. QED
    BY <1>1, <2>1, <2>2, <2>3, <2>4, <2>5, <2>6 DEF Serve, FeeStep
<1>2. Arrive => UNCHANGED calls
  BY ArriveKinds DEF OutsideStep
<1>3. Crash => UNCHANGED calls
  BY DEF Crash, CrashAudit, CrashTasks
<1>4. UNCHANGED vars => UNCHANGED calls
  BY DEF vars, approvalVars
<1>5. QED
  BY <1>1, <1>2, <1>3, <1>4 DEF Next

LEMMA ClockGoesOn ==
  ASSUME Inv, SettingsInv, [Next]_vars
  PROVE  now \in Nat /\ now' \in Nat /\ now <= now'
<1>1. SettingsTypes /\ SettingsTypes'
  BY VersionsKeep DEF SettingsInv
<1>2. now \in Nat /\ now' \in Nat
  BY <1>1, SettingsAssumption DEF SettingsTypes
<1>3. now' = now \/ now' = now + 1
  <2>1. ASSUME NEW h \in Handlers, Serve(h) PROVE UNCHANGED now
    <3>1. ConfigStep(h) => UNCHANGED now
      BY DEF ConfigStep, GetConfig, QueryConfig, FillCache, SetConfig, CloseRows, CommitSet, DropCache,
             settingsVars
    <3>2. QED
      BY <2>1, <3>1, ServeKinds DEF OrdinaryStep, Versions
  <2>2. CASE Arrive
    BY <2>2, ArriveKinds DEF OutsideStep, Tick, Versions, settingsVars
  <2>3. CASE Crash \/ UNCHANGED vars
    BY <2>3 DEF Crash, vars, settingsVars
  <2>4. QED
    BY <2>1, <2>2, <2>3 DEF Next
<1>4. QED
  BY <1>2, <1>3

\* No row goes, nor changes its market.
RowsLast ==
    \A i \in DOMAIN schedules : i \in DOMAIN schedules' /\ schedules'[i].market = schedules[i].market
OnTheClock == now \in Nat /\ now' \in Nat /\ now <= now'

LEMMA FeesLast ==
  ASSUME NEW g, HoldsFees(g), Lasting, OnTheClock, RowsLast, StaysAt(g)
  PROVE  HoldsFees(g)'
<1>1. CASE task[g].op \in FeeOps
  <2>1. task[g].id \in 0 .. now'
    BY <1>1 DEF HoldsFees, OnTheClock
  <2>2. PICK r \in RequestIds : r = task[g].appr /\ approvals[r].state # "NONE"
    BY <1>1 DEF HoldsFees
  <2>3. approvals'[r].state # "NONE" /\ approvals'[r].target = approvals[r].target
    BY <2>2 DEF Lasting
  <2>4. task[g].op \in {"lockSchedules", "insertSchedule"} =>
            \A i \in todo[g] : i \in DOMAIN schedules' /\ schedules'[i].market = approvals'[r].target
    BY <2>2, <2>3 DEF HoldsFees, RowsLast
  <2>5. QED
    BY <2>1, <2>2, <2>3, <2>4 DEF HoldsFees, StaysAt
<1>2. CASE task[g].op \notin FeeOps
  BY <1>2 DEF HoldsFees, FeeOps, StaysAt
<1>3. QED
  BY <1>1, <1>2

LEMMA NoFeesHeld ==
  ASSUME NEW g, task'[g].op \notin FeeOps
  PROVE  HoldsFees(g)'
BY DEF HoldsFees, FeeOps

LEMMA StepFees ==
  ASSUME FeesInv, Lasting, OnTheClock, calls' \in Nat, ScheduleTypes', RowsLast,
         NEW h \in Handlers, \A g \in Handlers \ {h} : StaysAt(g), HoldsFees(h)'
  PROVE  FeesInv'
BY FeesLast DEF FeesInv

LEMMA SameFees ==
  ASSUME FeesInv, Lasting, OnTheClock, calls' \in Nat, UNCHANGED schedules,
         \A g \in Handlers : StaysAt(g) \/ task'[g].op \notin FeeOps
  PROVE  FeesInv'
<1>1. ScheduleTypes' /\ RowsLast
  BY DEF FeesInv, ScheduleTypes, RowsLast
<1>2. \A g \in Handlers : HoldsFees(g)'
  BY <1>1, FeesLast, NoFeesHeld DEF FeesInv
<1>3. QED
  BY <1>1, <1>2 DEF FeesInv

\* Schedules, some of them made inactive, with or without one more.
LEMMA InactiveRows ==
  ASSUME ScheduleTypes, NEW rows
  PROVE  LET left == Inactive(rows) IN
         /\ \E S : left \in Seq(S)
         /\ Len(left) = Len(schedules) /\ DOMAIN left = DOMAIN schedules
         /\ DOMAIN schedules = 1 .. Len(schedules) /\ Len(schedules) \in Nat
         /\ \A i \in DOMAIN schedules :
               /\ IsSchedule(left[i]) /\ left[i].market = schedules[i].market
               /\ i \notin rows => left[i] = schedules[i]
<1> DEFINE left == Inactive(rows)
           S == {left[i] : i \in DOMAIN left}
<1>1. DOMAIN schedules = 1 .. Len(schedules) /\ Len(schedules) \in Nat
  BY DEF ScheduleTypes
<1>2. DOMAIN left = 1 .. Len(schedules)
  BY <1>1 DEF Inactive
<1>3. ASSUME NEW i \in DOMAIN schedules
      PROVE  /\ IsSchedule(left[i]) /\ left[i].market = schedules[i].market
             /\ i \notin rows => left[i] = schedules[i]
  <2>1. IsSchedule(schedules[i])
    BY DEF ScheduleTypes
  <2>2. left[i] = IF i \in rows THEN [schedules[i] EXCEPT !.active = FALSE] ELSE schedules[i]
    BY DEF Inactive
  <2> HIDE DEF left
  <2>3. CASE i \in rows
    BY <2>1, <2>2, <2>3 DEF IsSchedule, ScheduleFields
  <2>4. CASE i \notin rows
    BY <2>1, <2>2, <2>4
  <2>5. QED
    BY <2>3, <2>4
<1>4. left \in [1 .. Len(schedules) -> S]
  <2>1. left = [i \in 1 .. Len(schedules) |-> left[i]]
    BY <1>1 DEF Inactive
  <2>2. QED
    BY <1>2, <2>1
<1> HIDE DEF S, left
<1>5. left \in Seq(S) /\ Len(left) = Len(schedules)
  BY <1>1, <1>2, <1>4
<1>6. QED
  BY <1>1, <1>2, <1>3, <1>5 DEF left

LEMMA OneMoreRow ==
  ASSUME NEW left, NEW S, left \in Seq(S), NEW row, IsSchedule(row),
         \A i \in DOMAIN left : IsSchedule(left[i]), schedules' = Append(left, row)
  PROVE  /\ ScheduleTypes'
         /\ DOMAIN schedules' = 1 .. Len(left) + 1 /\ DOMAIN left = 1 .. Len(left) /\ Len(left) \in Nat
         /\ \A i \in DOMAIN left : schedules'[i] = left[i]
         /\ schedules'[Len(left) + 1] = row
<1>1. schedules' \in Seq(S \cup {row}) /\ left \in Seq(S \cup {row})
  OBVIOUS
<1>2. /\ DOMAIN schedules' = 1 .. Len(left) + 1 /\ DOMAIN left = 1 .. Len(left) /\ Len(left) \in Nat
      /\ \A i \in DOMAIN left : schedules'[i] = left[i]
      /\ schedules'[Len(left) + 1] = row
  OBVIOUS
<1>3. \A i \in DOMAIN schedules' : IsSchedule(schedules'[i])
  BY <1>2
<1>4. QED
  BY <1>1, <1>2, <1>3 DEF ScheduleTypes

LEMMA ScheduleOf ==
  ASSUME NEW m, NEW name, NEW from \in Int, NEW to \in Int
  PROVE  LET row == Schedule(m, name, from, to) IN
         /\ IsSchedule(row) /\ row.market = m /\ row.from = from /\ row.to = to /\ row.active = TRUE
BY DEF Schedule, IsSchedule, ScheduleFields

\* The rows after InsertSchedule.
LEMMA InsertedRows ==
  ASSUME RequestTypes, FeesInv, OnTheClock, NEW h \in Handlers, InsertSchedule(h)
  PROVE  /\ ScheduleTypes' /\ RowsLast
         /\ \A i \in DOMAIN schedules :
               \/ schedules'[i] = schedules[i]
               \/ schedules[i].market = approvals[task[h].appr].target
         /\ \E i \in DOMAIN schedules' : /\ schedules'[i].market = approvals[task[h].appr].target
                                         /\ schedules'[i].active
                                         /\ schedules'[i].from <= now /\ schedules'[i].to = Null
<1> DEFINE change == approvals[task[h].appr]
           row == Schedule(change.target, change.decision, task[h].id, Null)
           left == Inactive(todo[h])
<1>1. task[h].op = "insertSchedule" /\ schedules' = Append(left, row)
  BY DEF InsertSchedule
<1>2. ScheduleTypes /\ HoldsFees(h)
  BY DEF FeesInv
<1>3. /\ task[h].id \in 0 .. now
      /\ \A i \in todo[h] : i \in DOMAIN schedules /\ schedules[i].market = change.target
  BY <1>1, <1>2 DEF HoldsFees, FeeOps
<1>4. task[h].id \in Int /\ task[h].id <= now /\ Null \in Int
  BY <1>3, SettingsAssumption DEF OnTheClock, Null
<1>5. /\ IsSchedule(row) /\ row.market = change.target /\ row.from = task[h].id /\ row.to = Null
      /\ row.active = TRUE
  BY <1>4, ScheduleOf
<1>6. /\ \E S : left \in Seq(S)
      /\ Len(left) = Len(schedules) /\ DOMAIN left = DOMAIN schedules
      /\ DOMAIN schedules = 1 .. Len(schedules) /\ Len(schedules) \in Nat
      /\ \A i \in DOMAIN schedules :
            /\ IsSchedule(left[i]) /\ left[i].market = schedules[i].market
            /\ i \notin todo[h] => left[i] = schedules[i]
  BY <1>2, InactiveRows
<1> HIDE DEF row, left
<1>7. /\ ScheduleTypes'
      /\ DOMAIN schedules' = 1 .. Len(left) + 1 /\ DOMAIN left = 1 .. Len(left) /\ Len(left) \in Nat
      /\ \A i \in DOMAIN left : schedules'[i] = left[i]
      /\ schedules'[Len(left) + 1] = row
  <2>1. PICK S : left \in Seq(S)
    BY <1>6
  <2>2. \A i \in DOMAIN left : IsSchedule(left[i])
    BY <1>6
  <2>3. QED
    BY <1>1, <1>5, <2>1, <2>2, OneMoreRow
<1>8. RowsLast
  BY <1>6, <1>7 DEF RowsLast
<1>9. \A i \in DOMAIN schedules : schedules'[i] = schedules[i] \/ schedules[i].market = change.target
  BY <1>3, <1>6, <1>7
<1>10. Len(left) + 1 \in DOMAIN schedules'
  BY <1>7
<1>11. QED
  BY <1>4, <1>5, <1>7, <1>8, <1>9, <1>10

LEMMA FeeKeepsRows ==
  ASSUME FeesInv, NEW h \in Handlers, FeeStep(h), ~InsertSchedule(h)
  PROVE  ScheduleTypes' /\ RowsLast
<1>1. ScheduleTypes
  BY DEF FeesInv
<1>2. CASE UNCHANGED schedules
  BY <1>1, <1>2 DEF ScheduleTypes, RowsLast
<1>3. ASSUME NEW m, NEW name, NEW w \in Windows, CreateFee(h, m, name, w) PROVE ScheduleTypes' /\ RowsLast
  <2> DEFINE row == Schedule(m, name, w.from, w.to)
  <2>1. schedules' = Append(schedules, row)
    BY <1>3 DEF CreateFee
  <2>2. w.from \in Int /\ w.to \in Int
    BY FeesAssumption, SettingsAssumption DEF Null
  <2>3. IsSchedule(row)
    BY <2>2, ScheduleOf
  <2> HIDE DEF row
  <2>4. PICK S : schedules \in Seq(S)
    BY <1>1 DEF ScheduleTypes
  <2>5. \A i \in DOMAIN schedules : IsSchedule(schedules[i])
    BY <1>1 DEF ScheduleTypes
  <2>6. /\ ScheduleTypes' /\ DOMAIN schedules' = 1 .. Len(schedules) + 1
        /\ DOMAIN schedules = 1 .. Len(schedules) /\ Len(schedules) \in Nat
        /\ \A i \in DOMAIN schedules : schedules'[i] = schedules[i]
    BY <2>1, <2>3, <2>4, <2>5, OneMoreRow
  <2>7. QED
    BY <2>6 DEF RowsLast
<1>4. ASSUME NEW i, DeactivateFee(h, i) PROVE ScheduleTypes' /\ RowsLast
  <2>1. schedules' = Inactive({i})
    BY <1>4 DEF DeactivateFee
  <2>2. QED
    BY <1>1, <2>1, InactiveRows DEF ScheduleTypes, RowsLast
<1>5. QED
  BY <1>2, <1>3, <1>4 DEF FeeStep, DirectFeeStep, FeeChangeStep, FeeChange, MatchSchedules, LockSchedules

LEMMA FeesAfterFeeStep ==
  ASSUME Inv, ListTypes, FeesInv, Lasting, OnTheClock, calls' \in Nat, NEW h \in Handlers, FeeStep(h)
  PROVE  FeesInv'
<1>1. TaskTypes /\ RequestTypes /\ HoldsRequest(h)
  BY DEF Inv, Types, Relies
<1>2. ScheduleTypes' /\ RowsLast
  BY <1>1, FeeKeepsRows, InsertedRows
<1>3. HoldsFees(h)
  BY DEF FeesInv
<1>4. Lists(h)
  BY DEF FeeStep, DirectFeeStep, FeeChangeStep, CreateFee, DeactivateFee, FeeChange, MatchSchedules, LockSchedules, InsertSchedule, auditVars,
         Lists
<1>5. \A g \in Handlers \ {h} : todo'[g] = todo[g]
  BY <1>4, ListsLast
<1> DEFINE Held == (\A g \in Handlers \ {h} : task'[g] = task[g]) /\ HoldsFees(h)'
<1>6. ASSUME NEW op \in {"lockChain"}, Moves(h, {op}) PROVE Held
  BY <1>6, NoFeesHeld DEF Moves, FeeOps
<1>7. ASSUME FeeChange(h) PROVE Held
  <2>1. PICK id \in 0 .. now : SetsId(h, "matchSchedules", id)
    <3>1. now \in 0 .. now
      BY DEF OnTheClock
    <3>2. QED
      BY <1>7, <3>1 DEF FeeChange, SetsId
  <2>2. Moves(h, {"matchSchedules"}) /\ task'[h].id = id /\ task'[h].appr = task[h].appr
    BY <1>1, <2>1, SetsMove
  <2>3. PICK r \in RequestIds : r = task[h].appr /\ approvals[r].state # "NONE"
    BY <1>1, <1>7 DEF FeeChange, Executing, HoldsRequest, Agreed
  <2>4. approvals'[r].state # "NONE"
    BY <2>3 DEF Lasting
  <2>5. id \in 0 .. now'
    BY <2>1 DEF OnTheClock
  <2>6. task'[h].op = "matchSchedules"
    BY <2>2 DEF Moves
  <2>7. HoldsFees(h)'
    BY <2>2, <2>3, <2>4, <2>5, <2>6 DEF HoldsFees
  <2>8. QED
    BY <2>2, <2>7 DEF Moves
<1>8. ASSUME NEW op, NEW rows, Goto(h, op), todo' = [todo EXCEPT ![h] = rows], UNCHANGED <<schedules, approvals>>,
             task[h].op \in FeeOps,
             \A i \in rows : /\ i \in DOMAIN schedules
                             /\ schedules[i].market = approvals[task[h].appr].target
      PROVE  Held
  <2>1. Moves(h, {op}) /\ task'[h].id = task[h].id /\ task'[h].appr = task[h].appr
    BY <1>1, <1>8, GotoMoves
  <2>2. todo'[h] = rows
    BY <1>8, ListOf
  <2>3. /\ task[h].id \in 0 .. now' /\ task[h].appr \in RequestIds
        /\ approvals'[task[h].appr].state # "NONE"
    BY <1>3, <1>8 DEF HoldsFees, OnTheClock
  <2>4. HoldsFees(h)'
    BY <1>8, <2>1, <2>2, <2>3 DEF HoldsFees
  <2>5. QED
    BY <2>1, <2>4 DEF Moves
<1>9. ASSUME MatchSchedules(h) PROVE Held
  <2> DEFINE rows == {i \in DOMAIN schedules :
                        schedules[i].market = approvals[task[h].appr].target /\ schedules[i].active}
  <2>1. /\ Goto(h, "lockSchedules") /\ todo' = [todo EXCEPT ![h] = rows] /\ UNCHANGED <<schedules, approvals>>
        /\ task[h].op \in FeeOps
    BY <1>9 DEF MatchSchedules, FeeOps
  <2>2. \A i \in rows : i \in DOMAIN schedules /\ schedules[i].market = approvals[task[h].appr].target
    OBVIOUS
  <2> HIDE DEF rows
  <2>3. QED
    BY <1>8, <2>1, <2>2
<1>10. ASSUME LockSchedules(h) PROVE Held
  <2> DEFINE rows == {i \in todo[h] : schedules[i].active}
  <2>1. /\ Goto(h, "insertSchedule") /\ todo' = [todo EXCEPT ![h] = rows] /\ UNCHANGED <<schedules, approvals>>
        /\ task[h].op = "lockSchedules" /\ task[h].op \in FeeOps
    BY <1>10 DEF LockSchedules, FeeOps
  <2>2. \A i \in rows : i \in DOMAIN schedules /\ schedules[i].market = approvals[task[h].appr].target
    BY <1>3, <2>1 DEF HoldsFees
  <2> HIDE DEF rows
  <2>3. QED
    BY <1>8, <2>1, <2>2
<1>11. ASSUME NEW m, NEW name, NEW w, NEW i, CreateFee(h, m, name, w) \/ DeactivateFee(h, i) PROVE Held
  <2>1. Moves(h, {"lockChain"})
    BY <1>1, <1>11, StartMoves DEF CreateFee, DeactivateFee
  <2>2. QED
    BY <1>6, <2>1
<1>12. ASSUME InsertSchedule(h) PROVE Held
  <2>1. Moves(h, {"lockChain"})
    BY <1>1, <1>12, RecordTask DEF InsertSchedule
  <2>2. QED
    BY <1>6, <2>1
<1>13. Held
  BY <1>7, <1>9, <1>10, <1>11, <1>12 DEF FeeStep, DirectFeeStep, FeeChangeStep
<1>14. \A g \in Handlers \ {h} : StaysAt(g)
  BY <1>5, <1>13 DEF StaysAt
<1>15. QED
  BY <1>2, <1>13, <1>14, StepFees

LEMMA FeesKeep ==
  ASSUME Inv, SettingsInv, LogsInv, FeesInv, [Next]_vars
  PROVE  FeesInv'
<1>1. TaskTypes /\ ListTypes
  BY DEF Inv, Types, LogsInv
<1>2. Lasting /\ OnTheClock /\ calls' \in Nat
  BY RequestsLast, ClockGoesOn, CallsCount DEF OnTheClock, FeesInv
<1>3. ASSUME NEW h \in Handlers, Serve(h) PROVE FeesInv'
  <2>1. CASE FeeStep(h)
    BY <1>1, <1>2, <2>1, FeesAfterFeeStep
  <2>2. CASE ~FeeStep(h)
    <3>1. UNCHANGED <<task, todo>> \/ \E ops : Avoids(h, ops) /\ FeeOps \subseteq ops
      <4>1. OrdinaryStep(h) => Avoids(h, Special)
        BY DEF OrdinaryStep, Ordinary
      <4>2. /\ ConfigStep(h) => Avoids(h, Special \ ConfigOps)
            /\ NotificationStep(h) => Avoids(h, Special \ RetryOps)
            /\ PortfolioStep(h) => UNCHANGED task \/ Avoids(h, Special \ ReportOps)
        BY <1>1, ConfigAvoids, NotificationAvoids, PortfolioAvoids
      <4>3. PortfolioStep(h) => UNCHANGED todo
        BY DEF PortfolioStep, InsertPosting, CommitPosting, RollBackPosting, StartStatement, ReadEntries,
           ReadAfter, ReadBalances, auditVars
      <4>4. /\ FeeOps \subseteq Special /\ FeeOps \subseteq Special \ ConfigOps
            /\ FeeOps \subseteq Special \ RetryOps /\ FeeOps \subseteq Special \ ReportOps
        BY DEF Special, ConfigOps, RetryOps, FeeOps, ReportOps
      <4>5. QED
        BY <1>3, <2>2, <4>1, <4>2, <4>3, <4>4, ServeKinds
    <3>2. UNCHANGED schedules /\ Lists(h)
      <4>1. ConfigStep(h) => UNCHANGED todo
        BY DEF ConfigStep, GetConfig, QueryConfig, FillCache, SetConfig, CloseRows, CommitSet, DropCache,
               auditVars
      <4>2. NotificationStep(h) => Lists(h)
        BY DEF NotificationStep, Dispatch, CreateLog, Send, WriteAttempt, RetryFailed, NextFailed, EndOfList,
               auditVars, Lists
      <4>3. PortfolioStep(h) => UNCHANGED todo
        BY DEF PortfolioStep, InsertPosting, CommitPosting, RollBackPosting, StartStatement, ReadEntries,
           ReadAfter, ReadBalances, auditVars
      <4>4. QED
        BY <1>3, <2>2, <4>1, <4>2, <4>3, ServeKinds DEF OrdinaryStep, Lists
    <3>3. \A g \in Handlers \ {h} : todo'[g] = todo[g]
      BY <1>1, <3>2, ListsLast
    <3>4. \A g \in Handlers \ {h} : StaysAt(g)
      BY <3>1, <3>3 DEF Avoids, StaysAt
    <3>5. StaysAt(h) \/ task'[h].op \notin FeeOps
      BY <3>1 DEF Avoids, StaysAt
    <3>6. QED
      BY <1>2, <3>2, <3>4, <3>5, SameFees
  <2>3. QED
    BY <2>1, <2>2
<1>4. CASE Arrive \/ UNCHANGED vars
  <2>1. UNCHANGED <<task, todo, schedules>>
    BY <1>4, ArriveKinds DEF OutsideStep, vars, approvalVars, auditVars
  <2>2. QED
    BY <1>2, <2>1, SameFees DEF StaysAt
<1>5. CASE Crash
  <2>1. task' = [h \in Handlers |-> Idle] /\ UNCHANGED schedules
    BY <1>5 DEF Crash, CrashAudit, CrashTasks
  <2>2. Idle.op \notin FeeOps
    BY DEF Idle, FeeOps
  <2>3. QED
    BY <1>2, <2>1, <2>2, SameFees
<1>6. QED
  BY <1>3, <1>4, <1>5 DEF Next

LEMMA InitFees == Init => FeesInv
<1> SUFFICES ASSUME Init PROVE FeesInv
  OBVIOUS
<1>1. calls = 0 /\ \A h \in Handlers : task[h].op \notin FeeOps
  BY DEF Init, ApprovalsInit, Idle, FeeOps
<1>2. schedules = <<>> \/ \E m, name : schedules = <<Schedule(m, name, 0, Null)>>
  BY DEF Init, FeesInit
<1>3. ScheduleTypes
  <2>1. CASE schedules = <<>>
    BY <2>1 DEF ScheduleTypes
  <2>2. ASSUME NEW m, NEW name, schedules = <<Schedule(m, name, 0, Null)>> PROVE ScheduleTypes
    <3> DEFINE row == Schedule(m, name, 0, Null)
    <3>1. IsSchedule(row)
      <4>1. 0 \in Int /\ Null \in Int
        BY SettingsAssumption DEF Null
      <4>2. QED
        BY <4>1, ScheduleOf
    <3>2. schedules = <<row>>
      BY <2>2
    <3> HIDE DEF row
    <3>3. schedules \in Seq({row}) /\ \A i \in DOMAIN schedules : schedules[i] = row
      BY <3>2
    <3>4. QED
      BY <3>1, <3>3 DEF ScheduleTypes
  <2>3. QED
    BY <1>2, <2>1, <2>2
<1>4. QED
  BY <1>1, <1>3 DEF FeesInv, HoldsFees, FeeOps

\* Among some rows there is a latest.
LEMMA SomeLatest ==
  ASSUME NEW rows, NEW n \in Nat, DOMAIN rows = 1 .. n, \A i \in DOMAIN rows : rows[i].from \in Int,
         NEW W \in SUBSET DOMAIN rows, W # {}
  PROVE  {i \in W : \A j \in W : rows[j].from <= rows[i].from} # {}
<1> DEFINE start == [i \in W |-> rows[i].from]
<1>1. IsFiniteSet(W)
  BY FS_Interval, FS_Subset
<1>2. \A i \in W : start[i] \in Int /\ start[i] = rows[i].from
  OBVIOUS
<1> HIDE DEF start
<1>3. PICK i \in W : \A j \in W : start[j] <= start[i]
  BY <1>1, <1>2, Highest
<1>4. QED
  BY <1>2, <1>3

LEMMA OnlyChangesReplace ==
  ASSUME Inv, FeesInv, [Next]_vars, calls' = calls, schedules' # schedules
  PROVE  \E h \in Handlers : InsertSchedule(h)
<1>1. PICK h \in Handlers : FeeStep(h)
  <2>1. ASSUME NEW h \in Handlers, Serve(h) PROVE FeeStep(h)
    BY <2>1, ServeKinds DEF OrdinaryStep
  <2>2. ~Arrive
    BY ArriveKinds DEF OutsideStep
  <2>3. ~Crash /\ ~UNCHANGED vars
    BY DEF Crash, vars
  <2>4. QED
    BY <2>1, <2>2, <2>3 DEF Next
<1>2. calls \in Nat
  BY DEF FeesInv
<1>3. ASSUME NEW m, NEW name, NEW w, NEW i, CreateFee(h, m, name, w) \/ DeactivateFee(h, i) PROVE FALSE
  <2>1. calls' = calls + 1
    BY <1>3 DEF CreateFee, DeactivateFee, Start
  <2>2. QED
    BY <1>2, <2>1
<1>4. QED
  BY <1>1, <1>3 DEF FeeStep, DirectFeeStep, FeeChangeStep, FeeChange, MatchSchedules, LockSchedules

LEMMA ReplacedIsActive ==
  ASSUME Inv, SettingsInv, FeesInv, OnTheClock, NEW h \in Handlers, InsertSchedule(h), now' = now,
         NEW m, InWindow(m, now) # {}
  PROVE  InWindow(m, now)' # {}
<1> DEFINE target == approvals[task[h].appr].target
<1>1. /\ ScheduleTypes' /\ RowsLast
      /\ \A i \in DOMAIN schedules : schedules'[i] = schedules[i] \/ schedules[i].market = target
      /\ \E i \in DOMAIN schedules' : /\ schedules'[i].market = target /\ schedules'[i].active
                                      /\ schedules'[i].from <= now /\ schedules'[i].to = Null
  BY InsertedRows DEF Inv, Types
<1> HIDE DEF target
<1>2. now < Null
  BY SettingsAssumption DEF SettingsInv, SettingsTypes, Null
<1>3. CASE m = target
  <2>1. PICK i \in DOMAIN schedules' : /\ schedules'[i].market = target /\ schedules'[i].active
                                       /\ schedules'[i].from <= now /\ schedules'[i].to = Null
    BY <1>1
  <2>2. i \in {j \in DOMAIN schedules' : /\ schedules'[j].market = m
                                         /\ schedules'[j].active
                                         /\ schedules'[j].from <= now' /\ now' < schedules'[j].to}
    BY <1>2, <1>3, <2>1
  <2>3. QED
    BY <2>2 DEF InWindow
<1>4. CASE m # target
  <2>1. PICK i \in DOMAIN schedules : /\ schedules[i].market = m /\ schedules[i].active
                                      /\ schedules[i].from <= now /\ now < schedules[i].to
    BY DEF InWindow
  <2>2. i \in DOMAIN schedules' /\ schedules'[i] = schedules[i]
    BY <1>1, <1>4, <2>1 DEF RowsLast
  <2>3. i \in {j \in DOMAIN schedules' : /\ schedules'[j].market = m
                                         /\ schedules'[j].active
                                         /\ schedules'[j].from <= now' /\ now' < schedules'[j].to}
    BY <2>1, <2>2
  <2>4. QED
    BY <2>3 DEF InWindow
<1>5. QED
  BY <1>3, <1>4

LEMMA ReplacedHasNoGap ==
  ASSUME Inv, SettingsInv, LogsInv, FeesInv, [Next]_vars, now' = now, calls' = calls, schedules' # schedules,
         NEW m \in MarketIds, activeSchedule(m, now) # {}
  PROVE  activeSchedule(m, now)' # {}
<1>1. OnTheClock /\ FeesInv'
  BY ClockGoesOn, FeesKeep DEF OnTheClock
<1>2. ScheduleTypes'
  BY <1>1 DEF FeesInv
<1>3. PICK h \in Handlers : InsertSchedule(h)
  BY OnlyChangesReplace
<1>4. PICK k \in {m, Global} : InWindow(k, now) # {}
  <2>1. LatestOf(m, now) # {} \/ LatestOf(Global, now) # {}
    BY DEF activeSchedule
  <2>2. QED
    BY <2>1 DEF LatestOf
<1>5. InWindow(k, now)' # {}
  BY <1>1, <1>3, <1>4, ReplacedIsActive
<1>6. LatestOf(k, now)' # {}
  <2>1. PICK n \in Nat : DOMAIN schedules' = 1 .. n
    BY <1>2 DEF ScheduleTypes
  <2>2. \A i \in DOMAIN schedules' : schedules'[i].from \in Int
    BY <1>2 DEF ScheduleTypes, IsSchedule
  <2>3. PICK W \in SUBSET DOMAIN schedules' : W = InWindow(k, now)'
    BY DEF InWindow
  <2>4. {i \in W : \A j \in W : schedules'[j].from <= schedules'[i].from} # {}
    BY <1>5, <2>1, <2>2, <2>3, SomeLatest
  <2>5. QED
    BY <2>3, <2>4 DEF LatestOf
<1>7. LatestOf(m, now)' # {} \/ LatestOf(Global, now)' # {}
  BY <1>4, <1>6
<1>8. QED
  BY <1>7 DEF activeSchedule

\* An approved change of fees leaves no market without a schedule it had: the rows
\* that a change found and locked are those of its market as long as it holds them,
\* so the one transaction takes away only what its own row replaces
\* (approvals-executors.service.ts:116), and what has the latest start is defined.
THEOREM ChangesLeaveNoGap == Spec => FeesHaveNoGap
<1>1. Init => SettingsInv /\ LogsInv /\ FeesInv
  BY InitVersions, InitLogs, InitFees
<1>2. Inv /\ SettingsInv /\ LogsInv /\ FeesInv /\ [Next]_vars => SettingsInv' /\ LogsInv' /\ FeesInv'
  BY VersionsKeep, LogsKeep, FeesKeep
<1>3. Inv /\ SettingsInv /\ LogsInv /\ FeesInv /\ [Next]_vars =>
          [now' = now /\ calls' = calls =>
              \A m \in MarketIds : activeSchedule(m, now) # {} => activeSchedule(m, now)' # {}]_schedules
  BY ReplacedHasNoGap
<1>4. QED
  BY <1>1, <1>2, <1>3, InvHolds, PTL DEF Spec, FeesHaveNoGap

----------------------------------------------------------------------------
(* What a fee amounts to. *)

Rates == [isPercentage : BOOLEAN, value : Nat, min : Nat, max : Nat \cup {Unlimited}]

\* What is rounded: the percentage, or the flat amount, in hundredths.
Raw(rate, gross) == IF rate.isPercentage THEN gross * rate.value ELSE 100 * rate.value

LEMMA RawFee ==
  ASSUME NEW rate \in Rates, NEW gross \in Nat
  PROVE  /\ Raw(rate, gross) \in Nat
         /\ applySchedule(rate, gross) = roundMoney(bounded(Raw(rate, gross), rate))
<1>1. rate.value \in Nat
  BY DEF Rates
<1>2. gross * rate.value \in Nat /\ 100 * rate.value \in Nat
  BY <1>1
<1>3. QED
  BY <1>2 DEF Raw, applySchedule, percentageFee

\* To the nearest, a half up.
LEMMA Rounding ==
  ASSUME NEW x \in Nat
  PROVE  /\ roundMoney(x) \in Nat
         /\ 100 * roundMoney(x) <= x + 50 /\ x + 50 < 100 * roundMoney(x) + 100
<1>1. PICK y \in Nat : y = x + 50
  OBVIOUS
<1>2. y \div 100 \in Nat /\ 100 * (y \div 100) <= y /\ y < 100 * (y \div 100) + 100
  OBVIOUS
<1>3. QED
  BY <1>1, <1>2 DEF roundMoney

\* The floor and the cap are whole amounts, so that rounding crosses neither; the
\* cap comes last.
LEMMA RoundedWithin ==
  ASSUME NEW x \in Nat, NEW rate \in Rates
  PROVE  LET fee == roundMoney(bounded(x, rate)) IN
         /\ fee \in Nat
         /\ rate.max # Unlimited => fee <= rate.max
         /\ rate.max = Unlimited \/ rate.min <= rate.max => rate.min <= fee
         /\ 100 * rate.min <= x /\ (rate.max = Unlimited \/ x <= 100 * rate.max) =>
               100 * fee <= x + 50 /\ x < 100 * fee + 50
<1> DEFINE min == rate.min
           max == rate.max
           b == bounded(x, rate)
           fee == roundMoney(b)
<1>1. min \in Nat /\ (max = Unlimited \/ max \in Nat)
  BY DEF Rates
<1>2. /\ b \in Nat
      /\ max # Unlimited => b <= 100 * max
      /\ max = Unlimited \/ min <= max => 100 * min <= b
      /\ 100 * min <= x /\ (max = Unlimited \/ x <= 100 * max) => b = x
  <2>1. b = LET raised == IF x < 100 * min THEN 100 * min ELSE x
            IN  IF max # Unlimited /\ raised > 100 * max THEN 100 * max ELSE raised
    BY DEF bounded
  <2> HIDE DEF min, max, b
  <2>2. CASE max = Unlimited
    BY <1>1, <2>1, <2>2
  <2>3. CASE max # Unlimited
    BY <1>1, <2>1, <2>3
  <2>4. QED
    BY <2>2, <2>3
<1> HIDE DEF min, max, b
<1>3. fee \in Nat /\ 100 * fee <= b + 50 /\ b + 50 < 100 * fee + 100
  BY <1>2, Rounding
<1> HIDE DEF fee
<1>4. max # Unlimited => fee <= max
  BY <1>1, <1>2, <1>3
<1>5. max = Unlimited \/ min <= max => min <= fee
  BY <1>1, <1>2, <1>3
<1>6. 100 * min <= x /\ (max = Unlimited \/ x <= 100 * max) => 100 * fee <= x + 50 /\ x < 100 * fee + 50
  BY <1>2, <1>3
<1>7. QED
  BY <1>3, <1>4, <1>5, <1>6 DEF fee, b, min, max

\* A fee never exceeds the cap of its schedule and, unless the cap itself is lower, never
\* falls short of its floor, although both are applied before the rounding
\* (fees.service.ts, percentageFee and applySchedule); between the two it is the exact
\* amount to the nearest unit.
THEOREM FeesStayWithinBounds ==
  ASSUME NEW rate \in Rates, NEW gross \in Nat
  PROVE  LET fee == applySchedule(rate, gross) IN
         /\ fee \in Nat
         /\ rate.max # Unlimited => fee <= rate.max
         /\ rate.max = Unlimited \/ rate.min <= rate.max => rate.min <= fee
         /\ /\ 100 * rate.min <= Raw(rate, gross)
            /\ rate.max = Unlimited \/ Raw(rate, gross) <= 100 * rate.max
            => 100 * fee <= Raw(rate, gross) + 50 /\ Raw(rate, gross) < 100 * fee + 50
BY RawFee, RoundedWithin

----------------------------------------------------------------------------
(* The statements. *)

PostedBefore(at) == {i \in DOMAIN posted : posted[i] < at}
PostedIn(m) == {i \in DOMAIN posted : StartOf(m) <= posted[i] /\ posted[i] < EndOf(m)}
PostedAfter(m) == {i \in DOMAIN posted : posted[i] >= EndOf(m)}

LEMMA Counts ==
  ASSUME NEW m, NEW at
  PROVE  /\ Before(at) = Cardinality(PostedBefore(at)) /\ Before(at)' = Cardinality(PostedBefore(at)')
         /\ InMonth(m) = Cardinality(PostedIn(m)) /\ InMonth(m)' = Cardinality(PostedIn(m)')
         /\ AfterMonth(m) = Cardinality(PostedAfter(m)) /\ AfterMonth(m)' = Cardinality(PostedAfter(m)')
BY DEF Before, InMonth, AfterMonth, Count, PostedBefore, PostedIn, PostedAfter

LEMMA BeforeIsNat ==
  ASSUME posted \in Seq(Int), NEW at
  PROVE  Before(at) \in Nat
<1>1. DOMAIN posted = 1 .. Len(posted) /\ Len(posted) \in Nat
  OBVIOUS
<1>2. IsFiniteSet(DOMAIN posted)
  BY <1>1, FS_Interval
<1>3. PostedBefore(at) \in SUBSET DOMAIN posted
  BY DEF PostedBefore
<1>4. Cardinality(PostedBefore(at)) \in Nat
  BY <1>2, <1>3, FS_Subset, FS_CardinalityType
<1>5. QED
  BY <1>4, Counts

LEMMA Months ==
  ASSUME NEW m \in Nat
  PROVE  StartOf(m) \in Nat /\ EndOf(m) \in Nat /\ StartOf(m) < EndOf(m)
<1>1. MonthLength \in Nat /\ MonthLength > 0
  BY PortfolioAssumption
<1>2. m * MonthLength \in Nat /\ (m + 1) * MonthLength = m * MonthLength + MonthLength
  BY <1>1
<1>3. QED
  BY <1>1, <1>2 DEF StartOf, EndOf

LEMMA TwoParts ==
  ASSUME NEW S, IsFiniteSet(S), NEW A, NEW B, A \cup B = S, A \cap B = {}
  PROVE  /\ Cardinality(A) + Cardinality(B) = Cardinality(S)
         /\ IsFiniteSet(A) /\ Cardinality(A) \in Nat /\ Cardinality(B) \in Nat
<1>1. IsFiniteSet(A) /\ IsFiniteSet(B)
  BY FS_Subset
<1>2. Cardinality(A) \in Nat /\ Cardinality(B) \in Nat /\ Cardinality(A \cap B) = 0
  BY <1>1, FS_CardinalityType, FS_EmptySet
<1>3. Cardinality(A \cup B) = Cardinality(A) + Cardinality(B) - Cardinality(A \cap B)
  BY <1>1, FS_Union
<1>4. Cardinality(A) + Cardinality(B) = Cardinality(A \cup B)
  BY <1>2, <1>3
<1>5. QED
  BY <1>1, <1>2, <1>4

\* Every posting is before, in or after a month.
LEMMA PostedAdds ==
  ASSUME posted \in Seq(Int), NEW m \in Nat
  PROVE  /\ Before(StartOf(m)) \in Nat /\ Before(EndOf(m)) \in Nat
         /\ InMonth(m) \in Nat /\ AfterMonth(m) \in Nat /\ Len(posted) \in Nat
         /\ Before(StartOf(m)) + InMonth(m) + AfterMonth(m) = Len(posted)
         /\ Before(EndOf(m)) + AfterMonth(m) = Len(posted)
<1> DEFINE early == PostedBefore(StartOf(m))
           until == PostedBefore(EndOf(m))
<1>1. StartOf(m) \in Int /\ EndOf(m) \in Int /\ StartOf(m) < EndOf(m)
  <2>1. StartOf(m) \in Nat /\ EndOf(m) \in Nat /\ StartOf(m) < EndOf(m)
    BY Months
  <2>2. QED
    BY <2>1
<1>2. DOMAIN posted = 1 .. Len(posted) /\ Len(posted) \in Nat /\ \A i \in DOMAIN posted : posted[i] \in Int
  OBVIOUS
<1>3. IsFiniteSet(DOMAIN posted) /\ Cardinality(DOMAIN posted) = Len(posted)
  BY <1>2, FS_Interval
<1>4. until \cup PostedAfter(m) = DOMAIN posted /\ until \cap PostedAfter(m) = {}
  BY <1>1, <1>2 DEF PostedBefore, PostedAfter
<1>5. early \cup PostedIn(m) = until /\ early \cap PostedIn(m) = {}
  BY <1>1, <1>2 DEF PostedBefore, PostedIn
<1> HIDE DEF early, until
<1>6. /\ Cardinality(until) + Cardinality(PostedAfter(m)) = Len(posted)
      /\ IsFiniteSet(until) /\ Cardinality(until) \in Nat /\ Cardinality(PostedAfter(m)) \in Nat
  BY <1>3, <1>4, TwoParts
<1>7. /\ Cardinality(early) + Cardinality(PostedIn(m)) = Cardinality(until)
      /\ Cardinality(early) \in Nat /\ Cardinality(PostedIn(m)) \in Nat
  BY <1>5, <1>6, TwoParts
<1>8. /\ Before(StartOf(m)) = Cardinality(early) /\ Before(EndOf(m)) = Cardinality(until)
      /\ InMonth(m) = Cardinality(PostedIn(m)) /\ AfterMonth(m) = Cardinality(PostedAfter(m))
  BY Counts DEF early, until
<1>9. QED
  BY <1>2, <1>6, <1>7, <1>8

LEMMA OneMore ==
  ASSUME NEW n \in Nat, NEW A \in SUBSET (1 .. n), NEW B, NEW p \in BOOLEAN,
         B = IF p THEN A \cup {n + 1} ELSE A
  PROVE  Cardinality(B) = Cardinality(A) + IF p THEN 1 ELSE 0
<1>0. n + 1 \notin A
  OBVIOUS
<1>1. IsFiniteSet(A)
  <2>1. IsFiniteSet(1 .. n)
    BY FS_Interval
  <2>2. QED
    BY <2>1, FS_Subset
<1>2. Cardinality(A) \in Nat /\ Cardinality(A \cup {n + 1}) = Cardinality(A) + 1
  BY <1>0, <1>1, FS_CardinalityType, FS_AddElement
<1>3. QED
  BY <1>2

LEMMA CountsAfterPosting ==
  ASSUME posted \in Seq(Int), NEW t \in Int, posted' = Append(posted, t), NEW m \in Nat, NEW at \in Int
  PROVE  /\ posted' \in Seq(Int) /\ Len(posted') = Len(posted) + 1
         /\ Before(at)' = Before(at) + IF t < at THEN 1 ELSE 0
         /\ InMonth(m)' = InMonth(m) + IF StartOf(m) <= t /\ t < EndOf(m) THEN 1 ELSE 0
         /\ AfterMonth(m)' = AfterMonth(m) + IF t >= EndOf(m) THEN 1 ELSE 0
<1> DEFINE n == Len(posted)
<1>1. /\ posted' \in Seq(Int) /\ Len(posted') = n + 1 /\ n \in Nat
      /\ DOMAIN posted = 1 .. n /\ DOMAIN posted' = 1 .. n + 1
      /\ \A i \in 1 .. n : posted'[i] = posted[i]
      /\ posted'[n + 1] = t
  OBVIOUS
<1> HIDE DEF n
<1>2. Before(at)' = Before(at) + IF t < at THEN 1 ELSE 0
  <2>1. PostedBefore(at) \in SUBSET (1 .. n)
    BY <1>1 DEF PostedBefore
  <2>2. PostedBefore(at)' = IF t < at THEN PostedBefore(at) \cup {n + 1} ELSE PostedBefore(at)
    BY <1>1 DEF PostedBefore
  <2> DEFINE p == t < at
  <2>3. p \in BOOLEAN /\ PostedBefore(at)' = IF p THEN PostedBefore(at) \cup {n + 1} ELSE PostedBefore(at)
    BY <2>2
  <2> HIDE DEF p
  <2>4. Cardinality(PostedBefore(at)') = Cardinality(PostedBefore(at)) + IF p THEN 1 ELSE 0
    BY <1>1, <2>1, <2>3, OneMore
  <2>5. QED
    BY <2>4, Counts DEF p
<1>3. InMonth(m)' = InMonth(m) + IF StartOf(m) <= t /\ t < EndOf(m) THEN 1 ELSE 0
  <2> DEFINE p == StartOf(m) <= t /\ t < EndOf(m)
  <2>1. PostedIn(m) \in SUBSET (1 .. n)
    BY <1>1 DEF PostedIn
  <2>2. PostedIn(m)' = IF p THEN PostedIn(m) \cup {n + 1} ELSE PostedIn(m)
    BY <1>1 DEF PostedIn, StartOf, EndOf
  <2>3. p \in BOOLEAN
    OBVIOUS
  <2> HIDE DEF p
  <2>4. Cardinality(PostedIn(m)') = Cardinality(PostedIn(m)) + IF p THEN 1 ELSE 0
    BY <1>1, <2>1, <2>2, <2>3, OneMore
  <2>5. QED
    BY <2>4, Counts DEF p
<1>4. AfterMonth(m)' = AfterMonth(m) + IF t >= EndOf(m) THEN 1 ELSE 0
  <2>1. PostedAfter(m) \in SUBSET (1 .. n)
    BY <1>1 DEF PostedAfter
  <2>2. PostedAfter(m)' = IF t >= EndOf(m) THEN PostedAfter(m) \cup {n + 1} ELSE PostedAfter(m)
    BY <1>1 DEF PostedAfter, EndOf
  <2> DEFINE p == t >= EndOf(m)
  <2>3. p \in BOOLEAN /\ PostedAfter(m)' = IF p THEN PostedAfter(m) \cup {n + 1} ELSE PostedAfter(m)
    BY <2>2
  <2> HIDE DEF p
  <2>4. Cardinality(PostedAfter(m)') = Cardinality(PostedAfter(m)) + IF p THEN 1 ELSE 0
    BY <1>1, <2>1, <2>3, OneMore
  <2>5. QED
    BY <2>4, Counts DEF p
<1>5. QED
  BY <1>1, <1>2, <1>3, <1>4 DEF n

LEMMA FlyingIsFinite ==
  ASSUME NEW at
  PROVE  /\ IsFiniteSet(Flying(at)) /\ InFlight(at) = Cardinality(Flying(at)) /\ InFlight(at) \in Nat
         /\ InFlight(at)' = Cardinality(Flying(at)') /\ InFlight(at)' \in Nat
<1>1. Flying(at) \subseteq Handlers /\ Flying(at)' \subseteq Handlers /\ IsFiniteSet(Handlers)
  BY PortfolioAssumption DEF Flying
<1>2. InFlight(at) = Cardinality(Flying(at)) /\ InFlight(at)' = Cardinality(Flying(at)')
  BY DEF InFlight, Flying
<1>3. /\ IsFiniteSet(Flying(at)) /\ Cardinality(Flying(at)) \in Nat
      /\ IsFiniteSet(Flying(at)') /\ Cardinality(Flying(at)') \in Nat
  BY <1>1, FS_Subset, FS_CardinalityType
<1>4. QED
  BY <1>2, <1>3

\* Of what was dated before an instant that is past, a posting in flight commits or
\* does not, and no other starts.
Appends == UNCHANGED posted \/ \E t \in Int : posted' = Append(posted, t)
BooksMove ==
    \/ /\ UNCHANGED posted
       /\ \A at \in Int : at <= now => Flying(at)' \subseteq Flying(at)
    \/ \E h \in Handlers :
          /\ task[h].op = "posting" /\ task[h].id \in Int
          /\ posted' = Append(posted, task[h].id)
          /\ \A at \in Int : Flying(at)' = Flying(at) \ {h}

LEMMA CoversLasts ==
  ASSUME posted \in Seq(Int), BooksMove, now \in Int, NEW at \in Int, at <= now,
         NEW balance \in Int, NEW late \in Nat, NEW unseen \in Nat, Covers(balance, late, unseen, at)
  PROVE  Covers(balance, late, unseen, at)'
<1> DEFINE n == Before(at)
           f == InFlight(at)
<1>1. n \in Nat /\ f \in Nat /\ f = Cardinality(Flying(at)) /\ IsFiniteSet(Flying(at))
  BY BeforeIsNat, FlyingIsFinite
<1>2. balance <= n + late /\ n + f <= balance + unseen
  BY DEF Covers
<1>3. CASE /\ UNCHANGED posted
           /\ \A a \in Int : a <= now => Flying(a)' \subseteq Flying(a)
  <2>1. Before(at)' = n
    BY <1>3 DEF Before, Count
  <2>2. InFlight(at)' \in Nat /\ InFlight(at)' <= f
    <3>1. Flying(at)' \subseteq Flying(at)
      BY <1>3
    <3>2. Cardinality(Flying(at)') <= Cardinality(Flying(at))
      BY <1>1, <3>1, FS_Subset
    <3>3. QED
      BY <1>1, <3>2, FlyingIsFinite
  <2> HIDE DEF n, f
  <2>3. balance <= n + late /\ n + InFlight(at)' <= balance + unseen
    BY <1>1, <1>2, <2>2
  <2>4. QED
    BY <2>1, <2>3 DEF Covers
<1>4. ASSUME NEW h \in Handlers, task[h].op = "posting", task[h].id \in Int,
             posted' = Append(posted, task[h].id),
             \A a \in Int : Flying(a)' = Flying(a) \ {h}
      PROVE  Covers(balance, late, unseen, at)'
  <2>1. PICK t \in Int : t = task[h].id
    BY <1>4
  <2>2. Before(at)' = n + IF t < at THEN 1 ELSE 0
    <3>1. posted' = Append(posted, t)
      BY <1>4, <2>1
    <3>2. PICK k \in Nat : k = 0
      OBVIOUS
    <3>3. QED
      BY <2>1, <3>1, <3>2, CountsAfterPosting
  <2>3. Flying(at)' = Flying(at) \ {h} /\ (h \in Flying(at) <=> t < at)
    BY <1>4, <2>1 DEF Flying
  <2>4. InFlight(at)' = f - IF t < at THEN 1 ELSE 0
    <3>1. CASE t < at
      <4>1. Cardinality(Flying(at) \ {h}) = Cardinality(Flying(at)) - 1
        BY <1>1, <2>3, <3>1, FS_RemoveElement
      <4>2. QED
        BY <1>1, <2>3, <3>1, <4>1, FlyingIsFinite
    <3>2. CASE ~(t < at)
      <4>1. Flying(at)' = Flying(at)
        BY <2>3, <3>2
      <4>2. QED
        BY <1>1, <3>2, <4>1, FlyingIsFinite
    <3>3. QED
      BY <3>1, <3>2
  <2> HIDE DEF n, f
  <2>5. PICK one \in 0 .. 1 : one = IF t < at THEN 1 ELSE 0
    OBVIOUS
  <2>6. Before(at)' = n + one /\ InFlight(at)' = f - one
    BY <2>2, <2>4, <2>5
  <2>7. balance <= n + one + late /\ (n + one) + (f - one) <= balance + unseen
    BY <1>1, <1>2, <2>5
  <2>8. QED
    BY <2>6, <2>7 DEF Covers
<1>5. QED
  BY <1>3, <1>4 DEF BooksMove

\* A statement given out stays as exact as its month, or what came before it, is over.
LEMMA GivenLasts ==
  ASSUME posted \in Seq(Int), OnTheClock, BooksMove, NEW s, Given(s), Says(s)
  PROVE  Given(s)' /\ Says(s)'
<1>1. PICK m \in Nat : m = s.month
  BY DEF Given
<1>2. now \in Int
  BY DEF OnTheClock
<1>3. PICK from \in Int, until \in Int : from = StartOf(m) /\ until = EndOf(m)
  <2>1. StartOf(m) \in Nat /\ EndOf(m) \in Nat
    BY Months
  <2>2. QED
    BY <2>1
<1>4. from <= now /\ (s.over => until <= now)
  BY <1>1, <1>3 DEF Given
<1>5. from = StartOf(m)' /\ until = EndOf(m)'
  BY <1>3 DEF StartOf, EndOf
<1>6. Given(s)'
  <2>1. from <= now' /\ (s.over => until <= now')
    BY <1>3, <1>4 DEF OnTheClock
  <2>2. QED
    BY <1>1, <1>5, <2>1 DEF Given
<1>7. /\ s.opening \in Int /\ s.closing \in Int /\ s.late \in Nat
      /\ s.unseen.opening \in Nat /\ s.unseen.closing \in Nat
  BY DEF Given
<1>8. Covers(s.opening, s.late, s.unseen.opening, from)'
  <2>1. Covers(s.opening, s.late, s.unseen.opening, from)
    BY <1>1, <1>3 DEF Says
  <2>2. QED
    BY <1>2, <1>4, <1>7, <2>1, CoversLasts
<1>9. s.over => Covers(s.closing, s.late, s.unseen.closing, until)'
  <2>1. s.over => Covers(s.closing, s.late, s.unseen.closing, until)
    BY <1>1, <1>3 DEF Says
  <2>2. QED
    BY <1>2, <1>4, <1>7, <2>1, CoversLasts
<1>10. QED
  BY <1>1, <1>5, <1>6, <1>8, <1>9 DEF Says

\* It stays so while the three counts grow together.
LEMMA LagsStill ==
  ASSUME NEW pending, NEW read, read.known \in Nat, read.movements \in Nat, read.after \in Nat,
         NEW i \in Nat, NEW a \in Nat, NEW l \in Nat, NEW x \in Nat, NEW y \in Nat, NEW n \in Nat,
         Lags(pending, read, i, a, l), x + y <= n
  PROVE  Lags(pending, read, i + x, a + y, l + n)
<1> DEFINE k == read.known
           p == read.movements
           q == read.after
<1>1. k \in Nat /\ p \in Nat /\ q \in Nat /\ k <= l
  BY DEF Lags
<1>2. CASE "entries" \in pending /\ "after" \in pending
  BY <1>1, <1>2 DEF Lags
<1>3. CASE "entries" \in pending /\ "after" \notin pending
  <2>1. q <= a /\ a - q <= l - k
    BY <1>1, <1>3 DEF Lags
  <2> HIDE DEF k, q
  <2>2. k <= l + n /\ q <= a + y /\ 0 + (a + y - q) <= l + n - k
    BY <1>1, <2>1
  <2>3. QED
    BY <1>1, <1>3, <2>2 DEF Lags, k, q
<1>4. CASE "entries" \notin pending /\ "after" \in pending
  <2>1. p <= i /\ i - p <= l - k
    BY <1>1, <1>4 DEF Lags
  <2> HIDE DEF k, p
  <2>2. k <= l + n /\ p <= i + x /\ i + x - p + 0 <= l + n - k
    BY <1>1, <2>1
  <2>3. QED
    BY <1>1, <1>4, <2>2 DEF Lags, k, p
<1>5. CASE "entries" \notin pending /\ "after" \notin pending
  <2>1. p <= i /\ q <= a /\ i - p + (a - q) <= l - k
    BY <1>1, <1>5 DEF Lags
  <2> HIDE DEF k, p, q
  <2>2. k <= l + n /\ p <= i + x /\ q <= a + y /\ i + x - p + (a + y - q) <= l + n - k
    BY <1>1, <2>1
  <2>3. QED
    BY <1>1, <1>5, <2>2 DEF Lags, k, p, q
<1>6. QED
  BY <1>2, <1>3, <1>4, <1>5

\* What a statement under way has missed, it misses still.
LEMMA MissedLasts ==
  ASSUME posted \in Seq(Int), reading \in [Handlers -> Reading], OnTheClock,
         Appends, NEW g \in Handlers, NEW m, Missed(g, m), reading'[g] = reading[g]
  PROVE  Missed(g, m)'
<1>1. /\ m \in Nat /\ StartOf(m) <= now /\ reading[g].known <= Len(posted)
      /\ "entries" \notin reading[g].queries => reading[g].movements <= InMonth(m)
      /\ "after" \notin reading[g].queries => reading[g].after <= AfterMonth(m)
      /\ (IF "entries" \in reading[g].queries THEN 0 ELSE InMonth(m) - reading[g].movements)
            + (IF "after" \in reading[g].queries THEN 0 ELSE AfterMonth(m) - reading[g].after)
            <= Len(posted) - reading[g].known
  BY DEF Missed, Lags
<1>2. /\ reading[g].movements \in Nat /\ reading[g].after \in Nat /\ reading[g].known \in Nat
      /\ InMonth(m) \in Nat /\ AfterMonth(m) \in Nat /\ Len(posted) \in Nat
  BY <1>1, PostedAdds DEF Reading
<1>3. StartOf(m) \in Int /\ EndOf(m) \in Int /\ now \in Int
  <2>1. StartOf(m) \in Nat /\ EndOf(m) \in Nat
    BY <1>1, Months
  <2>2. QED
    BY <2>1 DEF OnTheClock
<1>4. StartOf(m) <= now'
  BY <1>1, <1>3 DEF OnTheClock
<1>5. PICK x \in Nat, y \in Nat, n \in Nat :
         /\ x + y <= n
         /\ InMonth(m)' = InMonth(m) + x /\ AfterMonth(m)' = AfterMonth(m) + y
         /\ Len(posted') = Len(posted) + n
  <2>1. CASE UNCHANGED posted
    <3>1. /\ InMonth(m)' = InMonth(m) + 0 /\ AfterMonth(m)' = AfterMonth(m) + 0
          /\ Len(posted') = Len(posted) + 0
      <4>1. InMonth(m)' = InMonth(m) /\ AfterMonth(m)' = AfterMonth(m) /\ Len(posted') = Len(posted)
        BY <2>1 DEF InMonth, AfterMonth, Count, StartOf, EndOf
      <4>2. QED
        BY <1>2, <4>1
    <3>2. 0 \in Nat /\ 0 + 0 <= 0
      OBVIOUS
    <3>3. QED
      BY <3>1, <3>2
  <2>2. ASSUME NEW t \in Int, posted' = Append(posted, t)
        PROVE  \E x \in Nat, y \in Nat, n \in Nat :
                  /\ x + y <= n
                  /\ InMonth(m)' = InMonth(m) + x /\ AfterMonth(m)' = AfterMonth(m) + y
                  /\ Len(posted') = Len(posted) + n
    <3>1. /\ InMonth(m)' = InMonth(m) + IF StartOf(m) <= t /\ t < EndOf(m) THEN 1 ELSE 0
          /\ AfterMonth(m)' = AfterMonth(m) + IF t >= EndOf(m) THEN 1 ELSE 0
          /\ Len(posted') = Len(posted) + 1
      BY <1>1, <1>3, <2>2, CountsAfterPosting
    <3>2. PICK x \in Nat, y \in Nat :
             /\ x = IF StartOf(m) <= t /\ t < EndOf(m) THEN 1 ELSE 0
             /\ y = IF t >= EndOf(m) THEN 1 ELSE 0
      OBVIOUS
    <3>3. x + y <= 1
      BY <1>3, <3>2
    <3>4. QED
      BY <3>1, <3>2, <3>3
  <2>3. QED
    BY <2>1, <2>2 DEF Appends
<1>6. Lags(reading[g].queries, reading[g], InMonth(m)', AfterMonth(m)', Len(posted'))
  <2>1. Lags(reading[g].queries, reading[g], InMonth(m), AfterMonth(m), Len(posted))
    BY <1>1, Zenon DEF Lags
  <2>2. Lags(reading[g].queries, reading[g], InMonth(m) + x, AfterMonth(m) + y, Len(posted) + n)
    <3>1. x + y <= n
      BY <1>5
    <3>2. QED
      BY <1>2, <2>1, <3>1, LagsStill, Zenon
  <2>3. QED
    BY <1>5, <2>2, Zenon
<1>7. StartOf(m)' = StartOf(m)
  BY DEF StartOf
<1>8. reading'[g].queries = reading[g].queries /\ StartOf(m)' <= now'
  BY <1>4, <1>7
<1>9. QED
  BY <1>1, <1>6, <1>8, Zenon DEF Missed, Lags

LEMMA ReadingLasts ==
  ASSUME posted \in Seq(Int), reading \in [Handlers -> Reading], OnTheClock,
         Appends, NEW g \in Handlers, HoldsReading(g), reading'[g] = reading[g],
         \/ task'[g] = task[g]
         \/ task[g].op \notin ReportOps /\ task'[g].op \notin ReportOps
  PROVE  HoldsReading(g)'
<1>1. CASE task'[g] = task[g] /\ task[g].op = "statement"
  <2>1. PICK m : m = task[g].id
    OBVIOUS
  <2>2. Missed(g, m)
    BY <1>1, <2>1 DEF HoldsReading
  <2>3. Missed(g, m)'
    BY <2>2, MissedLasts
  <2>4. QED
    BY <1>1, <2>1, <2>3 DEF HoldsReading
<1>2. CASE task[g].op # "statement" /\ task'[g].op # "statement"
  BY <1>2 DEF HoldsReading, ReportOps
<1>3. QED
  BY <1>1, <1>2 DEF ReportOps

LEMMA StatementsLast ==
  ASSUME ReportsInv, OnTheClock, BooksMove, UNCHANGED statements
  PROVE  \A s \in statements' : Given(s)' /\ Says(s)'
<1>1. posted \in Seq(Int) /\ \A s \in statements : Given(s) /\ Says(s)
  BY DEF ReportsInv
<1>2. \A s \in statements : Given(s)' /\ Says(s)'
  BY <1>1, GivenLasts
<1>3. QED
  BY <1>2

\* A handler that is not posting any more, or never was.
LEMMA FlyingShrinks ==
  ASSUME UNCHANGED posted,
         \A g \in Handlers : task'[g] = task[g] \/ task'[g].op # "posting"
  PROVE  BooksMove
BY DEF BooksMove, Flying

LEMMA SameReports ==
  ASSUME ReportsInv, OnTheClock, UNCHANGED portfolioVars,
         \A g \in Handlers : \/ task'[g] = task[g]
                             \/ task[g].op \notin ReportOps /\ task'[g].op \notin ReportOps
  PROVE  ReportsInv'
<1>1. /\ posted \in Seq(Int) /\ reading \in [Handlers -> Reading]
      /\ \A g \in Handlers : HoldsReading(g)
      /\ UNCHANGED <<posted, reading, statements>> /\ Reading' = Reading
  BY DEF ReportsInv, Reading, portfolioVars
<1>2. \A g \in Handlers : HoldsReading(g)'
  BY <1>1, ReadingLasts DEF Appends
<1>3. BooksMove
  BY <1>1, FlyingShrinks DEF ReportOps
<1>4. \A s \in statements' : Given(s)' /\ Says(s)'
  BY <1>1, <1>3, StatementsLast
<1>5. QED
  BY <1>1, <1>2, <1>4 DEF ReportsInv

\* A posting is inserted, commits or rolls back.
LEMMA Postings ==
  ASSUME TaskTypes, ReportsInv, OnTheClock, NEW h \in Handlers,
         InsertPosting(h) \/ CommitPosting(h) \/ RollBackPosting(h)
  PROVE  ReportsInv'
<1>1. /\ posted \in Seq(Int) /\ reading \in [Handlers -> Reading] /\ now \in Int
      /\ \A g \in Handlers : HoldsReading(g)
      /\ Reading' = Reading /\ UNCHANGED <<reading, statements>>
  <2>1. UNCHANGED <<reading, statements>>
    BY DEF InsertPosting, CommitPosting, RollBackPosting, portfolioVars
  <2>2. now \in Int
    BY DEF OnTheClock
  <2>3. QED
    BY <2>1, <2>2 DEF ReportsInv, Reading
<1>2. Idle.op = "idle"
  BY DEF Idle
<1>3. CASE InsertPosting(h)
  <2>1. /\ Start(h, "posting", now, Nobody, "", 0) /\ UNCHANGED posted
    BY <1>3 DEF InsertPosting, portfolioVars
  <2>2. Moves(h, {"posting"}) /\ task'[h].id = now /\ task[h].op = "idle"
    BY <2>1, StartMoves, WasIdle
  <2>3. HoldsReading(h)'
    BY <1>1, <2>2 DEF HoldsReading, Moves
  <2>4. \A g \in Handlers \ {h} : HoldsReading(g)'
    BY <1>1, <2>1, <2>2, ReadingLasts DEF Appends, Moves
  <2>5. ASSUME NEW at \in Int, at <= now PROVE Flying(at)' \subseteq Flying(at)
    <3>1. ~(now < at)
      BY <1>1, <2>5
    <3>2. QED
      BY <2>2, <3>1 DEF Flying, Moves
  <2>6. BooksMove
    BY <2>1, <2>5 DEF BooksMove
  <2>7. \A s \in statements' : Given(s)' /\ Says(s)'
    BY <1>1, <2>6, StatementsLast
  <2>8. QED
    BY <1>1, <2>1, <2>3, <2>4, <2>7 DEF ReportsInv
<1>4. CASE CommitPosting(h)
  <2>1. task[h].op = "posting" /\ posted' = Append(posted, task[h].id) /\ Done(h)
    BY <1>4 DEF CommitPosting
  <2>2. PICK t \in Int : t = task[h].id
    BY <1>1, <2>1 DEF HoldsReading
  <2>3. Moves(h, {"idle"})
    BY <2>1, DoneMoves
  <2>4. HoldsReading(h)'
    BY <1>1, <2>1, <2>3 DEF HoldsReading, Moves
  <2>5. posted' \in Seq(Int) /\ Appends
    BY <1>1, <2>1, <2>2 DEF Appends
  <2>6. \A g \in Handlers \ {h} : HoldsReading(g)'
    BY <1>1, <2>3, <2>5, ReadingLasts DEF Moves
  <2>7. \A at \in Int : Flying(at)' = Flying(at) \ {h}
    BY <2>3 DEF Flying, Moves
  <2>8. BooksMove
    BY <2>1, <2>2, <2>7 DEF BooksMove
  <2>9. \A s \in statements' : Given(s)' /\ Says(s)'
    BY <1>1, <2>8, StatementsLast
  <2>10. QED
    BY <1>1, <2>4, <2>5, <2>6, <2>9 DEF ReportsInv
<1>5. CASE RollBackPosting(h)
  <2>1. task[h].op = "posting" /\ UNCHANGED posted /\ Done(h)
    BY <1>5 DEF RollBackPosting, portfolioVars
  <2>2. Moves(h, {"idle"})
    BY <2>1, DoneMoves
  <2>3. HoldsReading(h)'
    BY <1>1, <2>1, <2>2 DEF HoldsReading, Moves
  <2>4. \A g \in Handlers \ {h} : HoldsReading(g)'
    BY <1>1, <2>1, <2>2, ReadingLasts DEF Appends, Moves
  <2>5. BooksMove
    BY <2>1, <2>2, FlyingShrinks DEF Moves
  <2>6. \A s \in statements' : Given(s)' /\ Says(s)'
    BY <1>1, <2>5, StatementsLast
  <2>7. QED
    BY <1>1, <2>1, <2>3, <2>4, <2>6 DEF ReportsInv
<1>6. QED
  BY <1>3, <1>4, <1>5

\* One handler goes on with its statement.
LEMMA StepReports ==
  ASSUME ReportsInv, OnTheClock, NEW h \in Handlers, NEW r \in Reading, reading' = [reading EXCEPT ![h] = r],
         UNCHANGED posted, \A g \in Handlers \ {h} : task'[g] = task[g], HoldsReading(h)',
         \A s \in statements' : Given(s)' /\ Says(s)'
  PROVE  ReportsInv'
<1>1. /\ posted \in Seq(Int) /\ reading \in [Handlers -> Reading]
      /\ \A g \in Handlers : HoldsReading(g)
  BY DEF ReportsInv
<1>2. reading' \in [Handlers -> Reading] /\ \A g \in Handlers \ {h} : reading'[g] = reading[g]
  BY <1>1
<1>3. \A g \in Handlers \ {h} : HoldsReading(g)'
  BY <1>1, <1>2, ReadingLasts DEF Appends
<1>4. Reading' = Reading
  BY DEF Reading
<1>5. QED
  BY <1>1, <1>2, <1>3, <1>4 DEF ReportsInv

LEMMA Starting ==
  ASSUME TaskTypes, ReportsInv, OnTheClock, NEW h \in Handlers, NEW m \in 0 .. MaxTime, StartStatement(h, m)
  PROVE  ReportsInv'
<1> DEFINE r == [NoReading EXCEPT !.queries = {"entries", "after"}, !.known = Len(posted)]
<1>1. /\ StartOf(m) <= now /\ reading' = [reading EXCEPT ![h] = r]
      /\ Start(h, "statement", m, Nobody, "", 0)
      /\ UNCHANGED <<posted, statements, now>>
  BY DEF StartStatement, settingsVars
<1>2. posted \in Seq(Int) /\ reading \in [Handlers -> Reading] /\ Len(posted) \in Nat /\ m \in Nat
  BY DEF ReportsInv
<1>3. NoReading \in Reading
  BY DEF NoReading, Reading
<1>4. r \in Reading /\ r.queries = {"entries", "after"} /\ r.known = Len(posted)
  BY <1>2, <1>3 DEF Reading
<1> HIDE DEF r
<1>5. Moves(h, {"statement"}) /\ task'[h].id = m
  BY <1>1, StartMoves
<1>6. reading'[h] = r
  BY <1>1, <1>2
<1>7. StartOf(m)' = StartOf(m)
  BY DEF StartOf
<1>8. Missed(h, m)'
  <2>1. /\ m \in Nat /\ StartOf(m) <= now' /\ r.known <= Len(posted')
        /\ "entries" \in r.queries /\ "after" \in r.queries /\ 0 + 0 <= Len(posted') - r.known
    <3>1. m \in Nat /\ StartOf(m) <= now' /\ "entries" \in r.queries /\ "after" \in r.queries
      BY <1>1, <1>2, <1>4
    <3>2. r.known = Len(posted) /\ Len(posted') = Len(posted)
      BY <1>1, <1>4
    <3>3. r.known <= Len(posted') /\ 0 + 0 <= Len(posted') - r.known
      BY <1>2, <3>2
    <3>4. QED
      BY <3>1, <3>3
  <2>2. QED
    BY <1>6, <1>7, <2>1 DEF Missed, Lags
<1>9. HoldsReading(h)'
  BY <1>5, <1>8 DEF HoldsReading, Moves
<1>10. BooksMove
  BY <1>1, <1>5, FlyingShrinks DEF Moves
<1>11. \A s \in statements' : Given(s)' /\ Says(s)'
  BY <1>1, <1>10, StatementsLast
<1>12. QED
  BY <1>1, <1>4, <1>5, <1>9, <1>11, StepReports DEF Moves

LEMMA Reads ==
  ASSUME ReportsInv, OnTheClock, NEW h \in Handlers, ReadEntries(h) \/ ReadAfter(h)
  PROVE  ReportsInv'
<1>1. /\ UNCHANGED <<task, posted, statements, now>> /\ reading[h].queries # {}
      /\ posted \in Seq(Int) /\ reading \in [Handlers -> Reading] /\ HoldsReading(h)
  BY DEF ReportsInv, ReadEntries, ReadAfter, approvalVars, settingsVars
<1>2. PICK m : m = task[h].id
  OBVIOUS
<1>3. task[h].op = "statement" /\ Missed(h, m)
  BY <1>1, <1>2 DEF HoldsReading
<1>4. m \in Nat /\ StartOf(m)' = StartOf(m) /\ StartOf(m) <= now
  BY <1>3 DEF Missed, Lags, StartOf
<1>5. /\ InMonth(m) \in Nat /\ AfterMonth(m) \in Nat /\ Len(posted) \in Nat
      /\ InMonth(m)' = InMonth(m) /\ AfterMonth(m)' = AfterMonth(m)
  <2>1. InMonth(m)' = InMonth(m) /\ AfterMonth(m)' = AfterMonth(m)
    BY <1>1 DEF InMonth, AfterMonth, Count, StartOf, EndOf
  <2>2. QED
    BY <1>1, <1>4, <2>1, PostedAdds
<1>6. /\ reading[h].queries \in SUBSET {"entries", "after"} /\ reading[h].movements \in Nat
      /\ reading[h].after \in Nat /\ reading[h].known \in Nat
  BY <1>1 DEF Reading
<1>7. PICK r \in Reading : /\ reading' = [reading EXCEPT ![h] = r] /\ r.known = reading[h].known
                           /\ \/ /\ "entries" \in reading[h].queries
                                 /\ r.queries = reading[h].queries \ {"entries"}
                                 /\ r.movements = InMonth(m) /\ r.after = reading[h].after
                              \/ /\ "after" \in reading[h].queries
                                 /\ r.queries = reading[h].queries \ {"after"}
                                 /\ r.after = AfterMonth(m) /\ r.movements = reading[h].movements
  <2>1. CASE ReadEntries(h)
    <3> DEFINE r == [reading[h] EXCEPT !.queries = @ \ {"entries"}, !.movements = InMonth(m)]
    <3>1. reading' = [reading EXCEPT ![h] = r] /\ "entries" \in reading[h].queries
      BY <1>1, <1>2, <2>1 DEF ReadEntries
    <3>2. /\ r \in Reading /\ r.known = reading[h].known /\ r.queries = reading[h].queries \ {"entries"}
          /\ r.movements = InMonth(m) /\ r.after = reading[h].after
      BY <1>1, <1>5 DEF Reading
    <3> HIDE DEF r
    <3>3. QED
      BY <3>1, <3>2
  <2>2. CASE ReadAfter(h)
    <3> DEFINE r == [reading[h] EXCEPT !.queries = @ \ {"after"}, !.after = AfterMonth(m)]
    <3>1. reading' = [reading EXCEPT ![h] = r] /\ "after" \in reading[h].queries
      BY <1>1, <1>2, <2>2 DEF ReadAfter
    <3>2. /\ r \in Reading /\ r.known = reading[h].known /\ r.queries = reading[h].queries \ {"after"}
          /\ r.after = AfterMonth(m) /\ r.movements = reading[h].movements
      BY <1>1, <1>5 DEF Reading
    <3> HIDE DEF r
    <3>3. QED
      BY <3>1, <3>2
  <2>3. QED
    BY <2>1, <2>2
<1>8. reading'[h] = r
  BY <1>1, <1>7
<1>9. Missed(h, m)'
  <2>1. /\ reading[h].known <= Len(posted)
        /\ "entries" \notin reading[h].queries => reading[h].movements <= InMonth(m)
        /\ "after" \notin reading[h].queries => reading[h].after <= AfterMonth(m)
        /\ (IF "entries" \in reading[h].queries THEN 0 ELSE InMonth(m) - reading[h].movements)
              + (IF "after" \in reading[h].queries THEN 0 ELSE AfterMonth(m) - reading[h].after)
              <= Len(posted) - reading[h].known
    BY <1>3 DEF Missed, Lags
  <2>2. /\ r.known <= Len(posted)
        /\ "entries" \notin r.queries => r.movements <= InMonth(m)
        /\ "after" \notin r.queries => r.after <= AfterMonth(m)
        /\ (IF "entries" \in r.queries THEN 0 ELSE InMonth(m) - r.movements)
              + (IF "after" \in r.queries THEN 0 ELSE AfterMonth(m) - r.after)
              <= Len(posted) - r.known
    BY <1>5, <1>6, <1>7, <2>1
  <2>3. QED
    BY <1>1, <1>4, <1>5, <1>8, <2>2 DEF Missed, Lags
<1>10. HoldsReading(h)'
  BY <1>1, <1>2, <1>3, <1>9 DEF HoldsReading
<1>11. BooksMove
  BY <1>1, FlyingShrinks
<1>12. \A s \in statements' : Given(s)' /\ Says(s)'
  BY <1>1, <1>11, StatementsLast
<1>13. QED
  BY <1>1, <1>7, <1>10, <1>12, StepReports

\* What a statement says, from what it has read.
LEMMA Giving ==
  ASSUME TaskTypes, ReportsInv, OnTheClock, NEW h \in Handlers, ReadBalances(h)
  PROVE  ReportsInv'
<1>1. /\ task[h].op = "statement" /\ reading[h].queries = {}
      /\ reading' = [reading EXCEPT ![h] = NoReading] /\ Done(h) /\ UNCHANGED <<posted, now>>
      /\ posted \in Seq(Int) /\ reading \in [Handlers -> Reading] /\ HoldsReading(h)
  BY DEF ReportsInv, ReadBalances, settingsVars
<1>2. PICK m : m = task[h].id
  OBVIOUS
<1>3. Missed(h, m) /\ m \in Nat
  BY <1>1, <1>2 DEF HoldsReading, Missed, Lags
<1>4. PICK l \in Nat, i \in Nat, a \in Nat, p \in Nat, q \in Nat, k \in Nat, b \in Nat, e \in Nat :
         /\ l = Len(posted) /\ i = InMonth(m) /\ a = AfterMonth(m)
         /\ p = reading[h].movements /\ q = reading[h].after /\ k = reading[h].known
         /\ b = Before(StartOf(m)) /\ e = Before(EndOf(m))
         /\ b + i + a = l /\ e + a = l
  <2>1. /\ Before(StartOf(m)) \in Nat /\ Before(EndOf(m)) \in Nat
        /\ InMonth(m) \in Nat /\ AfterMonth(m) \in Nat /\ Len(posted) \in Nat
        /\ Before(StartOf(m)) + InMonth(m) + AfterMonth(m) = Len(posted)
        /\ Before(EndOf(m)) + AfterMonth(m) = Len(posted)
    BY <1>1, <1>3, PostedAdds
  <2>2. reading[h].movements \in Nat /\ reading[h].after \in Nat /\ reading[h].known \in Nat
    BY <1>1 DEF Reading
  <2>3. QED
    BY <2>1, <2>2
<1>5. p <= i /\ q <= a /\ i - p + (a - q) <= l - k /\ k <= l /\ StartOf(m) <= now
  BY <1>1, <1>3, <1>4 DEF Missed, Lags
<1>6. PICK over \in BOOLEAN : over = (EndOf(m) <= now)
  <2>1. (EndOf(m) <= now) \in BOOLEAN
    BY <1>3, Months DEF OnTheClock
  <2>2. QED
    BY <2>1, Zenon
<1>7. PICK from \in Int, until \in Int : from = StartOf(m) /\ until = EndOf(m)
  <2>1. StartOf(m) \in Nat /\ EndOf(m) \in Nat
    BY <1>3, Months
  <2>2. QED
    BY <2>1
<1>8. PICK u \in Nat, v \in Nat : u = InFlight(from) /\ v = InFlight(until)
  BY FlyingIsFinite
<1>9. PICK s : s = [month |-> m, opening |-> l - q - p, closing |-> l - q, over |-> over, late |-> l - k,
                    unseen |-> [opening |-> u, closing |-> v]]
  OBVIOUS
<1>10. /\ statements' = statements \cup {s}
       /\ s.month = m /\ s.opening = l - q - p /\ s.closing = l - q /\ s.over = over /\ s.late = l - k
       /\ s.unseen.opening = u /\ s.unseen.closing = v
  BY <1>2, <1>4, <1>6, <1>7, <1>8, <1>9 DEF ReadBalances
<1>11. from = StartOf(m)' /\ until = EndOf(m)'
  BY <1>7 DEF StartOf, EndOf
<1>12. Given(s)'
  <2>1. s.opening \in Int /\ s.closing \in Int /\ s.late \in Nat
    BY <1>5, <1>10
  <2>2. s.month \in Nat /\ s.over \in BOOLEAN
    BY <1>3, <1>6, <1>10
  <2>3. from <= now' /\ (over => until <= now')
    BY <1>1, <1>5, <1>6, <1>7
  <2>4. QED
    BY <1>8, <1>10, <1>11, <2>1, <2>2, <2>3 DEF Given
<1>13. Moves(h, {"idle"})
  BY <1>1, DoneMoves
<1>14. b = Before(from)' /\ e = Before(until)'
  BY <1>1, <1>4, <1>7 DEF Before, Count
<1>15. /\ InFlight(from)' \in Nat /\ InFlight(from)' <= u
       /\ InFlight(until)' \in Nat /\ InFlight(until)' <= v
  <2>1. \A at : Flying(at)' \subseteq Flying(at)
    BY <1>13 DEF Flying, Moves
  <2>2. \A at : InFlight(at)' \in Nat /\ InFlight(at)' <= InFlight(at)
    BY <2>1, FlyingIsFinite, FS_Subset
  <2>3. QED
    BY <1>8, <2>2
<1>16. Says(s)'
  <2>1. b + i + a = l /\ e + a = l
    BY <1>4
  <2>2. p <= i /\ q <= a /\ i - p + (a - q) <= l - k
    BY <1>5
  <2>3. l - q - p <= b + (l - k) /\ b <= l - q - p
    BY <2>1, <2>2
  <2>4. l - q <= e + (l - k) /\ e <= l - q
    BY <2>1, <2>2
  <2>5. Covers(l - q - p, l - k, u, from)'
    <3>1. b + InFlight(from)' <= l - q - p + u
      BY <1>15, <2>3
    <3>2. QED
      BY <1>14, <2>3, <3>1 DEF Covers
  <2>6. Covers(l - q, l - k, v, until)'
    <3>1. e + InFlight(until)' <= l - q + v
      BY <1>15, <2>4
    <3>2. QED
      BY <1>14, <2>4, <3>1 DEF Covers
  <2>7. QED
    BY <1>10, <1>11, <2>5, <2>6 DEF Says
<1>17. BooksMove
  BY <1>1, <1>13, FlyingShrinks DEF Moves
<1>18. \A t \in statements : Given(t)' /\ Says(t)'
  BY <1>1, <1>17, GivenLasts DEF ReportsInv
<1>19. \A t \in statements' : Given(t)' /\ Says(t)'
  BY <1>10, <1>12, <1>16, <1>18
<1>20. NoReading \in Reading /\ NoReading.queries = {}
  BY DEF NoReading, Reading
<1>21. HoldsReading(h)'
  BY <1>1, <1>13, <1>20 DEF HoldsReading, Moves
<1>22. QED
  BY <1>1, <1>13, <1>19, <1>20, <1>21, StepReports DEF Moves

LEMMA ReportsKeep ==
  ASSUME Inv, SettingsInv, ReportsInv, [Next]_vars
  PROVE  ReportsInv'
<1>1. TaskTypes /\ OnTheClock
  BY ClockGoesOn DEF Inv, Types, OnTheClock
<1>2. ASSUME NEW h \in Handlers, Serve(h) PROVE ReportsInv'
  <2>1. CASE PortfolioStep(h)
    BY <1>1, <2>1, Postings, Starting, Reads, Giving DEF PortfolioStep
  <2>2. CASE ~PortfolioStep(h)
    <3>1. \E ops : Avoids(h, ops) /\ ReportOps \subseteq ops
      <4>1. OrdinaryStep(h) => Avoids(h, Special)
        BY DEF OrdinaryStep, Ordinary
      <4>2. /\ ConfigStep(h) => Avoids(h, Special \ ConfigOps)
            /\ NotificationStep(h) => Avoids(h, Special \ RetryOps)
            /\ FeeStep(h) => Avoids(h, Special \ FeeOps)
        BY <1>1, ConfigAvoids, NotificationAvoids, FeeAvoids
      <4>3. /\ ReportOps \subseteq Special /\ ReportOps \subseteq Special \ ConfigOps
            /\ ReportOps \subseteq Special \ RetryOps /\ ReportOps \subseteq Special \ FeeOps
        BY DEF Special, ConfigOps, RetryOps, FeeOps, ReportOps
      <4>4. QED
        BY <1>2, <2>2, <4>1, <4>2, <4>3, ServeKinds
    <3>2. UNCHANGED portfolioVars
      BY <1>2, <2>2, ServeKinds DEF OrdinaryStep
    <3>3. \A g \in Handlers : \/ task'[g] = task[g]
                              \/ task[g].op \notin ReportOps /\ task'[g].op \notin ReportOps
      BY <3>1 DEF Avoids
    <3>4. QED
      BY <1>1, <3>2, <3>3, SameReports
  <2>3. QED
    BY <2>1, <2>2
<1>3. CASE Arrive \/ UNCHANGED vars
  <2>1. UNCHANGED <<task, portfolioVars>>
    BY <1>3, ArriveKinds DEF OutsideStep, vars, approvalVars
  <2>2. QED
    BY <1>1, <2>1, SameReports
<1>4. CASE Crash
  <2>1. /\ task' = [h \in Handlers |-> Idle] /\ reading' = [h \in Handlers |-> NoReading]
        /\ UNCHANGED <<posted, statements>>
    BY <1>4 DEF Crash, CrashAudit, CrashTasks
  <2>2. Idle.op \notin ReportOps /\ NoReading \in Reading /\ NoReading.queries = {}
    BY DEF Idle, NoReading, Reading, ReportOps
  <2>3. \A h \in Handlers : HoldsReading(h)'
    BY <2>1, <2>2 DEF HoldsReading, ReportOps
  <2>4. reading' \in [Handlers -> Reading'] /\ posted' \in Seq(Int)
    BY <2>1, <2>2 DEF ReportsInv, Reading
  <2>5. BooksMove
    BY <2>1, <2>2, FlyingShrinks DEF ReportOps
  <2>6. \A s \in statements' : Given(s)' /\ Says(s)'
    BY <1>1, <2>1, <2>5, StatementsLast
  <2>7. QED
    BY <2>3, <2>4, <2>6 DEF ReportsInv
<1>5. QED
  BY <1>2, <1>3, <1>4 DEF Next

LEMMA InitReports == Init => ReportsInv
<1> SUFFICES ASSUME Init PROVE ReportsInv
  OBVIOUS
<1>1. posted = <<>> /\ reading = [h \in Handlers |-> NoReading] /\ statements = {}
  BY DEF Init, PortfolioInit
<1>2. NoReading \in Reading /\ NoReading.queries = {}
  BY DEF NoReading, Reading
<1>3. \A h \in Handlers : task[h].op \notin ReportOps
  BY DEF Init, ApprovalsInit, Idle, ReportOps
<1>4. \A h \in Handlers : HoldsReading(h)
  BY <1>1, <1>2, <1>3 DEF HoldsReading, ReportOps
<1>5. posted \in Seq(Int)
  BY <1>1
<1>6. QED
  BY <1>1, <1>2, <1>4, <1>5 DEF ReportsInv

\* A statement opens with the balance of the start of its month, and closes with
\* that of its end, but for what was posted while its three queries ran, and for
\* what had been dated before and not yet committed: what the first two missed,
\* between them, was posted before the balance was read (portfolio.service.ts:230),
\* and what was in flight (ledger.service.ts:132) commits later or never.
THEOREM StatementsAreExact == Spec => []StatementIsExact
<1>1. Init => SettingsInv /\ ReportsInv
  BY InitVersions, InitReports
<1>2. Inv /\ SettingsInv /\ ReportsInv /\ [Next]_vars => SettingsInv' /\ ReportsInv'
  BY VersionsKeep, ReportsKeep
<1>3. ASSUME ReportsInv, NEW s \in statements
      PROVE  /\ Before(StartOf(s.month)) \in s.opening - s.late .. s.opening + s.unseen.opening
             /\ s.over => Before(EndOf(s.month)) \in s.closing - s.late .. s.closing + s.unseen.closing
  <2>1. posted \in Seq(Int) /\ Given(s) /\ Says(s)
    BY <1>3 DEF ReportsInv
  <2>2. ASSUME NEW at, NEW balance \in Int, NEW late \in Nat, NEW unseen \in Nat,
               Covers(balance, late, unseen, at)
        PROVE  Before(at) \in balance - late .. balance + unseen
    <3>1. PICK n \in Nat, f \in Nat : n = Before(at) /\ f = InFlight(at)
      BY <2>1, BeforeIsNat, FlyingIsFinite
    <3>2. balance <= n + late /\ n + f <= balance + unseen
      BY <2>2, <3>1 DEF Covers
    <3>3. n \in balance - late .. balance + unseen
      BY <3>2
    <3>4. QED
      BY <3>1, <3>3
  <2>3. QED
    BY <2>1, <2>2 DEF Given, Says
<1>4. ReportsInv => StatementIsExact
  BY <1>3 DEF StatementIsExact
<1>5. QED
  BY <1>1, <1>2, <1>4, InvHolds, PTL DEF Spec

----------------------------------------------------------------------------
(* The validity of an order: the calendar of the code against a count of   *)
(* the sessions.                                                           *)

TradingIn(from, to) == {d \in from .. to : isTradingDay(d)}

LEMMA CountOfTrading ==
  ASSUME NEW from \in Int, NEW to \in Int
  PROVE  IsFiniteSet(TradingIn(from, to)) /\ Cardinality(TradingIn(from, to)) \in Nat
<1>1. IsFiniteSet(from .. to)
  BY FS_Interval
<1>2. TradingIn(from, to) \in SUBSET (from .. to)
  BY DEF TradingIn
<1>3. IsFiniteSet(TradingIn(from, to))
  BY <1>1, <1>2, FS_Subset
<1>4. QED
  BY <1>3, FS_CardinalityType

\* The next trading day is at most three days on, with none in between.
LEMMA NextDay ==
  ASSUME NEW day \in Nat
  PROVE  /\ nextTradingDay(day) \in Nat /\ day < nextTradingDay(day)
         /\ isTradingDay(nextTradingDay(day))
         /\ \A d \in Nat : isTradingDay(d) /\ day < d => nextTradingDay(day) <= d
<1> DEFINE Soonest(d) == isTradingDay(d) /\ \A e \in day + 1 .. d - 1 : ~isTradingDay(e)
<1>1. \E d \in day + 1 .. day + 3 : Soonest(d)
  <2>1. CASE isTradingDay(day + 1)
    <3>1. Soonest(day + 1) /\ day + 1 \in day + 1 .. day + 3
      BY <2>1
    <3>2. QED
      BY <3>1
  <2>2. CASE ~isTradingDay(day + 1) /\ isTradingDay(day + 2)
    <3>1. Soonest(day + 2) /\ day + 2 \in day + 1 .. day + 3
      <4>1. \A e \in day + 1 .. (day + 2) - 1 : e = day + 1
        OBVIOUS
      <4>2. QED
        BY <2>2, <4>1
    <3>2. QED
      BY <3>1
  <2>3. CASE ~isTradingDay(day + 1) /\ ~isTradingDay(day + 2)
    <3>1. isTradingDay(day + 3)
      BY <2>3 DEF isTradingDay
    <3>2. \A e \in day + 1 .. (day + 3) - 1 : e = day + 1 \/ e = day + 2
      OBVIOUS
    <3>3. Soonest(day + 3) /\ day + 3 \in day + 1 .. day + 3
      BY <2>3, <3>1, <3>2
    <3>4. QED
      BY <3>3
  <2>4. QED
    BY <2>1, <2>2, <2>3
<1> DEFINE next == CHOOSE d \in day + 1 .. day + 3 : Soonest(d)
<1>2. next \in day + 1 .. day + 3 /\ Soonest(next)
  BY <1>1
<1>3. next = nextTradingDay(day)
  BY DEF nextTradingDay
<1> HIDE DEF next
<1>4. next \in Nat /\ day < next /\ isTradingDay(next)
  BY <1>2
<1>5. ASSUME NEW d \in Nat, isTradingDay(d), day < d PROVE next <= d
  <2>1. ~(d \in day + 1 .. next - 1)
    BY <1>2, <1>5
  <2>2. QED
    BY <1>4, <1>5, <2>1
<1>6. QED
  BY <1>3, <1>4, <1>5

\* Counting up: what is so of 0, and of the next number, is so of the last one.
LEMMA CountingUp ==
  ASSUME NEW n \in Nat, NEW Good, Good \subseteq 0 .. n, 0 \in Good,
         \A k \in Good : k < n => k + 1 \in Good
  PROVE  n \in Good
<1> DEFINE same == [k \in Good |-> k]
<1>1. IsFiniteSet(Good)
  <2>1. IsFiniteSet(0 .. n)
    BY FS_Interval
  <2>2. QED
    BY <2>1, FS_Subset
<1>2. \A k \in Good : same[k] = k /\ same[k] \in Int
  OBVIOUS
<1> HIDE DEF same
<1>3. PICK k \in Good : \A l \in Good : same[l] <= same[k]
  BY <1>1, <1>2, Highest
<1>4. k \in 0 .. n /\ k + 1 \notin Good
  BY <1>2, <1>3
<1>5. QED
  BY <1>4

\* The days of addTradingDays, as the function that the code's loop computes.
Steps(g, day, n) ==
    g = [i \in 0 .. n |-> IF i = 0 THEN day ELSE nextTradingDay(g[i - 1])]

LEMMA StepsExist ==
  ASSUME NEW day \in Nat, NEW n \in Nat
  PROVE  \E g : Steps(g, day, n)
<1> DEFINE Good == {k \in 0 .. n : \E g : Steps(g, day, k)}
<1>1. 0 \in Good
  <2> DEFINE g == [i \in 0 .. 0 |-> day]
  <2>1. Steps(g, day, 0)
    BY DEF Steps
  <2>2. QED
    BY <2>1
<1>2. ASSUME NEW k \in Good, k < n PROVE k + 1 \in Good
  <2>1. PICK g : Steps(g, day, k)
    OBVIOUS
  <2>2. k \in Nat /\ k + 1 \in 0 .. n
    BY <1>2
  <2> DEFINE f == [i \in 0 .. k + 1 |-> IF i \in 0 .. k THEN g[i] ELSE nextTradingDay(g[k])]
  <2>3. \A i \in 0 .. k : f[i] = g[i] /\ g[i] = IF i = 0 THEN day ELSE nextTradingDay(g[i - 1])
    BY <2>1, <2>2 DEF Steps
  <2>4. f[k + 1] = nextTradingDay(g[k])
    BY <2>2
  <2>5. ASSUME NEW i \in 0 .. k + 1 PROVE f[i] = IF i = 0 THEN day ELSE nextTradingDay(f[i - 1])
    <3>1. CASE i \in 0 .. k
      <4>1. i # 0 => i - 1 \in 0 .. k
        BY <2>2, <3>1
      <4>2. i # 0 => f[i - 1] = g[i - 1]
        BY <2>3, <4>1
      <4>3. QED
        BY <2>3, <3>1, <4>2
    <3>2. CASE i \notin 0 .. k
      <4>1. i = k + 1 /\ i - 1 = k /\ k \in 0 .. k /\ i # 0
        BY <2>2, <3>2
      <4>2. QED
        BY <2>3, <2>4, <4>1
    <3>3. QED
      BY <3>1, <3>2
  <2>6. DOMAIN f = 0 .. k + 1 /\ f = [i \in 0 .. k + 1 |-> f[i]]
    OBVIOUS
  <2> HIDE DEF f
  <2>7. Steps(f, day, k + 1)
    BY <2>5, <2>6 DEF Steps
  <2>8. QED
    BY <2>2, <2>7
<1>3. Good \subseteq 0 .. n
  OBVIOUS
<1> HIDE DEF Good
<1>4. n \in Good
  BY <1>1, <1>2, <1>3, CountingUp
<1>5. QED
  BY <1>4 DEF Good

\* From a session on, the n-th trading day is the one that makes n + 1 of them.
LEMMA StepsAreSessions ==
  ASSUME NEW day \in Nat, isTradingDay(day), NEW n \in Nat, NEW g, Steps(g, day, n)
  PROVE  /\ g[n] \in Nat /\ day <= g[n] /\ isTradingDay(g[n])
         /\ Cardinality(TradingIn(day, g[n])) = n + 1
<1> DEFINE Good == {k \in 0 .. n : /\ g[k] \in Nat /\ day <= g[k] /\ isTradingDay(g[k])
                                   /\ Cardinality(TradingIn(day, g[k])) = k + 1}
<1>1. 0 \in Good
  <2>1. g[0] = day /\ 0 \in 0 .. n
    BY DEF Steps
  <2>2. TradingIn(day, day) = {day}
    BY DEF TradingIn
  <2>3. Cardinality(TradingIn(day, day)) = 0 + 1
    <3>1. Cardinality({day}) = 1
      BY FS_Singleton, Zenon
    <3>2. QED
      BY <2>2, <3>1
  <2>4. QED
    BY <2>1, <2>3
<1>2. ASSUME NEW k \in Good, k < n PROVE k + 1 \in Good
  <2>1. /\ k \in Nat /\ k + 1 \in 0 .. n /\ (k + 1) - 1 = k /\ k + 1 # 0
        /\ g[k] \in Nat /\ day <= g[k] /\ Cardinality(TradingIn(day, g[k])) = k + 1
    BY <1>2
  <2>2. g[k + 1] = nextTradingDay(g[k])
    BY <2>1 DEF Steps
  <2> DEFINE next == g[k + 1]
  <2>3. /\ next \in Nat /\ g[k] < next /\ isTradingDay(next)
        /\ \A d \in Nat : isTradingDay(d) /\ g[k] < d => next <= d
    BY <2>1, <2>2, NextDay
  <2> HIDE DEF next
  <2>4. day <= next
    BY <2>1, <2>3
  <2>5. TradingIn(day, next) = TradingIn(day, g[k]) \cup {next}
    <3>1. ASSUME NEW d \in TradingIn(day, next) PROVE d \in TradingIn(day, g[k]) \cup {next}
      <4>1. d \in Nat /\ day <= d /\ d <= next /\ isTradingDay(d)
        BY <2>3 DEF TradingIn
      <4>2. d <= g[k] \/ d = next
        BY <2>1, <2>3, <4>1
      <4>3. QED
        BY <2>1, <4>1, <4>2 DEF TradingIn
    <3>2. ASSUME NEW d \in TradingIn(day, g[k]) \cup {next} PROVE d \in TradingIn(day, next)
      BY <2>1, <2>3, <2>4 DEF TradingIn
    <3>3. QED
      BY <3>1, <3>2
  <2>6. next \notin TradingIn(day, g[k])
    BY <2>1, <2>3 DEF TradingIn
  <2>7. Cardinality(TradingIn(day, next)) = (k + 1) + 1
    <3>1. IsFiniteSet(TradingIn(day, g[k]))
      <4>1. day \in Int /\ g[k] \in Int
        BY <2>1
      <4>2. QED
        BY <4>1, CountOfTrading
    <3>2. QED
      BY <2>1, <2>5, <2>6, <3>1, FS_AddElement
  <2>8. QED
    BY <2>1, <2>3, <2>4, <2>7 DEF next
<1>3. Good \subseteq 0 .. n
  OBVIOUS
<1> HIDE DEF Good
<1>4. n \in Good
  BY <1>1, <1>2, <1>3, CountingUp
<1>5. QED
  BY <1>4 DEF Good

LEMMA AddedDays ==
  ASSUME NEW day \in Nat, isTradingDay(day), NEW n \in Nat
  PROVE  LET last == addTradingDays(day, n) IN
         /\ last \in Nat /\ day <= last /\ isTradingDay(last)
         /\ Cardinality(TradingIn(day, last)) = n + 1
<1> DEFINE step[i \in 0 .. n] == IF i = 0 THEN day ELSE nextTradingDay(step[i - 1])
<1>1. PICK g : Steps(g, day, n)
  BY StepsExist
<1>2. Steps(step, day, n)
  BY <1>1 DEF Steps
<1>3. addTradingDays(day, n) = step[n]
  BY DEF addTradingDays
<1> HIDE DEF step
<1>4. QED
  BY <1>2, <1>3, StepsAreSessions

\* An instant of the model is a day and a time of it.
LEMMA DayAndTime ==
  ASSUME NEW at \in Int, -2 <= at
  PROVE  /\ calendarDay(at) \in Nat /\ localTime(at) \in 0 .. 47
         /\ at = 48 * calendarDay(at) + localTime(at) - 2
<1>1. PICK x \in Nat : x = at + 2
  OBVIOUS
<1>2. x \div 48 \in Nat /\ x % 48 \in 0 .. 47 /\ x = 48 * (x \div 48) + (x % 48)
  OBVIOUS
<1>3. calendarDay(at) = x \div 48 /\ localTime(at) = x % 48
  BY <1>1 DEF calendarDay, localTime, HalfHours, Offset
<1>4. QED
  BY <1>1, <1>2, <1>3

LEMMA FirstSession ==
  ASSUME NEW at \in Int, -2 <= at
  PROVE  /\ firstSession(at) \in Nat /\ isTradingDay(firstSession(at))
         /\ \A d \in Nat : Opens(at, d) <=> isTradingDay(d) /\ firstSession(at) <= d
<1> DEFINE day == calendarDay(at)
           time == localTime(at)
<1>1. day \in Nat /\ time \in 0 .. 47 /\ at = 48 * day + time - 2
  BY DayAndTime
<1> HIDE DEF day, time
<1>2. ASSUME NEW d \in Nat
      PROVE  at < CutoffOf(d) <=> day < d \/ (day = d /\ time < Cutoff)
  BY <1>1 DEF CutoffOf, Cutoff, HalfHours, Offset
<1>3. CASE isTradingDay(day) /\ time < Cutoff
  <2>1. firstSession(at) = day
    BY <1>3 DEF firstSession, day, time
  <2>2. ASSUME NEW d \in Nat PROVE at < CutoffOf(d) <=> day <= d
    BY <1>1, <1>2, <1>3
  <2>3. QED
    BY <1>1, <1>3, <2>1, <2>2 DEF Opens
<1>4. CASE ~(isTradingDay(day) /\ time < Cutoff)
  <2>1. firstSession(at) = nextTradingDay(day)
    BY <1>4 DEF firstSession, day, time
  <2> DEFINE next == nextTradingDay(day)
  <2>2. /\ next \in Nat /\ day < next /\ isTradingDay(next)
        /\ \A d \in Nat : isTradingDay(d) /\ day < d => next <= d
    BY <1>1, NextDay
  <2> HIDE DEF next
  <2>3. ASSUME NEW d \in Nat, isTradingDay(d) PROVE at < CutoffOf(d) <=> next <= d
    <3>1. at < CutoffOf(d) <=> day < d
      BY <1>2, <1>4, <2>3
    <3>2. next <= d => day < d
      BY <1>1, <2>2
    <3>3. QED
      BY <2>2, <2>3, <3>1, <3>2
  <2>4. QED
    BY <2>1, <2>2, <2>3 DEF Opens, next
<1>5. QED
  BY <1>3, <1>4

\* The last day whose session, if it has one, is over.
LastClosed(at) == IF localTime(at) >= SessionClose THEN calendarDay(at) ELSE calendarDay(at) - 1

LEMMA ClosedSessions ==
  ASSUME NEW at \in Int, -2 <= at
  PROVE  /\ LastClosed(at) \in Int /\ LastClosed(at) <= calendarDay(at)
         /\ \A d \in Nat : Over(at, d) <=> isTradingDay(d) /\ d <= LastClosed(at)
         /\ \A last \in Nat :
               (calendarDay(at) > last \/ (calendarDay(at) = last /\ localTime(at) >= SessionClose))
                 <=> last <= LastClosed(at)
<1> DEFINE day == calendarDay(at)
           time == localTime(at)
<1>1. day \in Nat /\ time \in 0 .. 47 /\ at = 48 * day + time - 2
  BY DayAndTime
<1>2. LastClosed(at) = IF time >= 32 THEN day ELSE day - 1
  BY DEF LastClosed, SessionClose
<1> HIDE DEF day, time
<1>3. LastClosed(at) \in Int /\ LastClosed(at) <= day
  BY <1>1, <1>2
<1>4. ASSUME NEW d \in Nat PROVE CloseOf(d) <= at <=> d <= LastClosed(at)
  BY <1>1, <1>2 DEF CloseOf, SessionClose, HalfHours, Offset
<1>5. ASSUME NEW last \in Nat
      PROVE  (day > last \/ (day = last /\ time >= SessionClose)) <=> last <= LastClosed(at)
  BY <1>1, <1>2 DEF SessionClose
<1>6. QED
  BY <1>3, <1>4, <1>5 DEF Over, day, time

\* The sessions an order can reach up to its date, and those that are over for it.
Reached(until, at) == {d \in 0 .. until : Opens(at, d)}
SessionsOver(sent, at) == {d \in Days : Opens(sent, d) /\ Over(at, d)}

LEMMA CountOfSessions ==
  ASSUME NEW until \in Int, NEW at, NEW sent
  PROVE  /\ IsFiniteSet(Reached(until, at)) /\ Cardinality(Reached(until, at)) \in Nat
         /\ IsFiniteSet(SessionsOver(sent, at)) /\ Cardinality(SessionsOver(sent, at)) \in Nat
<1>1. IsFiniteSet(0 .. until) /\ IsFiniteSet(Days)
  BY FS_Interval, LastDayAssumption DEF Days
<1>2. Reached(until, at) \in SUBSET (0 .. until) /\ SessionsOver(sent, at) \in SUBSET Days
  BY DEF Reached, SessionsOver
<1>3. IsFiniteSet(Reached(until, at)) /\ IsFiniteSet(SessionsOver(sent, at))
  BY <1>1, <1>2, FS_Subset
<1>4. QED
  BY <1>3, FS_CardinalityType

\* The loop of addTradingDays ends at the session at which as many are over.
LEMMA ExpiredBySessions ==
  ASSUME NEW sent \in Int, -2 <= sent, NEW at \in Int, -2 <= at, calendarDay(at) \in Days,
         NEW n \in Nat \ {0}
  PROVE  isExpired(sent, n, at) <=> Cardinality(SessionsOver(sent, at)) >= n
<1> DEFINE first == firstSession(sent)
           last == addTradingDays(first, n - 1)
           closed == LastClosed(at)
<1>1. /\ first \in Nat /\ isTradingDay(first)
      /\ \A d \in Nat : Opens(sent, d) <=> isTradingDay(d) /\ first <= d
  BY FirstSession
<1>2. /\ closed \in Int /\ closed <= LastDay
      /\ \A d \in Nat : Over(at, d) <=> isTradingDay(d) /\ d <= closed
  BY ClosedSessions, LastDayAssumption DEF Days
<1>3. /\ last \in Nat /\ first <= last /\ isTradingDay(last)
      /\ Cardinality(TradingIn(first, last)) = n
  <2>1. n - 1 \in Nat /\ (n - 1) + 1 = n
    OBVIOUS
  <2>2. QED
    BY <1>1, <2>1, AddedDays
<1>4. isExpired(sent, n, at) <=> last <= closed
  <2>1. AtLeastOne(n) = n
    BY DEF AtLeastOne
  <2>2. (calendarDay(at) > last \/ (calendarDay(at) = last /\ localTime(at) >= SessionClose))
           <=> last <= closed
    BY <1>3, ClosedSessions
  <2>3. QED
    BY <2>1, <2>2 DEF isExpired
<1> HIDE DEF first, last, closed
<1>5. SessionsOver(sent, at) = TradingIn(first, closed)
  <2>1. ASSUME NEW d \in SessionsOver(sent, at) PROVE d \in TradingIn(first, closed)
    <3>1. d \in Nat /\ Opens(sent, d) /\ Over(at, d)
      BY LastDayAssumption DEF SessionsOver, Days
    <3>2. QED
      BY <1>1, <1>2, <3>1 DEF TradingIn
  <2>2. ASSUME NEW d \in TradingIn(first, closed) PROVE d \in SessionsOver(sent, at)
    <3>1. d \in Int /\ isTradingDay(d) /\ first <= d /\ d <= closed
      BY <1>1, <1>2 DEF TradingIn
    <3>2. d \in Nat /\ d \in Days
      BY <1>1, <1>2, <3>1, LastDayAssumption DEF Days
    <3>3. QED
      BY <1>1, <1>2, <3>1, <3>2 DEF SessionsOver
  <2>3. QED
    BY <2>1, <2>2
<1>6. /\ IsFiniteSet(TradingIn(first, last)) /\ IsFiniteSet(TradingIn(first, closed))
      /\ Cardinality(TradingIn(first, closed)) \in Nat
  <2>1. first \in Int /\ last \in Int
    BY <1>1, <1>3
  <2>2. IsFiniteSet(TradingIn(first, last))
    BY <2>1, CountOfTrading
  <2>3. IsFiniteSet(TradingIn(first, closed)) /\ Cardinality(TradingIn(first, closed)) \in Nat
    BY <1>2, <2>1, CountOfTrading
  <2>4. QED
    BY <2>2, <2>3
<1>7. CASE last <= closed
  <2>1. TradingIn(first, last) \in SUBSET TradingIn(first, closed)
    BY <1>1, <1>2, <1>3, <1>7 DEF TradingIn
  <2>2. n <= Cardinality(TradingIn(first, closed))
    BY <1>3, <1>6, <2>1, FS_Subset
  <2>3. QED
    BY <1>4, <1>5, <1>6, <1>7, <2>2
<1>8. CASE ~(last <= closed)
  <2>1. /\ TradingIn(first, closed) \in SUBSET (TradingIn(first, last) \ {last})
        /\ last \in TradingIn(first, last)
    BY <1>1, <1>2, <1>3, <1>8 DEF TradingIn
  <2>2. /\ IsFiniteSet(TradingIn(first, last) \ {last})
        /\ Cardinality(TradingIn(first, last) \ {last}) = n - 1
    BY <1>3, <1>6, <2>1, FS_RemoveElement
  <2>3. Cardinality(TradingIn(first, closed)) <= n - 1
    BY <2>1, <2>2, FS_Subset
  <2>4. ~(Cardinality(TradingIn(first, closed)) >= n)
    BY <1>6, <2>3
  <2>5. QED
    BY <1>4, <1>5, <1>8, <2>4
<1>9. QED
  BY <1>7, <1>8

\* What placement counts is what the order can reach then.
LEMMA CountedAtPlacement ==
  ASSUME NEW until \in Nat, NEW at \in Int, -2 <= at, sessionsForValidity(until, at) # 0
  PROVE  /\ sessionsForValidity(until, at) \in Nat \ {0}
         /\ Cardinality(Reached(until, at)) <= sessionsForValidity(until, at)
<1> DEFINE first == firstSession(at)
<1>1. /\ first \in Nat /\ isTradingDay(first)
      /\ \A d \in Nat : Opens(at, d) <=> isTradingDay(d) /\ first <= d
  BY FirstSession
<1>2. sessionsForValidity(until, at) = AtLeastOne(Cardinality(TradingIn(first, until)))
  BY DEF sessionsForValidity, tradingDaysInclusive, TradingIn
<1> HIDE DEF first
<1>3. Reached(until, at) = TradingIn(first, until)
  <2>1. ASSUME NEW d \in Reached(until, at) PROVE d \in TradingIn(first, until)
    BY <1>1 DEF Reached, TradingIn
  <2>2. ASSUME NEW d \in TradingIn(first, until) PROVE d \in Reached(until, at)
    <3>1. d \in Nat /\ d <= until /\ isTradingDay(d) /\ first <= d
      BY <1>1 DEF TradingIn
    <3>2. QED
      BY <1>1, <3>1 DEF Reached
  <2>3. QED
    BY <2>1, <2>2
<1>4. Cardinality(TradingIn(first, until)) \in Nat
  <2>1. first \in Int /\ until \in Int
    BY <1>1
  <2>2. QED
    BY <2>1, CountOfTrading
<1>5. QED
  BY <1>2, <1>3, <1>4 DEF AtLeastOne

\* Later, an order reaches no more sessions, and no fewer are over.
LEMMA SessionsPass ==
  ASSUME NEW until \in Int, NEW sent, NEW at \in Int, NEW later \in Int, at <= later
  PROVE  /\ Cardinality(Reached(until, later)) <= Cardinality(Reached(until, at))
         /\ Cardinality(SessionsOver(sent, at)) <= Cardinality(SessionsOver(sent, later))
<1>1. Reached(until, later) \in SUBSET Reached(until, at)
  <2>1. ASSUME NEW d \in Reached(until, later) PROVE d \in Reached(until, at)
    BY <2>1 DEF Reached, Opens, CutoffOf, HalfHours, Cutoff, Offset
  <2>2. QED
    BY <2>1
<1>2. SessionsOver(sent, at) \in SUBSET SessionsOver(sent, later)
  <2>1. ASSUME NEW d \in SessionsOver(sent, at) PROVE d \in SessionsOver(sent, later)
    BY LastDayAssumption, <2>1 DEF SessionsOver, Days, Over, CloseOf, HalfHours, SessionClose, Offset
  <2>2. QED
    BY <2>1
<1>3. QED
  BY <1>1, <1>2, CountOfSessions, FS_Subset

----------------------------------------------------------------------------
\* An order has as many sessions as it can reach up to its date, and is expired
\* only when as many are over.
OrderTypes ==
    /\ clock \in Int /\ -2 <= clock /\ calendarDay(clock) \in Days
    /\ order \in [state : {"NONE", "PENDING", "TRANSMITTED", "EXPIRED"},
                  until : Days \cup {DAY}, sessions : Nat, sent : Int]
ValidityInv ==
    /\ OrderTypes
    /\ order.state # "NONE" => order.sessions # 0
    /\ order.state = "PENDING" => Cardinality(Reached(order.until, clock)) <= order.sessions
    /\ order.state \in {"TRANSMITTED", "EXPIRED"} =>
          /\ -2 <= order.sent
          /\ Cardinality(Reached(order.until, order.sent)) <= order.sessions
    /\ order.state = "EXPIRED" => Cardinality(SessionsOver(order.sent, clock)) >= order.sessions

LEMMA InitValidity == ValidityInit => ValidityInv
<1> SUFFICES ASSUME ValidityInit PROVE ValidityInv
  OBVIOUS
<1>1. clock = -2 /\ order = NoOrder
  BY DEF ValidityInit, Offset
<1>2. calendarDay(clock) = 0
  BY <1>1 DEF calendarDay, Offset, HalfHours
<1>3. OrderTypes
  BY <1>1, <1>2, LastDayAssumption DEF OrderTypes, NoOrder, DAY, Days
<1>4. QED
  BY <1>1, <1>3 DEF ValidityInv, NoOrder

LEMMA InstantsAreOfDays ==
  ASSUME NEW at \in Instants
  PROVE  at \in Int /\ -2 <= at /\ calendarDay(at) \in Days
<1>1. PICK day \in Days, time \in {0, Cutoff - 1, Cutoff, SessionClose - 1, SessionClose} :
         at = day * HalfHours + time - Offset
  BY DEF Instants
<1>2. day \in Nat /\ time \in 0 .. 47 /\ at = 48 * day + time - 2
  BY <1>1, LastDayAssumption DEF Days, Cutoff, SessionClose, HalfHours, Offset
<1>3. at \in Int /\ -2 <= at
  BY <1>2
<1>4. /\ calendarDay(at) \in Nat /\ localTime(at) \in 0 .. 47
      /\ at = 48 * calendarDay(at) + localTime(at) - 2
  BY <1>3, DayAndTime
<1>5. calendarDay(at) = day
  BY <1>2, <1>4
<1>6. QED
  BY <1>1, <1>3, <1>5

LEMMA KeepsValidity ==
  ASSUME ValidityInv, ValidityStep
  PROVE  ValidityInv'
<1>1. /\ OrderTypes
      /\ clock \in Int /\ -2 <= clock /\ calendarDay(clock) \in Days
      /\ order.until \in Int /\ order.sessions \in Nat /\ order.sent \in Int
  BY LastDayAssumption DEF ValidityInv, OrderTypes, Days, DAY
<1>2. CASE ClockAdvances
  <2>1. clock' \in Int /\ -2 <= clock' /\ calendarDay(clock') \in Days /\ clock <= clock' /\ order' = order
    <3>1. clock' \in Instants /\ clock < clock' /\ order' = order
      BY <1>2 DEF ClockAdvances
    <3>2. QED
      BY <1>1, <3>1, InstantsAreOfDays
  <2>2. OrderTypes'
    BY <1>1, <2>1 DEF OrderTypes, Days, calendarDay
  <2>3. /\ Cardinality(Reached(order.until, clock')) <= Cardinality(Reached(order.until, clock))
        /\ Cardinality(SessionsOver(order.sent, clock)) <= Cardinality(SessionsOver(order.sent, clock'))
    BY <1>1, <2>1, SessionsPass
  <2>4. /\ Cardinality(Reached(order.until, clock')) \in Nat /\ Cardinality(Reached(order.until, clock)) \in Nat
        /\ Cardinality(SessionsOver(order.sent, clock)) \in Nat /\ Cardinality(SessionsOver(order.sent, clock')) \in Nat
    BY <1>1, CountOfSessions
  <2>5. order.state = "PENDING" => Cardinality(Reached(order.until, clock')) <= order.sessions
    BY <1>1, <2>3, <2>4 DEF ValidityInv
  <2>6. order.state = "EXPIRED" => Cardinality(SessionsOver(order.sent, clock')) >= order.sessions
    BY <1>1, <2>3, <2>4 DEF ValidityInv
  <2>7. ValidityInv'
    BY <2>1, <2>2, <2>5, <2>6 DEF ValidityInv, Reached, SessionsOver, Opens, Over
  <2>8. QED
    BY <2>7
<1>3. CASE \E until \in Days \cup {DAY} : PlaceUntil(until)
  <2>1. PICK until \in Days \cup {DAY} : PlaceUntil(until)
    BY <1>3
  <2>2. PICK sessions : sessions = IF until = DAY THEN 1 ELSE sessionsForValidity(until, clock)
    OBVIOUS
  <2>3. /\ sessions # 0 /\ clock' = clock
        /\ order' = [state |-> "PENDING", until |-> until, sessions |-> sessions, sent |-> 0]
    BY <2>1, <2>2 DEF PlaceUntil
  <2>4. sessions \in Nat /\ Cardinality(Reached(until, clock)) <= sessions
    <3>1. CASE until = DAY
      <4>1. Reached(until, clock) = {} /\ sessions = 1
        BY <2>2, <3>1 DEF Reached, DAY
      <4>2. QED
        BY <4>1, FS_EmptySet
    <3>2. CASE until # DAY
      <4>1. until \in Nat /\ sessions = sessionsForValidity(until, clock)
        BY <2>2, <3>2, LastDayAssumption DEF Days
      <4>2. QED
        BY <1>1, <2>3, <4>1, CountedAtPlacement
    <3>3. QED
      BY <3>1, <3>2
  <2>5. OrderTypes'
    BY <1>1, <2>3, <2>4 DEF OrderTypes, Days
  <2>6. order'.state = "PENDING" /\ order'.sessions = sessions /\ order'.until = until
    BY <2>3
  <2>7. QED
    BY <2>3, <2>4, <2>5, <2>6 DEF ValidityInv, Reached, Opens
<1>4. CASE Transmit
  <2>1. /\ order.state = "PENDING" /\ clock' = clock /\ OrderTypes'
        /\ order'.state = "TRANSMITTED" /\ order'.sent = clock
        /\ order'.sessions = order.sessions /\ order'.until = order.until
    BY <1>1, <1>4 DEF Transmit, OrderTypes, Days
  <2>2. Cardinality(Reached(order.until, clock)) <= order.sessions /\ order.sessions # 0
    BY <2>1 DEF ValidityInv
  <2>3. QED
    BY <1>1, <2>1, <2>2 DEF ValidityInv, Reached, Opens
<1>5. CASE ExpireStaleJob
  <2>1. /\ order.state = "TRANSMITTED" /\ clock' = clock /\ OrderTypes'
        /\ isExpired(order.sent, order.sessions, clock)
        /\ order'.state = "EXPIRED" /\ order'.sent = order.sent
        /\ order'.sessions = order.sessions /\ order'.until = order.until
    BY <1>1, <1>5 DEF ExpireStaleJob, OrderTypes, Days
  <2>2. /\ Cardinality(Reached(order.until, order.sent)) <= order.sessions
        /\ order.sessions # 0 /\ -2 <= order.sent
    BY <2>1 DEF ValidityInv
  <2>3. Cardinality(SessionsOver(order.sent, clock)) >= order.sessions
    BY <1>1, <2>1, <2>2, ExpiredBySessions
  <2>4. QED
    BY <2>1, <2>2, <2>3 DEF ValidityInv, Reached, SessionsOver, Opens, Over
<1>6. QED
  BY <1>2, <1>3, <1>4, <1>5 DEF ValidityStep

LEMMA ValidityHolds ==
  ASSUME ValidityInv
  PROVE  ValidityIsInSessions
<1>1. /\ clock \in Int /\ -2 <= clock /\ calendarDay(clock) \in Days
      /\ order.until \in Int /\ order.sessions \in Nat /\ order.sent \in Int
      /\ order.until \in Days \cup {DAY}
  BY LastDayAssumption DEF ValidityInv, OrderTypes, Days, DAY
<1>2. ASSUME order.state = "TRANSMITTED"
      PROVE  isExpired(order.sent, order.sessions, clock) <=>
                 Cardinality(SessionsOver(order.sent, clock)) >= order.sessions
  <2>1. -2 <= order.sent /\ order.sessions # 0
    BY <1>2 DEF ValidityInv
  <2>2. QED
    BY <1>1, <2>1, ExpiredBySessions
<1>3. ASSUME order.state = "EXPIRED", NEW d \in 0 .. order.until, Opens(order.sent, d)
      PROVE  Over(clock, d)
  <2> DEFINE reached == Reached(order.until, order.sent)
             closed == SessionsOver(order.sent, clock)
  <2>1. SUFFICES ASSUME ~Over(clock, d) PROVE FALSE
    OBVIOUS
  <2>2. Cardinality(reached) <= order.sessions /\ Cardinality(closed) >= order.sessions
    BY <1>3 DEF ValidityInv
  <2>3. /\ IsFiniteSet(reached) /\ Cardinality(reached) \in Nat
        /\ IsFiniteSet(closed) /\ Cardinality(closed) \in Nat
    BY <1>1, CountOfSessions
  <2>4. d \in Nat /\ d <= order.until /\ isTradingDay(d) /\ d \in reached
    BY <1>1, <1>3 DEF Reached, Opens
  <2>5. LastClosed(clock) \in Int /\ \A e \in Nat : Over(clock, e) <=> isTradingDay(e) /\ e <= LastClosed(clock)
    BY <1>1, ClosedSessions
  <2>6. closed \in SUBSET (reached \ {d})
    <3>1. ASSUME NEW e \in closed PROVE e \in reached \ {d}
      <4>1. e \in Nat /\ Opens(order.sent, e) /\ Over(clock, e)
        BY LastDayAssumption DEF SessionsOver, Days
      <4>2. e < d
        BY <2>1, <2>4, <2>5, <4>1
      <4>3. QED
        BY <1>1, <2>4, <4>1, <4>2 DEF Reached
    <3>2. QED
      BY <3>1
  <2> HIDE DEF reached, closed
  <2>7. IsFiniteSet(reached \ {d}) /\ Cardinality(reached \ {d}) = Cardinality(reached) - 1
    BY <2>3, <2>4, FS_RemoveElement
  <2>8. Cardinality(closed) <= Cardinality(reached) - 1
    BY <2>6, <2>7, FS_Subset
  <2>9. QED
    BY <1>1, <2>2, <2>3, <2>8
<1>4. QED
  BY <1>2, <1>3 DEF ValidityIsInSessions, SessionsOver

LEMMA ValidityKeeps ==
  ASSUME ValidityInv, [Next]_vars
  PROVE  ValidityInv'
<1>1. CASE UNCHANGED validityVars
  BY <1>1 DEF validityVars, ValidityInv, OrderTypes, Reached, SessionsOver, Opens, Over
<1>2. CASE ValidityStep
  BY <1>2, KeepsValidity
<1>3. UNCHANGED validityVars \/ ValidityStep
  <2>1. CASE UNCHANGED vars
    BY <2>1 DEF vars
  <2>2. CASE Crash
    BY <2>2 DEF Crash
  <2>3. CASE Arrive
    BY <2>3 DEF Arrive, Rest, Reports
  <2>4. CASE \E h \in Handlers : Serve(h)
    BY <2>4 DEF Serve, Rest, Reports
  <2>5. QED
    BY <2>1, <2>2, <2>3, <2>4 DEF Next
<1>4. QED
  BY <1>1, <1>2, <1>3

\* An order is stale exactly when as many sessions as it was allowed have opened to it and
\* closed, on every day of the calendar, and it is never expired while a session it can
\* reach up to its date is still to close: the loop of addTradingDays (trading-days.ts) and
\* the count of sessions agree.
THEOREM OrdersLastTheirSessions == Spec => []ValidityIsInSessions
<1>1. Init => ValidityInv
  BY InitValidity DEF Init
<1>2. ValidityInv /\ [Next]_vars => ValidityInv'
  BY ValidityKeeps
<1>3. ValidityInv => ValidityIsInSessions
  BY ValidityHolds
<1>4. QED
  BY <1>1, <1>2, <1>3, PTL DEF Spec
=============================================================================
