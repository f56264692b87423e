--------------------------- MODULE DepositsProofs ---------------------------
(***************************************************************************)
(* What holds of deposits for every set of intents, workers and amounts and *)
(* any number of exceptions and crashes: the types, that only what was     *)
(* collected or forced is credited, that PAID means credited, that an      *)
(* intent is not FAILED while the provider has the payer's money, that the *)
(* balance is what was credited, each deposit once, and that every posting *)
(* fits what the ledger promises.                                          *)
(***************************************************************************)
EXTENDS Deposits, SumLemmas, TLAPS

USE DepositConstants

Labels == {"insert", "request", "record", "reopen", "query", "expire"} \cup Confirming
Tasks == {"create", "webhook", "recheck", "force", "job"}
Saws == States \cup {"pending", "paid", "failed"}
Running == [at : Labels, task : Tasks, on : Intents, saw : Saws]

\* What a handler relies on at the await it has reached: it knows the charge
\* it recorded or was told of, and nobody else has requested its intent.
Relies(w) ==
  /\ h[w].at \in Labels /\ h[w].task = "job" => w = Job
  /\ h[w].at \in Labels \ {"insert"} => state[on(w)] # "none"
  /\ At(w, "insert") => w # Job /\ state[on(w)] = "none"
  /\ At(w, "request") => charge[on(w)] = "none"
  /\ At(w, "record") /\ h[w].saw = "failed" => charge[on(w)] = "failed"
  /\ At(w, "credit") => charge[on(w)] = "paid" \/ on(w) \in forced
  /\ At(w, "fail") => charge[on(w)] = "failed"
  /\ At(w, "settle") => Credited(on(w))

Alone == \A v, w \in Handlers : \A l \in {"insert", "request"} :
  At(v, l) /\ At(w, l) /\ on(v) = on(w) => v = w

\* What the rows say of the charge and of the journal.
Rows == \A i \in Intents :
  /\ state[i] = "none" => charge[i] = "none"
  /\ state[i] = "FAILED" => charge[i] = "failed"
  /\ state[i] = "PAID" => Credited(i)
  /\ Credited(i) => charge[i] = "paid" \/ i \in forced

\* What the job has listed exists.
Listed == \A t \in todo : state[t[1]] # "none"

Inv == TypeOK /\ (\A w \in Handlers : Relies(w)) /\ Alone /\ Rows /\ Listed

LEMMA InitInv == Init => Inv
BY DEF Init, Inv, TypeOK, Relies, Alone, Rows, Listed, At, Idle, Book!Init, Credited, Credits, Handlers, States,
   Labels, Confirming

LEMMA AtRunning ==
  ASSUME TypeOK, NEW w \in Handlers, h[w].at \in Labels
  PROVE  h[w] \in Running
BY DEF TypeOK, Labels, Running, Tasks, Saws, Idle, Confirming

\* A step of w leaves the others where they are, and w idle, back in the job's
\* loop, or at one of the labels.
Steps(w, next) ==
  /\ h' \in [Handlers -> {Idle, [at |-> "next"]} \cup Running]
  /\ \A v \in Handlers \ {w} : h'[v] = h[v]
  /\ h'[w].at \in {"idle", "next"} \cup next

\* There it goes on with the same task and intent.
Goes(w, next) ==
  /\ Steps(w, next)
  /\ h'[w].at \in next => h'[w].on = h[w].on /\ h'[w].task = h[w].task

LEMMA HandlerTypes == TypeOK => h \in [Handlers -> {Idle, [at |-> "next"]} \cup Running]
BY DEF TypeOK, Running, Labels, Tasks, Saws

LEMMA GotoGoes ==
  ASSUME TypeOK, NEW w \in Handlers, h[w].at \in Labels, NEW l \in Labels, Goto(w, l)
  PROVE  Goes(w, {l}) /\ h'[w].at = l
<1>1. h[w] \in Running
  BY AtRunning
<1>2. [h[w] EXCEPT !.at = l] \in Running
  BY <1>1 DEF Running
<1>3. h' = [h EXCEPT ![w] = [h[w] EXCEPT !.at = l]]
  BY DEF Goto
<1>4. h'[w] = [h[w] EXCEPT !.at = l] /\ \A v \in Handlers \ {w} : h'[v] = h[v]
  BY <1>3, HandlerTypes
<1>5. h'[w].at = l /\ h'[w].on = h[w].on /\ h'[w].task = h[w].task
  BY <1>1, <1>4 DEF Running
<1>6. QED
  BY <1>2, <1>3, <1>4, <1>5, HandlerTypes DEF Goes, Steps

LEMMA GotoSeeingGoes ==
  ASSUME TypeOK, NEW w \in Handlers, h[w].at \in Labels, NEW l \in Labels, NEW x \in Saws,
         GotoSeeing(w, l, x)
  PROVE  Goes(w, {l}) /\ h'[w].at = l /\ h'[w].saw = x
<1>1. h[w] \in Running
  BY AtRunning
<1>2. [h[w] EXCEPT !.at = l, !.saw = x] \in Running
  BY <1>1 DEF Running
<1>3. h' = [h EXCEPT ![w] = [h[w] EXCEPT !.at = l, !.saw = x]]
  BY DEF GotoSeeing
<1>4. h'[w] = [h[w] EXCEPT !.at = l, !.saw = x] /\ \A v \in Handlers \ {w} : h'[v] = h[v]
  BY <1>3, HandlerTypes
<1>5. h'[w].at = l /\ h'[w].saw = x /\ h'[w].on = h[w].on /\ h'[w].task = h[w].task
  BY <1>1, <1>4 DEF Running
<1>6. QED
  BY <1>2, <1>3, <1>4, <1>5, HandlerTypes DEF Goes, Steps

LEMMA FinishGoes ==
  ASSUME TypeOK, NEW w \in Handlers, Finish(w)
  PROVE  Goes(w, {}) /\ h'[w] = Idle
BY HandlerTypes DEF Goes, Steps, Finish, Idle

LEMMA ReturnGoes ==
  ASSUME TypeOK, NEW w \in Handlers, h[w].at \in Labels, Relies(w), NEW s, Return(w, s)
  PROVE  Goes(w, {"expire"})
<1>1. CASE Finish(w)
  BY <1>1, FinishGoes DEF Goes, Steps
<1>2. CASE Goto(w, "expire")
  BY <1>2, GotoGoes DEF Labels
<1>3. CASE w = Job /\ JobAgain
  BY <1>3, HandlerTypes DEF Goes, Steps, JobAgain, Handlers
<1>4. QED
  BY <1>1, <1>2, <1>3 DEF Return, Relies

\* No action takes back what a handler may rely on.
Grows ==
  /\ forced \subseteq forced' /\ todo' \subseteq todo
  /\ \A i \in Intents : /\ Credited(i) => Credited(i)'
                        /\ charge[i] \in {"paid", "failed"} => charge'[i] = charge[i]
                        /\ state[i] # "none" => state'[i] # "none"

Untouched(i) == /\ state[i] = "none" => state'[i] = "none"
                /\ charge[i] = "none" => charge'[i] = "none"

LEMMA OthersRely ==
  ASSUME Inv, NEW v \in Handlers, h'[v] = h[v], Grows,
         h[v].at \in {"insert", "request"} => Untouched(on(v))
  PROVE  Relies(v)'
<1>1. CASE h[v].at \in Labels
  <2>1. on(v) \in Intents
    BY <1>1, AtRunning DEF Inv, Running, on
  <2>2. on(v)' = on(v) /\ h'[v].at = h[v].at /\ h'[v].saw = h[v].saw /\ h'[v].task = h[v].task
    BY DEF on
  <2>3. Relies(v)
    BY DEF Inv
  <2>4. QED
    BY <2>1, <2>2, <2>3 DEF Relies, Grows, Untouched, At
<1>2. CASE h[v].at \notin Labels
  BY <1>2 DEF Relies, At, Labels, Confirming
<1>3. QED
  BY <1>1, <1>2

\* Nobody starts to create an intent in a step that leads elsewhere.
LEMMA StayAlone ==
  ASSUME Inv, NEW w \in Handlers, NEW next, Steps(w, next),
         next \cap {"insert", "request"} = {}
  PROVE  Alone'
<1>1. h'[w].at \notin {"insert", "request"}
  BY DEF Goes, Steps
<1>2. QED
  BY <1>1 DEF Inv, Alone, Steps, At, on

\* The types of what a step may change.
TypesOfRows ==
  /\ state' \in [Intents -> States] /\ due' \in [Intents -> BOOLEAN]
  /\ charge' \in [Intents -> {"none", "pending", "paid", "failed"}]
  /\ forced' \subseteq Intents
  /\ starts' \in 0..MaxStarts /\ faults' \in 0..MaxFaults

\* A step of w that is not the start or the first step of a creation.
LEMMA StepKeeps ==
  ASSUME Inv, NEW w \in Handlers, NEW next, Steps(w, next), TypesOfRows, Grows, Rows',
         next \cap {"insert", "request"} = {}, Relies(w)',
         \A v \in Handlers \ {w} : h[v].at \in {"insert", "request"} => Untouched(on(v))
  PROVE  Inv'
<1>1. TypeOK'
  BY DEF Inv, TypesOfRows, TypeOK, Steps, Grows, Running, Labels, Tasks, Saws
<1>2. \A v \in Handlers : Relies(v)'
  BY OthersRely DEF Goes, Steps
<1>3. Alone'
  BY StayAlone
<1>4. Listed'
  BY DEF Inv, TypeOK, Listed, Grows
<1>5. QED
  BY <1>1, <1>2, <1>3, <1>4 DEF Inv

\* A step of w that writes neither the rows nor the ledger.
LEMMA ReadingKeeps ==
  ASSUME Inv, NEW w \in Handlers, NEW next, Steps(w, next),
         UNCHANGED <<rows, charge, ledger>>, todo' \subseteq todo, TypesOfRows,
         next \cap {"insert", "request"} = {}, Relies(w)'
  PROVE  Inv'
<1>1. Grows /\ \A i \in Intents : Untouched(i)
  BY DEF Grows, Untouched, rows, ledger, Credited, Credits
<1>2. Rows'
  BY DEF Inv, Rows, rows, ledger, Credited, Credits
<1>3. \A v \in Handlers : h[v].at \in {"insert", "request"} => Untouched(on(v))
  BY DEF Untouched, rows
<1>4. QED
  BY <1>1, <1>2, <1>3, StepKeeps

-----------------------------------------------------------------------------
(* One lemma per action                                                    *)

\* What w has to know at the label it goes to.
LEMMA ReliesNext ==
  ASSUME NEW w \in Handlers, Relies(w), h[w].at \in Labels, NEW next, Goes(w, next),
         next \cap {"insert", "request"} = {}, state'[on(w)] # "none",
         "record" \in next => (h'[w].saw = "failed" => charge'[on(w)] = "failed"),
         "credit" \in next => charge'[on(w)] = "paid" \/ on(w) \in forced',
         "fail" \in next => charge'[on(w)] = "failed",
         "settle" \in next => Credited(on(w))'
  PROVE  Relies(w)'
<1>1. CASE h'[w].at \in next
  <2>1. on(w)' = on(w) /\ h'[w].task = h[w].task
    BY <1>1 DEF Goes, Steps, on
  <2>2. QED
    BY <1>1, <2>1 DEF Relies, At
<1>2. CASE h'[w].at \in {"idle", "next"}
  BY <1>2 DEF Relies, At, Labels, Confirming
<1>3. QED
  BY <1>1, <1>2 DEF Goes, Steps

LEMMA RowsTypes ==
  ASSUME TypeOK, UNCHANGED <<rows, world, ledger, todo, bounds>>
  PROVE  TypesOfRows
BY DEF TypeOK, TypesOfRows, rows, world, bounds

LEMMA ReadIntentInv == ASSUME Inv, NEW w \in Handlers, ReadIntent(w) PROVE Inv'
<1>1. TypeOK /\ Relies(w) /\ h[w].at \in Labels /\ on(w) \in Intents
  BY AtRunning DEF Inv, ReadIntent, At, Labels, Confirming, Running, on
<1>2. TypesOfRows /\ UNCHANGED <<rows, charge, ledger, todo>>
  BY <1>1, RowsTypes DEF ReadIntent, world
<1>3. state[on(w)] # "none"
  BY <1>1 DEF ReadIntent, Relies, At
<1>4. CASE Return(w, state[on(w)])
  <2>1. Goes(w, {"expire"})
    BY <1>1, <1>4, ReturnGoes
  <2>2. Relies(w)'
    BY <1>1, <1>2, <2>1, <1>3, ReliesNext DEF rows
  <2>3. QED
    BY <1>2, <2>1, <2>2, ReadingKeeps DEF Goes
<1>5. CASE GotoSeeing(w, "query", state[on(w)])
  <2>1. "query" \in Labels /\ state[on(w)] \in Saws
    BY <1>1 DEF TypeOK, Labels, Saws
  <2>2. Goes(w, {"query"}) /\ h'[w].at = "query"
    BY <1>1, <1>5, <2>1, GotoSeeingGoes
  <2>3. Relies(w)'
    BY <1>1, <1>2, <2>2, <1>3, ReliesNext DEF rows
  <2>4. QED
    BY <1>2, <2>2, <2>3, ReadingKeeps DEF Goes
<1>6. QED
  BY <1>4, <1>5 DEF ReadIntent

LEMMA QueryStatusInv == ASSUME Inv, NEW w \in Handlers, QueryStatus(w) PROVE Inv'
<1>1. TypeOK /\ Relies(w) /\ h[w].at \in Labels /\ on(w) \in Intents
  BY AtRunning DEF Inv, QueryStatus, At, Labels, Confirming, Running, on
<1>2. TypesOfRows /\ UNCHANGED <<rows, charge, ledger, todo>>
  BY <1>1, RowsTypes DEF QueryStatus, world
<1>3. state[on(w)] # "none"
  BY <1>1 DEF QueryStatus, Relies, At
<1>4. CASE Return(w, h[w].saw)
  <2>1. Goes(w, {"expire"})
    BY <1>1, <1>4, ReturnGoes
  <2>2. Relies(w)'
    BY <1>1, <1>2, <2>1, <1>3, ReliesNext DEF rows
  <2>3. QED
    BY <1>2, <2>1, <2>2, ReadingKeeps DEF Goes
<1>5. ASSUME NEW l \in {"credit", "fail", "patch"}, Goto(w, l),
             l = "credit" => charge[on(w)] = "paid", l = "fail" => charge[on(w)] = "failed"
      PROVE  Inv'
  <2>1. l \in Labels
    BY DEF Labels, Confirming
  <2>2. Goes(w, {l}) /\ h'[w].at = l
    BY <1>1, <1>5, <2>1, GotoGoes
  <2>3. Relies(w)'
    BY <1>1, <1>2, <1>5, <2>2, <1>3, ReliesNext DEF rows
  <2>4. QED
    BY <1>2, <2>2, <2>3, ReadingKeeps DEF Goes
<1>6. QED
  BY <1>4, <1>5 DEF QueryStatus

LEMMA PatchStatusInv == ASSUME Inv, NEW w \in Handlers, PatchStatus(w) PROVE Inv'
<1>1. TypeOK /\ Relies(w) /\ h[w].at \in Labels
  BY DEF Inv, PatchStatus, At, Labels, Confirming
<1>2. TypesOfRows /\ UNCHANGED <<rows, charge, ledger, todo>>
  BY <1>1, RowsTypes DEF PatchStatus, world
<1>3. Goes(w, {"expire"})
  BY <1>1, ReturnGoes DEF PatchStatus
<1>4. state[on(w)] # "none"
  BY <1>1 DEF PatchStatus, Relies, At
<1>5. Relies(w)'
  BY <1>1, <1>2, <1>3, <1>4, ReliesNext DEF rows
<1>6. QED
  BY <1>2, <1>3, <1>5, ReadingKeeps DEF Goes

LEMMA RequestCollectionInv == ASSUME Inv, NEW w \in Handlers, RequestCollection(w) PROVE Inv'
<1>1. TypeOK /\ Relies(w) /\ Rows /\ Alone /\ h[w].at \in Labels /\ on(w) \in Intents
  BY AtRunning DEF Inv, RequestCollection, At, Labels, Confirming, Running, on
<1>2. state[on(w)] \notin {"none", "FAILED"} /\ charge[on(w)] = "none"
  BY <1>1 DEF RequestCollection, Relies, Rows, At
<1>3. ASSUME NEW c \in {"none", "pending", "failed", "paid"},
             charge' = [charge EXCEPT ![on(w)] = c]
      PROVE  TypesOfRows /\ Grows /\ Rows'
  <2>1. TypesOfRows
    BY <1>1, <1>3 DEF RequestCollection, TypeOK, TypesOfRows, rows, bounds
  <2>2. \A i \in Intents : charge'[i] = IF i = on(w) THEN c ELSE charge[i]
    BY <1>1, <1>3 DEF TypeOK
  <2>3. Grows
    BY <1>2, <2>2 DEF RequestCollection, Grows, rows, ledger, Credited, Credits
  <2>4. Rows'
    BY <1>1, <1>2, <2>2 DEF RequestCollection, Rows, rows, ledger, Credited, Credits
  <2>5. QED
    BY <2>1, <2>3, <2>4
<1>4. \A c : charge' = [charge EXCEPT ![on(w)] = c] =>
        \A v \in Handlers \ {w} : h[v].at \in {"insert", "request"} => Untouched(on(v))
  <2>1. \A v \in Handlers \ {w} : h[v].at \in {"insert", "request"} => on(v) # on(w)
    BY <1>1, <1>2 DEF Inv, Alone, Relies, At, RequestCollection
  <2>2. QED
    BY <1>1, <2>1, <1>2 DEF RequestCollection, Untouched, rows, TypeOK
<1>5. ASSUME NEW c \in {"pending", "failed", "paid"},
             charge' = [charge EXCEPT ![on(w)] = c], GotoSeeing(w, "record", c)
      PROVE  Inv'
  <2>1. Goes(w, {"record"}) /\ h'[w].at = "record" /\ h'[w].saw = c
    BY <1>1, <1>5, GotoSeeingGoes DEF Labels, Saws
  <2>2. Relies(w)'
    BY <1>1, <1>2, <1>5, <2>1, ReliesNext DEF RequestCollection, rows, TypeOK
  <2>3. QED
    BY <1>3, <1>4, <1>5, <2>1, <2>2, StepKeeps DEF Goes
<1>6. ASSUME NEW c \in {"none", "pending"},
             charge' = [charge EXCEPT ![on(w)] = c], Goto(w, "reopen")
      PROVE  Inv'
  <2>1. Goes(w, {"reopen"}) /\ h'[w].at = "reopen"
    BY <1>1, <1>6, GotoGoes DEF Labels
  <2>2. Relies(w)'
    BY <1>1, <1>2, <2>1, ReliesNext DEF RequestCollection, rows
  <2>3. QED
    BY <1>3, <1>4, <1>6, <2>1, <2>2, StepKeeps DEF Goes
<1>7. QED
  BY <1>5, <1>6 DEF RequestCollection

\* A step of w that writes the state of its intent.
LEMMA SetStateKeeps ==
  ASSUME Inv, NEW w \in Handlers, NEW next, Goes(w, next), on(w) \in Intents,
         NEW s \in States \ {"none"}, SetState(on(w), s), state[on(w)] # "none",
         s = "FAILED" => charge[on(w)] = "failed", s = "PAID" => Credited(on(w)),
         UNCHANGED <<forced, world, ledger, todo, bounds>>,
         next \cap {"insert", "request"} = {}, Relies(w)'
  PROVE  Inv'
<1>1. \A i \in Intents : state'[i] = IF i = on(w) THEN s ELSE state[i]
  BY DEF SetState, Inv, TypeOK
<1>2. TypesOfRows
  BY DEF SetState, Inv, TypeOK, TypesOfRows, world, bounds
<1>3. Grows /\ \A i \in Intents : Untouched(i)
  BY <1>1 DEF Grows, Untouched, world, ledger, Credited, Credits
<1>4. Rows'
  BY <1>1 DEF Inv, Rows, world, ledger, Credited, Credits
<1>5. \A v \in Handlers : h[v].at \in {"insert", "request"} => on(v) \in Intents
  BY AtRunning DEF Inv, Labels, Running, on
<1>6. QED
  BY <1>2, <1>3, <1>4, <1>5, StepKeeps DEF Goes

\* Past its creation, a handler works on a row that exists.
LEMMA RecordRequestInv == ASSUME Inv, NEW w \in Handlers, RecordRequest(w) PROVE Inv'
<1>1. TypeOK /\ Relies(w) /\ h[w].at \in Labels /\ on(w) \in Intents
  BY AtRunning DEF Inv, RecordRequest, At, Labels, Confirming, Running, on
<1>2. Goes(w, {"read"})
  <2>1. CASE Goto(w, "read")
    BY <1>1, <2>1, GotoGoes DEF Labels, Confirming
  <2>2. CASE Finish(w)
    BY <1>1, <2>2, FinishGoes DEF Goes, Steps
  <2>3. QED
    BY <2>1, <2>2 DEF RecordRequest
<1>3. state[on(w)] # "none" /\ state'[on(w)] # "none"
  BY <1>1 DEF RecordRequest, Relies, At, SetState, TypeOK
<1>4. Relies(w)'
  BY <1>1, <1>2, <1>3, ReliesNext
<1>5. QED
  BY <1>1, <1>2, <1>3, <1>4, SetStateKeeps DEF RecordRequest, Relies, States, At

LEMMA ReopenInv == ASSUME Inv, NEW w \in Handlers, Reopen(w) PROVE Inv'
<1>1. TypeOK /\ Relies(w) /\ h[w].at \in Labels /\ on(w) \in Intents
  BY AtRunning DEF Inv, Reopen, At, Labels, Confirming, Running, on
<1>2. Goes(w, {})
  BY <1>1, FinishGoes DEF Reopen
<1>3. state[on(w)] # "none" /\ state'[on(w)] # "none"
  BY <1>1 DEF Reopen, Relies, At, SetState, TypeOK
<1>4. Relies(w)'
  BY <1>1, <1>2, <1>3, ReliesNext
<1>5. QED
  BY <1>1, <1>2, <1>3, <1>4, SetStateKeeps DEF Reopen, Relies, States, At

LEMMA SettleIntentInv == ASSUME Inv, NEW w \in Handlers, SettleIntent(w) PROVE Inv'
<1>1. TypeOK /\ Relies(w) /\ h[w].at \in Labels /\ on(w) \in Intents
  BY AtRunning DEF Inv, SettleIntent, At, Labels, Confirming, Running, on
<1>2. Goes(w, {"expire"})
  BY <1>1, ReturnGoes DEF SettleIntent
<1>3. state[on(w)] # "none" /\ state'[on(w)] # "none" /\ Credited(on(w))
  BY <1>1 DEF SettleIntent, Relies, At, SetState, TypeOK
<1>4. Relies(w)'
  BY <1>1, <1>2, <1>3, ReliesNext
<1>5. QED
  BY <1>1, <1>2, <1>3, <1>4, SetStateKeeps DEF SettleIntent, States

LEMMA FailIntentInv == ASSUME Inv, NEW w \in Handlers, FailIntent(w) PROVE Inv'
<1>1. TypeOK /\ Relies(w) /\ h[w].at \in Labels /\ on(w) \in Intents
  BY AtRunning DEF Inv, FailIntent, At, Labels, Confirming, Running, on
<1>2. Goes(w, {"expire"})
  BY <1>1, ReturnGoes DEF FailIntent
<1>3. state[on(w)] # "none" /\ state'[on(w)] # "none" /\ charge[on(w)] = "failed"
  BY <1>1 DEF FailIntent, Relies, At, SetState, TypeOK
<1>4. Relies(w)'
  BY <1>1, <1>2, <1>3, ReliesNext
<1>5. QED
  BY <1>1, <1>2, <1>3, <1>4, SetStateKeeps DEF FailIntent, States

LEMMA ExpireInv == ASSUME Inv, Expire PROVE Inv'
<1>1. TypeOK /\ Relies(Job) /\ Rows /\ h[Job].at \in Labels /\ on(Job) \in Intents /\ Job \in Handlers
  BY AtRunning DEF Inv, Expire, At, Labels, Confirming, Running, on, Handlers
<1>2. Goes(Job, {})
  BY <1>1, HandlerTypes DEF Expire, JobAgain, Goes, Steps
<1>3. state[on(Job)] # "none" /\ state'[on(Job)] # "none"
  BY <1>1 DEF Expire, Relies, At, SetState, TypeOK
<1>4. Relies(Job)'
  BY <1>1, <1>2, <1>3, ReliesNext
<1>5. PICK s \in States \ {"none"} :
        SetState(on(Job), s) /\ (s = "EXPIRED" \/ s = state[on(Job)])
  BY <1>1, <1>3 DEF Expire, TypeOK, States
<1>6. QED
  BY <1>1, <1>2, <1>3, <1>4, <1>5, SetStateKeeps DEF Expire, Rows

\* The posting is there when the ledger returns, whoever made it.
LEMMA CreditDepositInv == ASSUME Inv, NEW w \in Handlers, CreditDeposit(w) PROVE Inv'
<1>1. TypeOK /\ Relies(w) /\ Rows /\ h[w].at \in Labels /\ on(w) \in Intents
  BY AtRunning DEF Inv, CreditDeposit, At, Labels, Confirming, Running, on
<1>2. Goes(w, {"settle"})
  BY <1>1, GotoGoes DEF CreditDeposit, Labels, Confirming
<1>3. \/ journal' = journal /\ \E r \in journal : r.key = <<"deposit", on(w)>>
      \/ journal' = journal \cup {[key |-> <<"deposit", on(w)>>, rev |-> FALSE,
                                   delta |-> Movement(on(w))]}
  BY DEF CreditDeposit, Book!Post, Book!Posted, DepositKey
<1>4. Credited(on(w))'
  <2>1. \E r \in journal' : r.key = <<"deposit", on(w)>>
    <3>1. CASE \E r \in journal : r.key = <<"deposit", on(w)>>
      BY <1>3, <3>1
    <3>2. CASE journal' = journal \cup {[key |-> <<"deposit", on(w)>>, rev |-> FALSE,
                                        delta |-> Movement(on(w))]}
      <4>1. [key |-> <<"deposit", on(w)>>, rev |-> FALSE, delta |-> Movement(on(w))] \in journal'
        BY <3>2
      <4>2. QED
        BY <4>1
    <3>3. QED
      BY <1>3, <3>1, <3>2
  <2>2. \E r \in journal' : r.key[2] = on(w)
    BY <2>1
  <2>3. on(w)' = on(w)
    BY <1>1, <1>2 DEF CreditDeposit, Goto, on, Running, TypeOK
  <2>4. QED
    BY <2>2, <2>3 DEF Credited, Credits
<1>5. \A i \in Intents : /\ Credited(i) => Credited(i)'
                         /\ Credited(i)' => Credited(i) \/ i = on(w)
  BY <1>3 DEF Credited, Credits
<1>6. Grows /\ \A i \in Intents : Untouched(i)
  BY <1>5 DEF CreditDeposit, Grows, Untouched, rows, world
<1>7. Rows'
  BY <1>1, <1>5 DEF CreditDeposit, Rows, Relies, At, rows, world
<1>8. Relies(w)'
  BY <1>1, <1>2, <1>4, ReliesNext DEF CreditDeposit, Relies, At, rows, Labels
<1>9. TypesOfRows
  BY <1>1 DEF CreditDeposit, TypeOK, TypesOfRows, rows, world, bounds
<1>10. \A v \in Handlers : h[v].at \in {"insert", "request"} => on(v) \in Intents
  BY <1>1, AtRunning DEF Labels, Running, on
<1>11. QED
  BY <1>2, <1>6, <1>7, <1>8, <1>9, <1>10, StepKeeps DEF Goes

\* A handler that starts on intent i for task t.
LEMMA BeginSteps ==
  ASSUME TypeOK, NEW w \in Handlers, NEW t \in Tasks, NEW i \in Intents, NEW l \in Labels,
         Begin(w, t, i, l)
  PROVE  /\ Steps(w, {l}) /\ h[w] = Idle
         /\ h'[w] = [at |-> l, task |-> t, on |-> i, saw |-> "none"]
<1>1. [at |-> l, task |-> t, on |-> i, saw |-> "none"] \in Running
  BY DEF Running, Saws, States
<1>2. QED
  BY <1>1, HandlerTypes DEF Begin, Steps

\* Callbacks, rechecks and forced completions.
LEMMA BeginKeeps ==
  ASSUME Inv, NEW w \in Workers, NEW t \in Tasks \ {"job"}, NEW i \in Intents,
         NEW l \in {"read", "credit"}, Begin(w, t, i, l), CanStart, state[i] # "none",
         forced' \in {forced, forced \cup {i}}, l = "credit" => i \in forced',
         UNCHANGED <<state, world, ledger, todo, faults>>
  PROVE  Inv'
<1>1. TypeOK /\ w \in Handlers /\ l \in Labels
  BY DEF Inv, Handlers, Labels, Confirming
<1>2. Steps(w, {l}) /\ h'[w] = [at |-> l, task |-> t, on |-> i, saw |-> "none"]
  BY <1>1, BeginSteps
<1>3. TypesOfRows
  BY <1>1 DEF CanStart, TypeOK, TypesOfRows, world
<1>4. Grows /\ \A j \in Intents : Untouched(j)
  BY DEF Grows, Untouched, world, ledger, Credited, Credits
<1>5. Rows'
  BY DEF Inv, Rows, world, ledger, Credited, Credits
<1>6. Relies(w)'
  BY <1>2 DEF Relies, At, on
<1>7. \A v \in Handlers : h[v].at \in {"insert", "request"} => on(v) \in Intents
  BY <1>1, AtRunning DEF Labels, Running, on
<1>8. QED
  BY <1>1, <1>2, <1>3, <1>4, <1>5, <1>6, <1>7, StepKeeps

LEMMA StartsInv ==
  ASSUME Inv, NEW w \in Workers, NEW i \in Intents,
         Webhook(w, i) \/ AdminRecheck(w, i) \/ ForceComplete(w, i)
  PROVE  Inv'
<1>1. CASE Webhook(w, i)
  BY <1>1, BeginKeeps DEF Webhook, Tasks, rows
<1>2. CASE AdminRecheck(w, i)
  BY <1>2, BeginKeeps DEF AdminRecheck, Tasks, rows
<1>3. CASE ForceComplete(w, i)
  <2>1. forced' = forced \cup {i} /\ i \in forced'
    BY <1>3 DEF ForceComplete
  <2>2. QED
    BY <1>3, <2>1, BeginKeeps DEF ForceComplete, Tasks
<1>4. QED
  BY <1>1, <1>2, <1>3

\* A creation: no row yet, and nobody else about to insert it.
LEMMA CreateDepositInv ==
  ASSUME Inv, NEW w \in Workers, NEW i \in Intents, CreateDeposit(w, i)
  PROVE  Inv'
<1>1. TypeOK /\ w \in Handlers /\ w # Job /\ state[i] = "none"
  BY DEF Inv, Handlers, CreateDeposit
<1>2. Steps(w, {"insert"}) /\ h[w] = Idle
      /\ h'[w] = [at |-> "insert", task |-> "create", on |-> i, saw |-> "none"]
  BY <1>1, BeginSteps DEF CreateDeposit, Labels, Tasks
<1>3. Grows /\ \A j \in Intents : Untouched(j)
  BY DEF CreateDeposit, Grows, Untouched, rows, world, ledger, Credited, Credits
<1>4. \A v \in Handlers : h[v].at \in {"insert", "request"} => on(v) \in Intents
  BY <1>1, AtRunning DEF Labels, Running, on
<1>5. TypeOK'
  BY <1>1, <1>2 DEF CreateDeposit, TypeOK, Steps, Running, Labels, Tasks, Saws, rows, world, bounds
<1>6. Relies(w)'
  BY <1>1, <1>2 DEF CreateDeposit, Relies, At, on, rows
<1>7. \A v \in Handlers : Relies(v)'
  BY <1>2, <1>3, <1>4, <1>6, OthersRely DEF Steps
<1>8. Alone'
  <2>1. \A v \in Handlers : At(v, "insert") => on(v) # i
    BY <1>1 DEF CreateDeposit, Inv, Relies, Handlers
  <2>2. QED
    BY <1>2, <2>1 DEF Inv, Alone, Steps, At, on
<1>9. Rows' /\ Listed'
  BY DEF CreateDeposit, Inv, Rows, Listed, rows, world, ledger, Credited, Credits
<1>10. QED
  BY <1>5, <1>7, <1>8, <1>9 DEF Inv

LEMMA InsertIntentInv == ASSUME Inv, NEW w \in Handlers, InsertIntent(w) PROVE Inv'
<1>1. TypeOK /\ Relies(w) /\ Rows /\ h[w].at \in Labels /\ on(w) \in Intents
  BY AtRunning DEF Inv, InsertIntent, At, Labels, Confirming, Running, on
<1>2. state[on(w)] = "none" /\ charge[on(w)] = "none"
  BY <1>1 DEF InsertIntent, Relies, Rows
<1>3. Goes(w, {"request"}) /\ h'[w].at = "request"
  BY <1>1, GotoGoes DEF InsertIntent, Labels
<1>4. \A i \in Intents : state'[i] = IF i = on(w) THEN "CREATED" ELSE state[i]
  BY <1>1 DEF InsertIntent, SetState, TypeOK
<1>5. Grows
  BY <1>4 DEF InsertIntent, Grows, world, ledger, Credited, Credits
<1>6. \A v \in Handlers \ {w} : h[v].at \in {"insert", "request"} => on(v) \in Intents \ {on(w)}
  <2>1. ASSUME NEW v \in Handlers \ {w}, h[v].at \in {"insert", "request"}, on(v) = on(w)
        PROVE  FALSE
    BY <1>2, <2>1 DEF InsertIntent, Inv, Alone, Relies, At, Labels
  <2>2. \A v \in Handlers : h[v].at \in {"insert", "request"} => on(v) \in Intents
    BY <1>1, AtRunning DEF Labels, Running, on
  <2>3. QED
    BY <2>1, <2>2
<1>7. \A v \in Handlers \ {w} : h[v].at \in {"insert", "request"} => Untouched(on(v))
  BY <1>4, <1>6 DEF InsertIntent, Untouched, world
<1>8. TypeOK'
  BY <1>1, <1>3 DEF InsertIntent, SetState, TypeOK, Goes, Steps, Running, Labels, Tasks, Saws,
                    States, world, bounds
<1>9. Relies(w)'
  <2>1. on(w)' = on(w) /\ h'[w].task = h[w].task
    BY <1>3 DEF Goes, on
  <2>2. QED
    BY <1>1, <1>2, <1>3, <1>4, <2>1 DEF InsertIntent, Relies, At, world
<1>10. \A v \in Handlers : Relies(v)'
  BY <1>3, <1>5, <1>7, <1>9, OthersRely DEF Goes, Steps
<1>11. Alone'
  BY <1>3, <1>6 DEF Inv, Alone, Goes, Steps, At, on
<1>12. Rows' /\ Listed'
  BY <1>1, <1>2, <1>4 DEF InsertIntent, Inv, TypeOK, Rows, Listed, world, ledger, Credited, Credits
<1>13. QED
  BY <1>8, <1>10, <1>11, <1>12 DEF Inv

LEMMA JobStartInv == ASSUME Inv, JobStart PROVE Inv'
<1>1. TypeOK /\ Job \in Handlers
  BY DEF Inv, Handlers
<1>2. h'[Job] = [at |-> "next"] /\ \A v \in Handlers \ {Job} : h'[v] = h[v]
  BY <1>1, HandlerTypes DEF JobStart, JobAgain
<1>3. todo' \subseteq Intents \X Open /\ \A t \in todo' : state[t[1]] # "none"
  BY DEF JobStart, Open
<1>4. TypeOK'
  BY <1>1, <1>3 DEF JobStart, JobAgain, TypeOK, rows, world, bounds
<1>5. \A v \in Handlers : Relies(v)'
  <2>1. Relies(Job)'
    BY <1>2 DEF Relies, At, Labels, Confirming
  <2>2. ASSUME NEW v \in Handlers \ {Job} PROVE Relies(v)'
    <3>1. Relies(v) /\ on(v)' = on(v)
      BY <1>2 DEF Inv, on
    <3>2. QED
      BY <1>2, <3>1 DEF JobStart, Relies, At, rows, world, ledger, Credited, Credits
  <2>3. QED
    BY <2>1, <2>2
<1>6. Alone'
  BY <1>1, <1>2 DEF Inv, Alone, At, on
<1>7. Rows' /\ Listed'
  BY <1>3 DEF JobStart, Inv, Rows, Listed, rows, world, ledger, Credited, Credits
<1>8. QED
  BY <1>4, <1>5, <1>6, <1>7 DEF Inv

LEMMA JobNextInv == ASSUME Inv, JobNext PROVE Inv'
<1>1. TypeOK /\ Job \in Handlers
  BY DEF Inv, Handlers
<1>2. TypesOfRows /\ UNCHANGED <<rows, charge, ledger>>
  BY <1>1 DEF JobNext, TypeOK, TypesOfRows, rows, world, bounds
<1>3. CASE todo = {} /\ Finish(Job) /\ UNCHANGED todo
  <2>1. Steps(Job, {}) /\ h'[Job] = Idle
    BY <1>1, <1>3, FinishGoes DEF Goes
  <2>2. Relies(Job)'
    BY <2>1 DEF Relies, At, Idle, Labels, Confirming
  <2>3. QED
    BY <1>1, <1>2, <1>3, <2>1, <2>2, ReadingKeeps
<1>4. ASSUME NEW t \in todo, NEW l \in {"read", "expire"}, todo' = todo \ {t},
             h' = [h EXCEPT ![Job] = [at |-> l, task |-> "job", on |-> t[1], saw |-> t[2]]]
      PROVE  Inv'
  <2>1. t[1] \in Intents /\ t[2] \in States /\ state[t[1]] # "none"
    BY <1>1, <1>4 DEF TypeOK, Open, States, Inv, Listed
  <2>2. [at |-> l, task |-> "job", on |-> t[1], saw |-> t[2]] \in Running
    BY <2>1 DEF Running, Labels, Confirming, Tasks, Saws
  <2>3. Steps(Job, {l}) /\ h'[Job] = [at |-> l, task |-> "job", on |-> t[1], saw |-> t[2]]
    BY <1>1, <1>4, <2>2, HandlerTypes DEF Steps
  <2>4. Relies(Job)'
    BY <1>2, <2>1, <2>3 DEF Relies, At, on, rows
  <2>5. QED
    BY <1>1, <1>2, <1>4, <2>3, <2>4, ReadingKeeps
<1>5. QED
  BY <1>3, <1>4 DEF JobNext

LEMMA ThrowInv == ASSUME Inv, NEW w \in Handlers, Throw(w) PROVE Inv'
<1>1. TypeOK /\ Relies(w)
  BY DEF Inv
<1>2. UNCHANGED <<rows, charge, ledger>> /\ TypesOfRows /\ todo' \subseteq todo
  BY <1>1 DEF Throw, CanFail, TypeOK, TypesOfRows, rows, world
<1>3. ASSUME NEW l \in {"expire", "reopen"}, Goto(w, l), h[w].at \in Confirming \cup {"record"}
      PROVE  Inv'
  <2>1. h[w].at \in Labels /\ h[w].at # "insert" /\ l \in Labels
    BY <1>3 DEF Labels, Confirming
  <2>2. Goes(w, {l})
    BY <1>1, <1>3, <2>1, GotoGoes
  <2>3. state[on(w)] # "none"
    BY <1>1, <2>1 DEF Relies
  <2>4. Relies(w)'
    BY <1>1, <1>2, <1>3, <2>1, <2>2, <2>3, ReliesNext DEF rows
  <2>5. QED
    BY <1>2, <1>3, <2>2, <2>4, ReadingKeeps DEF Goes
<1>4. CASE Finish(w)
  <2>1. Steps(w, {}) /\ h'[w] = Idle
    BY <1>1, <1>4, FinishGoes DEF Goes
  <2>2. Relies(w)'
    BY <2>1 DEF Relies, At, Idle, Labels, Confirming
  <2>3. QED
    BY <1>2, <2>1, <2>2, ReadingKeeps
<1>5. QED
  BY <1>3, <1>4 DEF Throw

LEMMA CrashInv == ASSUME Inv, Crash PROVE Inv'
<1>1. TypeOK'
  BY DEF Inv, Crash, CanFail, TypeOK, rows, world
<1>2. \A w \in Handlers : h'[w] = Idle
  BY DEF Crash
<1>3. (\A w \in Handlers : Relies(w)') /\ Alone'
  BY <1>2 DEF Relies, Alone, At, Idle, Labels, Confirming
<1>4. Rows' /\ Listed'
  BY DEF Inv, Crash, Rows, Listed, rows, world, ledger, Credited, Credits
<1>5. QED
  BY <1>1, <1>3, <1>4 DEF Inv

\* The clock and the payer.
LEMMA WorldInv ==
  ASSUME Inv, NEW i \in Intents, Elapse(i) \/ PayerAnswers(i)
  PROVE  Inv'
<1>1. UNCHANGED <<rows, ledger, handler, bounds>> /\ TypeOK'
  BY DEF Elapse, PayerAnswers, Inv, TypeOK, rows, handler, bounds
<1>2. \A j \in Intents : charge'[j] = charge[j] \/ (charge[j] = "pending" /\ charge'[j] \in {"paid", "failed"})
  BY DEF Elapse, PayerAnswers, Inv, TypeOK
<1>3. Grows /\ \A j \in Intents : Untouched(j)
  BY <1>1, <1>2 DEF Grows, Untouched, rows, ledger, handler, Credited, Credits
<1>4. \A v \in Handlers : Relies(v)'
  <2>1. \A v \in Handlers : h[v].at \in {"insert", "request"} => on(v) \in Intents
    BY AtRunning DEF Inv, Labels, Running, on
  <2>2. QED
    BY <1>1, <1>3, <2>1, OthersRely DEF handler
<1>5. Alone' /\ Listed'
  BY <1>1 DEF Inv, Alone, Listed, At, on, handler, rows
<1>6. Rows'
  BY <1>1, <1>2 DEF Inv, Rows, rows, ledger, Credited, Credits
<1>7. QED
  BY <1>1, <1>4, <1>5, <1>6 DEF Inv

LEMMA NextInv == Inv /\ [Next]_vars => Inv'
<1> SUFFICES ASSUME Inv, [Next]_vars PROVE Inv'
  OBVIOUS
<1>1. ASSUME NEW w \in Workers, NEW i \in Intents,
             CreateDeposit(w, i) \/ Webhook(w, i) \/ AdminRecheck(w, i) \/ ForceComplete(w, i)
      PROVE  Inv'
  BY <1>1, CreateDepositInv, StartsInv
<1>2. ASSUME NEW w \in Handlers, Step(w) PROVE Inv'
  BY <1>2, InsertIntentInv, RequestCollectionInv, RecordRequestInv, ReopenInv, ReadIntentInv,
     QueryStatusInv, CreditDepositInv, SettleIntentInv, FailIntentInv, PatchStatusInv DEF Step
<1>3. CASE RunJob
  BY <1>2, <1>3, JobStartInv, JobNextInv, ExpireInv DEF RunJob, Handlers
<1>4. CASE Crash \/ \E w \in Handlers : Throw(w)
  BY <1>4, CrashInv, ThrowInv
<1>5. CASE \E i \in Intents : Elapse(i) \/ PayerAnswers(i)
  BY <1>5, WorldInv
<1>6. CASE UNCHANGED vars
  BY <1>6 DEF Inv, TypeOK, Relies, Alone, Rows, Listed, At, on, Credited, Credits,
              vars, rows, world, ledger, handler, bounds
<1>7. QED
  BY <1>1, <1>2, <1>3, <1>4, <1>5, <1>6 DEF Next, Request, Handlers

-----------------------------------------------------------------------------
(* The theorems                                                            *)

LEMMA InvHolds == Spec => []Inv
BY InitInv, NextInv, PTL DEF Spec

\* Every variable of Deposits keeps its type, in every interleaving of the handlers.
THEOREM TypesHold == Spec => []TypeOK
<1>1. Inv => TypeOK
  BY DEF Inv
<1>2. QED
  BY <1>1, InvHolds, PTL

\* The golden rule (payments.service.ts:69-72): a deposit is credited only when
\* the provider has collected it or its completion was forced by two people.
THEOREM OnlyCollectedIsCredited == Spec => []CreditedWasCollected
<1>1. Inv => CreditedWasCollected
  BY DEF Inv, Rows, CreditedWasCollected
<1>2. QED
  BY <1>1, InvHolds, PTL

\* A user who reads PAID has the money, whatever stops between the ledger and the
\* intent (creditDeposit).
THEOREM PaidMeansCredited == Spec => []PaidIsCredited
<1>1. Inv => PaidIsCredited
  BY DEF Inv, Rows, PaidIsCredited
<1>2. QED
  BY <1>1, InvHolds, PTL

\* No error, stale answer or late callback turns collected money into a FAILED
\* intent (createDeposit's catch, confirmDeposit).
THEOREM NothingCollectedFails == Spec => []CollectedNeverFailed
<1>1. Inv => CollectedNeverFailed
  BY DEF Inv, Rows, CollectedNeverFailed
<1>2. QED
  BY <1>1, InvHolds, PTL

\* A deposit credited between the job's findMany and its update is not expired
\* (expireStaleIntents): the update tests the state again.
THEOREM PaidNeverExpires == Spec => ExpiryNeverBuriesPaid
<1>1. ASSUME TypeOK, Next, NEW i \in Intents, state[i] = "PAID", state'[i] = "EXPIRED"
      PROVE  FALSE
  <2>1. CASE Expire
    BY <1>1, <2>1 DEF Expire, SetState, TypeOK, Open
  <2>2. CASE \E w \in Handlers : RecordRequest(w) \/ Reopen(w) \/ InsertIntent(w)
                                  \/ SettleIntent(w) \/ FailIntent(w)
    BY <1>1, <2>2 DEF RecordRequest, Reopen, InsertIntent, SettleIntent, FailIntent, SetState, TypeOK
  <2>3. CASE UNCHANGED state
    BY <1>1, <2>3
  <2>4. QED
    BY <1>1, <2>1, <2>2, <2>3 DEF Next, Request, Step, RunJob, CreateDeposit, Webhook, AdminRecheck,
       ForceComplete, RequestCollection, ReadIntent, QueryStatus, CreditDeposit, PatchStatus,
       JobStart, JobNext, Throw, Crash, Elapse, PayerAnswers, Handlers, rows
<1>2. TypeOK /\ [Next]_vars => [\A i \in Intents : state[i] = "PAID" => state'[i] # "EXPIRED"]_vars
  BY <1>1 DEF vars
<1>3. QED
  BY <1>2, TypesHold, PTL DEF Spec, ExpiryNeverBuriesPaid

-----------------------------------------------------------------------------
(* Money: the balance is a sum over the deposits, and every posting fits   *)
(* what the ledger promises.                                               *)

Total(S) == SumFunctionOnSet(Amount, S)
CreditedSet == {i \in Intents : Credited(i)}
Both == {"available", "clearing"}
Credit(i) == [key |-> <<"deposit", i>>, rev |-> FALSE, delta |-> Movement(i)]

\* The journal holds credits of deposits and nothing else, one for each deposit.
Money ==
  /\ \A r \in journal : \E i \in Intents : r = Credit(i)
  /\ balance \in [Both -> Int]
  /\ balance["available"] = Total(CreditedSet)

\* A step posts the credit of one deposit that has none yet, or leaves the ledger alone.
Posts(i) ==
  /\ ~Credited(i)
  /\ journal' = journal \cup {Credit(i)}
  /\ balance' = [a \in Both |-> balance[a] + Movement(i)[a]]

LEMMA CreditFields ==
  ASSUME NEW i \in Intents
  PROVE  /\ Credit(i).key = <<"deposit", i>> /\ Credit(i).key[2] = i
         /\ Credit(i).rev = FALSE /\ Credit(i).delta = Movement(i)
BY DEF Credit

LEMMA MovementBalances ==
  ASSUME NEW i \in Intents
  PROVE  /\ Movement(i) \in [Both -> Int]
         /\ Movement(i)["available"] = Amount[i] /\ Movement(i)["clearing"] = -Amount[i]
         /\ SumFunctionOnSet(Movement(i), Both) = 0
<1> DEFINE d == Movement(i)
<1>1. d \in [Both -> Int] /\ d["available"] = Amount[i] /\ d["clearing"] = -Amount[i]
  BY DEF Movement, Both
<1>2. Both = {"available"} \cup {"clearing"} /\ {"available"} = {} \cup {"available"}
  BY DEF Both
<1>3. IsFiniteSet({}) /\ IsFiniteSet({"available"})
  BY FS_EmptySet, FS_Singleton
<1>4. d["available"] \in Int /\ d["clearing"] \in Int
  BY <1>1 DEF Both
<1> HIDE DEF d
<1>5. SumFunctionOnSet(d, {"available"}) = SumFunctionOnSet(d, {}) + d["available"]
  BY <1>2, <1>3, <1>4, SumAdd
<1>6. SumFunctionOnSet(d, Both) = SumFunctionOnSet(d, {"available"}) + d["clearing"]
  BY <1>2, <1>3, <1>4, SumAdd
<1>7. SumFunctionOnSet(d, Both) = 0
  BY <1>1, <1>4, <1>5, <1>6, SumOfNothing
<1>8. QED
  BY <1>1, <1>7 DEF d

LEMMA OnlyCreditPosts ==
  ASSUME Inv, Money, [Next]_vars
  PROVE  UNCHANGED ledger \/ \E i \in Intents : Posts(i)
<1>1. ASSUME NEW w \in Handlers, CreditDeposit(w)
      PROVE  UNCHANGED ledger \/ \E i \in Intents : Posts(i)
  <2>1. PICK i \in Intents : i = on(w)
    BY <1>1, AtRunning DEF Inv, CreditDeposit, At, Labels, Confirming, Running, on
  <2>2. \/ UNCHANGED <<journal, balance>>
        \/ /\ ~\E r \in journal : r.key = <<"deposit", i>>
           /\ journal' = journal \cup {Credit(i)}
           /\ balance' = [a \in Both |-> balance[a] + Movement(i)[a]]
    BY <1>1, <2>1 DEF CreditDeposit, Book!Post, Book!Posted, DepositKey, Credit, Both
  <2>3. Credited(i) => \E r \in journal : r.key = <<"deposit", i>>
    <3>1. ASSUME NEW r \in journal, r.key[2] = i
          PROVE  r.key = <<"deposit", i>>
      <4>1. PICK j \in Intents : r = Credit(j)
        BY DEF Money
      <4>2. QED
        BY <3>1, <4>1, CreditFields
    <3>2. QED
      BY <3>1 DEF Credited, Credits
  <2>4. QED
    BY <2>2, <2>3 DEF Posts, ledger
<1>2. QED
  BY <1>1 DEF Next, Request, Step, RunJob, CreateDeposit, Webhook, AdminRecheck, ForceComplete,
     InsertIntent, RequestCollection, RecordRequest, Reopen, ReadIntent, QueryStatus,
     SettleIntent, FailIntent, PatchStatus, JobStart, JobNext, Expire, Throw, Crash, Elapse,
     PayerAnswers, Handlers, vars

LEMMA CreditedMoves ==
  ASSUME NEW i \in Intents, Posts(i)
  PROVE  CreditedSet' = CreditedSet \cup {i} /\ i \in Intents \ CreditedSet
<1>1. \A j \in Intents : Credited(j)' <=> Credited(j) \/ j = i
  BY CreditFields DEF Posts, Credited, Credits
<1>2. QED
  BY <1>1 DEF Posts, CreditedSet

LEMMA TotalIsNat == ASSUME NEW S \in SUBSET Intents PROVE Total(S) \in Nat
<1>1. IsFiniteSet(S) /\ \A i \in S : Amount[i] \in Nat
  BY FS_Subset
<1>2. QED
  BY <1>1, SumType DEF Total

LEMMA MoneyInit == Init => Money
<1> SUFFICES ASSUME Init PROVE Money
  OBVIOUS
<1>1. CreditedSet = {} /\ journal = {} /\ balance \in [Both -> Int] /\ balance["available"] = 0
  BY DEF Init, Book!Init, CreditedSet, Credited, Credits, Both
<1>2. QED
  BY <1>1, SumOfNothing DEF Money, Total

LEMMA MoneyNext == Inv /\ Money /\ [Next]_vars => Money'
<1> SUFFICES ASSUME Inv, Money, [Next]_vars PROVE Money'
  OBVIOUS
<1>1. CASE UNCHANGED ledger
  BY <1>1 DEF Money, ledger, CreditedSet, Credited, Credits
<1>2. ASSUME NEW i \in Intents, Posts(i)
      PROVE  Money'
  <2>1. CreditedSet' = CreditedSet \cup {i} /\ i \in Intents \ CreditedSet
    BY <1>2, CreditedMoves
  <2>2. Total(CreditedSet') = Total(CreditedSet) + Amount[i]
    <3>1. IsFiniteSet(CreditedSet) /\ \A x \in CreditedSet \cup {i} : Amount[x] \in Int
      BY FS_Subset DEF CreditedSet
    <3>2. QED
      BY <2>1, <3>1, SumAdd DEF Total
  <2>3. balance' \in [Both -> Int] /\ balance'["available"] = balance["available"] + Amount[i]
    BY <1>2, MovementBalances DEF Posts, Money, Both
  <2>4. \A r \in journal' : \E j \in Intents : r = Credit(j)
    BY <1>2 DEF Posts, Money
  <2>5. QED
    BY <2>1, <2>2, <2>3, <2>4 DEF Money, Total
<1>3. QED
  BY <1>1, <1>2, OnlyCreditPosts

LEMMA MoneyHolds == Spec => [](Inv /\ Money)
<1>1. Init => Inv /\ Money
  BY InitInv, MoneyInit
<1>2. Inv /\ Money /\ [Next]_vars => (Inv /\ Money)'
  BY NextInv, MoneyNext
<1>3. QED
  BY <1>1, <1>2, PTL DEF Spec

\* A deposit is credited once, by however many of the creation, the callbacks, the
\* rechecks, the job and a forced completion (creditDeposit, LedgerKeys.deposit).
THEOREM CreditsOnce == Spec => []OneCreditPerDeposit
<1>1. Money => OneCreditPerDeposit
  BY DEF Money, Total, CreditedSet, OneCreditPerDeposit
<1>2. QED
  BY <1>1, MoneyHolds, PTL

\* The sums of the promise are those of this module.
LEMMA SamePromise ==
  /\ \A f, S : Promise!SumFunctionOnSet(f, S) = SumFunctionOnSet(f, S)
  /\ \A f : Promise!SumFunction(f) = SumFunction(f)
BY Zenon DEF Promise!SumFunctionOnSet, Promise!SumFunction, Promise!FoldFunctionOnSet,
   Promise!MapThenFoldSet, SumFunctionOnSet, SumFunction, FoldFunctionOnSet, MapThenFoldSet

\* Every deposit posts what the ledger promises to journal: the credit of a deposit
\* appends one balanced posting under a key of its own, and nobody gets below zero.
THEOREM PostsFit == Spec => PostsFitThePromise
<1>1. Init => Promise!Init
  BY DEF Init, Book!Init, Promise!Init
<1>2. ASSUME Inv, Money, Money', [Next]_vars
      PROVE  [Promise!Apply]_<<journal, balance>>
  <2>1. ASSUME NEW i \in Intents, Posts(i)
        PROVE  Promise!Apply
    <3> DEFINE p == Credit(i)
               d == Movement(i)
               val(a) == [q \in {p} |-> q.delta[a]]
    <3>1. p.key = <<"deposit", i>> /\ p.rev = FALSE /\ p.delta = d /\ p.key[2] = i
      BY CreditFields
    <3>2. d \in [Both -> Int] /\ SumFunctionOnSet(d, Both) = 0
      BY MovementBalances
    <3>3. p \notin journal
      BY <2>1, <3>1 DEF Posts, Credited, Credits
    <3>4. journal' \ journal = {p}
      BY <2>1, <3>3 DEF Posts
    <3>5. ASSUME NEW q \in journal', q.key = p.key
          PROVE  q = p
      <4>1. PICK j \in Intents : q = Credit(j)
        BY <1>2 DEF Money
      <4>2. q.key[2] = j
        BY <4>1, CreditFields
      <4>3. QED
        BY <3>1, <3>5, <4>1, <4>2
    <3> HIDE DEF p, d
    <3>6. ASSUME NEW a \in Both
          PROVE  SumFunction(val(a)) = d[a]
      <4> DEFINE f == val(a)
      <4>1. DOMAIN f = {p} /\ f[p] = d[a] /\ d[a] \in Int
        BY <3>1, <3>2
      <4> HIDE DEF f
      <4>2. SumFunctionOnSet(f, {p}) = f[p] + SumFunctionOnSet(f, {p} \ {p})
        BY <4>1, SumRemove, FS_Singleton
      <4>3. {p} \ {p} = {}
        OBVIOUS
      <4>4. SumFunctionOnSet(f, {p}) = d[a]
        BY <4>1, <4>2, <4>3, SumOfNothing
      <4>5. SumFunction(f) = d[a]
        BY <4>1, <4>4 DEF SumFunction
      <4>6. QED
        BY <4>5 DEF f
    <3>7. balance' = [a \in Both |-> balance[a] + SumFunction(val(a))]
      <4>1. balance' = [a \in Both |-> balance[a] + d[a]]
        BY <2>1 DEF Posts, d
      <4> HIDE DEF val
      <4>2. QED
        BY <3>6, <4>1
    <3>8. balance'["available"] >= 0
      <4>1. Total(CreditedSet') \in Nat
        BY TotalIsNat DEF CreditedSet
      <4>2. balance'["available"] = Total(CreditedSet')
        BY <1>2 DEF Money, Total
      <4>3. QED
        BY <4>1, <4>2
    <3>9. Promise!Balanced(p) /\ Promise!Fits(p, journal')
      <4>1. Promise!Balanced(p)
        BY <3>1, <3>2, SamePromise DEF Promise!Balanced, Both
      <4>2. Promise!Fits(p, journal')
        BY <3>1, <3>5 DEF Promise!Fits
      <4>3. QED
        BY <4>1, <4>2
    <3>10. journal \subseteq journal'
      BY <2>1 DEF Posts
    <3>11. QED
      <4>1. balance' = [a \in Both |-> balance[a]
                                      + Promise!SumFunction([q \in {p} |-> q.delta[a]])]
        BY <3>7, SamePromise
      <4>2. QED
        BY <3>4, <3>8, <3>9, <3>10, <4>1 DEF Promise!Apply, Both
  <2>2. CASE UNCHANGED ledger
    BY <2>2 DEF ledger
  <2>3. QED
    BY <1>2, <2>1, <2>2, OnlyCreditPosts
<1>3. QED
  BY <1>1, <1>2, MoneyHolds, PTL DEF Spec, PostsFitThePromise, Promise!Spec
=============================================================================
