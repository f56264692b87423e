--------------------------- MODULE SessionsProofs ---------------------------
(***************************************************************************)
(* What holds of the codes and the sessions of a user for every number of  *)
(* handlers, codes, sessions and calls, and every cap: the types, the cap  *)
(* on guesses, one successor per refresh token, and what a change of the   *)
(* password leaves alive.                                                  *)
(***************************************************************************)
EXTENDS Sessions, TLAPS, FiniteSetTheorems

USE OtpAssumption, SessionsAssumption

Ops == {"waiting", "createCode", "attempt", "compare", "verified",
        "createUser", "issue", "rotate", "change"}
Jobs == [op : Ops, code : CodeIds \cup {0}, goal : Purposes \cup {""},
         session : SessionIds \cup {0}, tv : Nat, pwd : Nat]

\* What a handler relies on at its next step: the rows it works on exist, and the
\* session it holds knows the password the handler read, or was late itself.
Relies(h) ==
    /\ job[h].op \in {"attempt", "compare"} =>
          job[h].code \in CodeIds /\ codes[job[h].code].purpose # "NONE"
    /\ job[h].op = "createCode" => job[h].goal \in Purposes
    /\ job[h].op = "rotate" => job[h].session # 0
    /\ job[h].op \in {"rotate", "issue"} /\ job[h].session # 0 =>
          /\ sessions[job[h].session].state # "NONE"
          /\ sessions[job[h].session].pwd = job[h].pwd \/ sessions[job[h].session].late
    /\ job[h].op = "issue" /\ job[h].session # 0 =>
          ~Live(job[h].session) /\ sessions[job[h].session].children = 0

\* One handler at most is about to create the successor of a session.
OneHeir ==
    \A g, h \in Handlers :
        /\ job[g].op = "issue" /\ job[h].op = "issue"
        /\ job[g].session = job[h].session /\ job[g].session # 0
        => g = h

SessionRows ==
    \A s \in SessionIds :
        /\ sessions[s].children <= 1
        /\ sessions[s].children = 1 => ~Live(s)
        /\ Live(s) => sessions[s].pwd = account.pwd \/ sessions[s].late
        /\ sessions[s].state = "NONE" => sessions[s] = NoSession

\* An attempt is claimed before its guess is compared.
Comparing(c) == {h \in Handlers : job[h].op = "compare" /\ job[h].code = c}
CodeRows ==
    \A c \in CodeIds :
        /\ codes[c].purpose = "NONE" => codes[c] = NoCode
        /\ IsFiniteSet(Comparing(c))
        /\ guesses[c] + Cardinality(Comparing(c)) <= codes[c].attempts
        /\ codes[c].attempts <= MaxAttempts
        /\ used[c] = IF codes[c].consumed THEN 1 ELSE 0

Types == TypeOK /\ job \in [Handlers -> Jobs]

\* The jobs and sessions, whatever the codes; the codes, whatever the sessions.
JobInv == Types /\ (\A h \in Handlers : Relies(h)) /\ OneHeir /\ SessionRows
Inv == JobInv /\ CodeRows

LEMMA InitInv == Init => Inv
<1> SUFFICES ASSUME Init PROVE Inv
  OBVIOUS
<1>1. TypeOK
  <2>1. account \in [exists : BOOLEAN, pwd : Nat, tv : Nat, blocked : BOOLEAN]
    <3>1. /\ account.exists \in BOOLEAN /\ account.pwd \in {0} /\ account.tv \in {0}
          /\ account.blocked \in {FALSE}
      BY Zenon DEF Init
    <3>2. account.blocked \in BOOLEAN
      BY <3>1, Zenon
    <3>3. account = [exists |-> account.exists, pwd |-> account.pwd, tv |-> account.tv,
                     blocked |-> account.blocked]
      BY DEF Init
    <3>4. QED
      BY <3>1, <3>2, <3>3
  <2>2. codes \in [CodeIds -> [purpose : Purposes \cup {"NONE"}, attempts : Nat,
                              consumed : BOOLEAN, expired : BOOLEAN]]
    BY DEF Init, OtpInit, NoCode
  <2>3. QED
    BY <2>1, <2>2 DEF Init, OtpInit, TypeOK, OtpTypeOK, NoSession
<1>2. job \in [Handlers -> Jobs]
  BY DEF Init, OtpInit, Jobs, Ops, Waiting
<1>w. \A h \in Handlers : job[h].op = "waiting"
  BY DEF Init, OtpInit, Waiting
<1>3. (\A h \in Handlers : Relies(h)) /\ OneHeir
  BY <1>w DEF Relies, OneHeir
<1>4. SessionRows
  BY DEF Init, SessionRows, Live, NoSession
<1>5. \A c \in CodeIds : Comparing(c) = {}
  BY <1>w DEF Comparing
<1>6. \A c \in CodeIds : codes[c] = NoCode /\ guesses[c] = 0 /\ used[c] = 0
  BY DEF Init, OtpInit
<1>7. CodeRows
  BY <1>5, <1>6, FS_EmptySet DEF CodeRows, NoCode
<1>8. QED
  BY <1>1, <1>2, <1>3, <1>4, <1>7 DEF Inv, JobInv, Types

----------------------------------------------------------------------------
(* The jobs and the sessions. *)

\* A step of h that leaves the sessions and the password, and takes no row away.
LEMMA JobStep ==
  ASSUME JobInv, NEW h \in Handlers, NEW next \in Jobs,
         job' = [job EXCEPT ![h] = next], TypeOK', UNCHANGED sessions,
         account'.pwd = account.pwd,
         \A c \in CodeIds : codes[c].purpose # "NONE" => codes'[c].purpose # "NONE",
         next.op # "issue" \/ next.session = 0,
         Relies(h)'
  PROVE  JobInv'
<1>1. Types'
  BY DEF JobInv, Types
<1>2. job'[h] = next /\ \A g \in Handlers \ {h} : job'[g] = job[g]
  BY DEF JobInv, Types
<1>3. ASSUME NEW g \in Handlers \ {h}
      PROVE  Relies(g)'
  <2>1. Relies(g) /\ job'[g] = job[g]
    BY <1>2 DEF JobInv
  <2>2. job'[g].op \in {"attempt", "compare"} =>
           job'[g].code \in CodeIds /\ codes'[job'[g].code].purpose # "NONE"
    <3>1. job[g].op \in {"attempt", "compare"} =>
             job[g].code \in CodeIds /\ codes[job[g].code].purpose # "NONE"
      BY <2>1 DEF Relies
    <3>2. QED
      BY <2>1, <3>1
  <2>3. QED
    BY <2>1, <2>2 DEF Relies, Live
<1>4. OneHeir'
  BY <1>2 DEF JobInv, OneHeir
<1>5. SessionRows'
  BY DEF JobInv, SessionRows, Live
<1>6. QED
  BY <1>1, <1>3, <1>4, <1>5 DEF JobInv

\* The same, without a step of a handler: a code expires, the account is blocked.
LEMMA JobsStay ==
  ASSUME JobInv, TypeOK', UNCHANGED <<job, sessions>>, account'.pwd = account.pwd,
         \A c \in CodeIds : codes[c].purpose # "NONE" => codes'[c].purpose # "NONE"
  PROVE  JobInv'
<1>1. \A g \in Handlers : Relies(g)'
  BY DEF JobInv, Relies, Live
<1>2. OneHeir' /\ SessionRows'
  BY DEF JobInv, OneHeir, SessionRows, Live
<1>3. QED
  BY <1>1, <1>2 DEF JobInv, Types

LEMMA BeginMoves ==
  ASSUME TypeOK, NEW h \in Handlers, NEW next, Begin(h, next)
  PROVE  /\ job' = [job EXCEPT ![h] = next] /\ calls' \in 0 .. MaxCalls
         /\ job[h] = Waiting
BY DEF TypeOK, OtpTypeOK, Begin

LEMMA ThenMoves ==
  ASSUME Types, NEW h \in Handlers, NEW op \in Ops, Then(h, op)
  PROVE  /\ [job[h] EXCEPT !.op = op] \in Jobs
         /\ job' = [job EXCEPT ![h] = [job[h] EXCEPT !.op = op]]
         /\ calls' = calls
BY DEF Types, Then, Jobs

LEMMA WaitingIsJob == Waiting \in Jobs
BY DEF Waiting, Jobs, Ops

LEMMA EndMoves ==
  ASSUME Types, NEW h \in Handlers, End(h)
  PROVE  /\ job' = [job EXCEPT ![h] = Waiting] /\ calls' = calls
         /\ job'[h].op = "waiting"
BY DEF Types, End, Waiting

\* A handler that ends relies on nothing.
LEMMA EndStep ==
  ASSUME JobInv, NEW h \in Handlers, End(h), TypeOK', UNCHANGED sessions,
         account'.pwd = account.pwd,
         \A c \in CodeIds : codes[c].purpose # "NONE" => codes'[c].purpose # "NONE"
  PROVE  JobInv'
<1>1. job' = [job EXCEPT ![h] = Waiting] /\ job'[h].op = "waiting"
  BY EndMoves DEF JobInv
<1>2. Relies(h)'
  BY <1>1 DEF Relies
<1>3. Waiting.op = "waiting"
  BY DEF Waiting
<1>4. QED
  BY <1>1, <1>2, <1>3, WaitingIsJob, JobStep

\* A call that holds what it read, and works on a code or a session.
LEMMA HoldingIsJob ==
  ASSUME TypeOK, NEW op \in Ops, NEW s \in SessionIds \cup {0}
  PROVE  /\ Holding(op, s) \in Jobs
         /\ Holding(op, s).op = op /\ Holding(op, s).session = s
         /\ Holding(op, s).pwd = account.pwd
BY DEF TypeOK, Holding, Waiting, Jobs

OtpRows == [purpose : Purposes \cup {"NONE"}, attempts : Nat, consumed : BOOLEAN, expired : BOOLEAN]

LEMMA RowsStayTyped ==
  ASSUME TypeOK, NEW c \in CodeIds, NEW row \in OtpRows, codes' = [codes EXCEPT ![c] = row]
  PROVE  /\ codes' \in [CodeIds -> OtpRows]
         /\ codes'[c] = row /\ \A d \in CodeIds \ {c} : codes'[d] = codes[d]
BY DEF TypeOK, OtpTypeOK, OtpRows

LEMMA RowEdits ==
  ASSUME NEW row \in OtpRows
  PROVE  /\ [row EXCEPT !.attempts = @ + 1] \in OtpRows
         /\ [row EXCEPT !.consumed = TRUE] \in OtpRows
         /\ [row EXCEPT !.expired = TRUE] \in OtpRows
<1>1. row.attempts + 1 \in Nat
  BY DEF OtpRows
<1>2. [row EXCEPT !.attempts = @ + 1] \in OtpRows
  BY <1>1 DEF OtpRows
<1>3. [row EXCEPT !.consumed = TRUE] \in OtpRows
  BY DEF OtpRows
<1>4. [row EXCEPT !.expired = TRUE] \in OtpRows
  BY DEF OtpRows
<1>5. QED
  BY <1>2, <1>3, <1>4

LEMMA JobOtpStep ==
  ASSUME JobInv, NEW h \in Handlers, OtpStep(h), UNCHANGED sessionVars
  PROVE  JobInv'
<1> USE DEF sessionVars
<1>t. TypeOK /\ Types
  BY DEF JobInv, Types
<1>k. calls \in 0 .. MaxCalls
  BY <1>t DEF TypeOK, OtpTypeOK
<1>1. ASSUME NEW purpose \in Purposes, RequestCode(h, purpose)
      PROVE  JobInv'
  <2> DEFINE next == [Waiting EXCEPT !.op = "createCode", !.goal = purpose]
  <2>1. next \in Jobs /\ next.op = "createCode" /\ next.goal = purpose
    BY DEF Waiting, Jobs, Ops
  <2>2. job' = [job EXCEPT ![h] = next] /\ calls' \in 0 .. MaxCalls
    BY <1>1, <1>t, BeginMoves DEF RequestCode
  <2>3. TypeOK'
    BY <1>1, <1>t, <2>2 DEF RequestCode, TypeOK, OtpTypeOK
  <2>4. job'[h] = next
    BY <1>t, <2>2 DEF Types
  <2>5. Relies(h)'
    BY <2>1, <2>4 DEF Relies
  <2>6. QED
    BY <1>1, <2>1, <2>2, <2>3, <2>5, JobStep DEF RequestCode
<1>2. CASE CreateCode(h)
  <2>1. job[h].goal \in Purposes
    BY <1>2 DEF JobInv, Relies, CreateCode
  <2>2. PICK c \in CodeIds \ Issued : codes' = [codes EXCEPT ![c] = [NoCode EXCEPT !.purpose = job[h].goal]]
    BY <1>2 DEF CreateCode
  <2>3. [NoCode EXCEPT !.purpose = job[h].goal] \in [purpose : Purposes \cup {"NONE"}, attempts : Nat,
                              consumed : BOOLEAN, expired : BOOLEAN]
    BY <2>1 DEF NoCode
  <2>4. TypeOK'
    BY <1>2, <1>t, <2>2, <2>3 DEF CreateCode, End, TypeOK, OtpTypeOK
  <2>5. \A d \in CodeIds : codes[d].purpose # "NONE" => codes'[d].purpose # "NONE"
    BY <1>t, <2>2 DEF Issued, TypeOK, OtpTypeOK
  <2>6. QED
    BY <1>2, <2>4, <2>5, EndStep DEF CreateCode
<1>3. ASSUME NEW c \in CodeIds, NEW purpose \in Purposes, FindCode(h, c, purpose)
      PROVE  JobInv'
  <2> DEFINE next == [Waiting EXCEPT !.op = "attempt", !.code = c, !.goal = purpose]
  <2>1. next \in Jobs /\ next.op = "attempt" /\ next.code = c
    BY DEF Waiting, Jobs, Ops
  <2>2. job' = [job EXCEPT ![h] = next] /\ calls' \in 0 .. MaxCalls
    BY <1>3, <1>t, BeginMoves DEF FindCode
  <2>3. TypeOK'
    BY <1>3, <1>t, <2>2 DEF FindCode, TypeOK, OtpTypeOK
  <2>4. job'[h] = next
    BY <1>t, <2>2 DEF Types
  <2>5. codes'[c].purpose # "NONE"
    BY <1>3 DEF FindCode, Latest, Issued
  <2>6. Relies(h)'
    BY <2>1, <2>4, <2>5 DEF Relies
  <2>7. QED
    BY <1>3, <2>1, <2>2, <2>3, <2>6, JobStep DEF FindCode
<1>4. CASE ClaimAttempt(h)
  <2> DEFINE c == job[h].code
  <2>1. c \in CodeIds /\ codes[c].purpose # "NONE"
    BY <1>4 DEF JobInv, Relies, ClaimAttempt
  <2>2. CASE AttemptsLeft(c)
    <3>1. codes' = [codes EXCEPT ![c].attempts = @ + 1] /\ Then(h, "compare")
      BY <1>4, <2>2 DEF ClaimAttempt
    <3>2. /\ [job[h] EXCEPT !.op = "compare"] \in Jobs /\ calls' = calls
          /\ job' = [job EXCEPT ![h] = [job[h] EXCEPT !.op = "compare"]]
      BY <3>1, <1>t, ThenMoves DEF Ops
    <3>r. codes[c] \in OtpRows
      BY <1>t, <2>1 DEF TypeOK, OtpTypeOK, OtpRows
    <3>s. codes' \in [CodeIds -> OtpRows] /\ codes' = [codes EXCEPT ![c] = [codes[c] EXCEPT !.attempts = @ + 1]]
      BY <1>t, <2>1, <3>1, <3>r, RowEdits, RowsStayTyped
    <3>3. TypeOK'
      BY <1>4, <1>t, <3>2, <3>s DEF ClaimAttempt, TypeOK, OtpTypeOK, OtpRows
    <3>4. \A d \in CodeIds : codes'[d].purpose = codes[d].purpose
      BY <1>t, <3>r, <3>s DEF TypeOK, OtpTypeOK, OtpRows
    <3>5. job'[h].op = "compare" /\ job'[h].code = c
      BY <1>t, <3>2 DEF Types, Jobs
    <3>6. Relies(h)'
      BY <2>1, <3>4, <3>5 DEF Relies
    <3>7. [job[h] EXCEPT !.op = "compare"].op = "compare"
      BY <1>t DEF Types, Jobs
    <3>8. QED
      BY <3>2, <3>3, <3>4, <3>6, <3>7, JobStep
  <2>3. CASE ~AttemptsLeft(c)
    <3>1. End(h) /\ UNCHANGED <<codes, guesses, used>>
      BY <1>4, <2>3 DEF ClaimAttempt
    <3>2. TypeOK'
      BY <1>t, <3>1 DEF End, TypeOK, OtpTypeOK
    <3>3. QED
      BY <3>1, <3>2, EndStep
  <2>4. QED
    BY <2>2, <2>3
<1>5. CASE WrongGuess(h)
  <2>0. job[h].code \in CodeIds
    BY <1>5 DEF WrongGuess, JobInv, Relies
  <2>m. guesses \in [CodeIds -> Nat]
    BY <1>t DEF TypeOK, OtpTypeOK
  <2>n. guesses[job[h].code] + 1 \in Nat
    <3>1. \A c \in CodeIds : guesses[c] + 1 \in Nat
      BY <2>m
    <3>2. QED
      BY <2>0, <3>1, Zenon
  <2>g. guesses' \in [CodeIds -> Nat]
    BY <1>5, <2>m, <2>n DEF WrongGuess
  <2>c. UNCHANGED <<codes, used, calls>>
    BY <1>5 DEF WrongGuess, End
  <2>1. TypeOK'
    BY <1>t, <2>g, <2>c DEF TypeOK, OtpTypeOK
  <2>2. QED
    BY <1>5, <2>1, EndStep DEF WrongGuess
<1>6. CASE RightGuess(h)
  <2> DEFINE c == job[h].code
  <2>1. c \in CodeIds
    BY <1>6 DEF JobInv, Relies, RightGuess
  <2>2. guesses' \in [CodeIds -> Nat]
    BY <1>6, <1>t, <2>1 DEF RightGuess, TypeOK, OtpTypeOK
  <2>3. CASE ~codes[c].consumed
    <3>1. /\ codes' = [codes EXCEPT ![c].consumed = TRUE]
          /\ used' = [used EXCEPT ![c] = @ + 1] /\ Then(h, "verified")
      BY <1>6, <2>3 DEF RightGuess
    <3>2. /\ [job[h] EXCEPT !.op = "verified"] \in Jobs /\ calls' = calls
          /\ job' = [job EXCEPT ![h] = [job[h] EXCEPT !.op = "verified"]]
      BY <3>1, <1>t, ThenMoves DEF Ops
    <3>r. codes[c] \in OtpRows
      BY <1>t, <2>1 DEF TypeOK, OtpTypeOK, OtpRows
    <3>s. codes' \in [CodeIds -> OtpRows]
      BY <1>t, <2>1, <3>1, <3>r, RowEdits, RowsStayTyped
    <3>3. codes' \in [CodeIds -> [purpose : Purposes \cup {"NONE"}, attempts : Nat,
                              consumed : BOOLEAN, expired : BOOLEAN]]
      BY <3>s DEF OtpRows
    <3>4. TypeOK'
      BY <1>t, <1>k, <2>1, <2>2, <3>1, <3>2, <3>3 DEF TypeOK, OtpTypeOK
    <3>5. \A d \in CodeIds : codes'[d].purpose = codes[d].purpose
      BY <1>t, <3>1 DEF TypeOK, OtpTypeOK
    <3>6. job'[h].op = "verified" /\ [job[h] EXCEPT !.op = "verified"].op = "verified"
      BY <1>t, <3>2 DEF Types, Jobs
    <3>7. Relies(h)'
      BY <3>6 DEF Relies
    <3>8. QED
      BY <3>2, <3>4, <3>5, <3>6, <3>7, JobStep
  <2>4. CASE codes[c].consumed
    <3>1. End(h) /\ UNCHANGED <<codes, used>>
      BY <1>6, <2>4 DEF RightGuess
    <3>2. TypeOK'
      BY <1>t, <2>2, <3>1 DEF End, TypeOK, OtpTypeOK
    <3>3. QED
      BY <3>1, <3>2, EndStep
  <2>5. QED
    BY <2>3, <2>4
<1>7. QED
  BY <1>1, <1>2, <1>3, <1>4, <1>5, <1>6 DEF OtpStep

LEMMA JobExpire ==
  ASSUME JobInv, NEW c \in CodeIds, Expire(c), UNCHANGED sessionVars
  PROVE  JobInv'
<1>t. TypeOK
  BY DEF JobInv, Types
<1>1. codes[c] \in OtpRows /\ [codes[c] EXCEPT !.expired = TRUE].purpose = codes[c].purpose
  BY <1>t DEF TypeOK, OtpTypeOK, OtpRows
<1>2. /\ codes' \in [CodeIds -> OtpRows]
      /\ codes'[c] = [codes[c] EXCEPT !.expired = TRUE]
      /\ \A d \in CodeIds \ {c} : codes'[d] = codes[d]
  BY <1>t, <1>1, RowEdits, RowsStayTyped DEF Expire
<1>3. TypeOK'
  BY <1>t, <1>2 DEF Expire, sessionVars, TypeOK, OtpTypeOK, OtpRows
<1>4. QED
  BY <1>1, <1>2, <1>3, JobsStay DEF Expire, sessionVars

SessionRow == [state : {"NONE", "LIVE", "REVOKED"}, tv : Nat, pwd : Nat,
               late : BOOLEAN, children : Nat]
Account == [exists : BOOLEAN, pwd : Nat, tv : Nat, blocked : BOOLEAN]

\* What a revocation leaves of the rows.
RevokedIn(S) ==
  /\ sessions' \in [SessionIds -> SessionRow]
  /\ \A s \in SessionIds :
        /\ sessions'[s].pwd = sessions[s].pwd /\ sessions'[s].late = sessions[s].late
        /\ sessions'[s].children = sessions[s].children
        /\ sessions'[s].state = IF s \in S /\ Live(s) THEN "REVOKED" ELSE sessions[s].state
        /\ sessions[s] = NoSession => sessions'[s] = NoSession

LEMMA RevokedRows ==
  ASSUME TypeOK, NEW S, sessions' = Revoked(S)
  PROVE  RevokedIn(S)
<1>1. sessions \in [SessionIds -> SessionRow]
  BY DEF TypeOK, SessionRow
<1>2. ASSUME NEW s \in SessionIds
      PROVE  /\ [sessions[s] EXCEPT !.state = "REVOKED"] \in SessionRow
             /\ [sessions[s] EXCEPT !.state = "REVOKED"].state = "REVOKED"
             /\ [sessions[s] EXCEPT !.state = "REVOKED"].pwd = sessions[s].pwd
             /\ [sessions[s] EXCEPT !.state = "REVOKED"].late = sessions[s].late
             /\ [sessions[s] EXCEPT !.state = "REVOKED"].children = sessions[s].children
  BY <1>1 DEF SessionRow
<1>3. \A s \in SessionIds :
          sessions'[s] = IF s \in S /\ Live(s)
                         THEN [sessions[s] EXCEPT !.state = "REVOKED"] ELSE sessions[s]
  BY DEF Revoked
<1>4. sessions' \in [SessionIds -> SessionRow]
  BY <1>1, <1>2 DEF Revoked
<1>5. \A s \in SessionIds : sessions[s] = NoSession => ~Live(s)
  BY DEF NoSession, Live
<1>6. QED
  BY <1>2, <1>3, <1>4, <1>5 DEF RevokedIn

\* Revoking disturbs nobody: a handler about to rotate a session finds it revoked.
LEMMA RevokeKeeps ==
  ASSUME JobInv, NEW S, RevokedIn(S), NEW g \in Handlers, Relies(g), job'[g] = job[g],
         UNCHANGED codes
  PROVE  Relies(g)'
<1>1. job[g].session \in SessionIds \cup {0}
  BY DEF JobInv, Types, Jobs
<1>2. job[g].session \in SessionIds =>
        /\ sessions[job[g].session].state # "NONE" => sessions'[job[g].session].state # "NONE"
        /\ sessions'[job[g].session].pwd = sessions[job[g].session].pwd
        /\ sessions'[job[g].session].late = sessions[job[g].session].late
        /\ sessions'[job[g].session].children = sessions[job[g].session].children
        /\ ~Live(job[g].session) => ~Live(job[g].session)'
  BY DEF RevokedIn, Live
<1>3. QED
  BY <1>1, <1>2 DEF Relies

LEMMA RevokeRows ==
  ASSUME JobInv, NEW S, RevokedIn(S), account'.pwd = account.pwd \/ S = SessionIds
  PROVE  SessionRows'
BY DEF JobInv, SessionRows, RevokedIn, Live, NoSession

LEMMA JobUserSteps ==
  ASSUME JobInv, NEW h \in Handlers,
         Register(h) \/ CreateUser(h) \/ Login(h) \/ LoginByCode(h) \/ ChangePassword(h)
  PROVE  JobInv'
<1> USE DEF sessionVars
<1>t. TypeOK /\ Types
  BY DEF JobInv, Types
<1>1. CASE Register(h)
  <2> DEFINE next == [Waiting EXCEPT !.op = "createUser"]
  <2>1. next \in Jobs /\ next.op = "createUser"
    BY DEF Waiting, Jobs, Ops
  <2>2. job' = [job EXCEPT ![h] = next] /\ calls' \in 0 .. MaxCalls
    BY <1>1, <1>t, BeginMoves DEF Register
  <2>3. TypeOK'
    BY <1>1, <1>t, <2>2 DEF Register, TypeOK, OtpTypeOK
  <2>4. Relies(h)'
    BY <1>t, <2>1, <2>2 DEF Relies, Types
  <2>5. QED
    BY <1>1, <2>1, <2>2, <2>3, <2>4, JobStep DEF Register
<1>2. CASE CreateUser(h)
  <2>1. account \in Account /\ [account EXCEPT !.exists = TRUE] \in Account
        /\ [account EXCEPT !.exists = TRUE].pwd = account.pwd
    BY <1>t DEF TypeOK, Account
  <2>2. account' \in Account /\ account'.pwd = account.pwd
    BY <1>2, <2>1 DEF CreateUser
  <2>3. UNCHANGED <<codes, guesses, used, sessions, blocks, calls>>
    BY <1>2 DEF CreateUser, End
  <2>4. TypeOK'
    BY <1>t, <2>2, <2>3 DEF TypeOK, OtpTypeOK, Account
  <2>5. CASE End(h)
    BY <2>2, <2>3, <2>4, <2>5, EndStep
  <2>6. CASE job' = [job EXCEPT ![h].op = "createCode", ![h].goal = "LOGIN"]
    <3> DEFINE next == [job[h] EXCEPT !.op = "createCode", !.goal = "LOGIN"]
    <3>1. next \in Jobs /\ next.op = "createCode" /\ next.goal = "LOGIN"
      BY <1>t DEF Types, Jobs, Ops, Purposes
    <3>2. job' = [job EXCEPT ![h] = next]
      BY <1>t, <2>6 DEF Types
    <3>3. job'[h] = next
      BY <1>t, <3>2 DEF Types
    <3>4. Relies(h)'
      BY <3>1, <3>3 DEF Relies, Purposes
    <3>5. QED
      BY <2>2, <2>3, <2>4, <3>1, <3>2, <3>4, JobStep
  <2>7. QED
    BY <1>2, <2>5, <2>6 DEF CreateUser
<1>3. ASSUME NEW op \in {"issue", "change"}, UNCHANGED <<codes, guesses, used, sessionVars>>,
             job' = [job EXCEPT ![h] = Holding(op, 0)], calls' \in 0 .. MaxCalls
      PROVE  JobInv'
  <2>1. Holding(op, 0) \in Jobs /\ Holding(op, 0).op = op /\ Holding(op, 0).session = 0
    BY <1>t, HoldingIsJob DEF Ops
  <2>2. TypeOK'
    BY <1>t, <1>3 DEF TypeOK, OtpTypeOK
  <2>3. job'[h] = Holding(op, 0)
    BY <1>t, <1>3 DEF Types
  <2>4. Relies(h)'
    BY <2>1, <2>3 DEF Relies
  <2>5. QED
    BY <1>3, <2>1, <2>2, <2>4, JobStep
<1>4. CASE Login(h)
  BY <1>t, <1>3, <1>4, BeginMoves DEF Login
<1>5. CASE ChangePassword(h)
  BY <1>t, <1>3, <1>5, BeginMoves DEF ChangePassword
<1>6. CASE LoginByCode(h)
  <2>1. UNCHANGED <<codes, guesses, used, sessionVars, calls>>
    BY <1>6 DEF LoginByCode, End
  <2>2. calls' \in 0 .. MaxCalls /\ TypeOK'
    BY <1>t, <2>1 DEF TypeOK, OtpTypeOK
  <2>3. CASE End(h)
    BY <2>1, <2>2, <2>3, EndStep
  <2>4. CASE job' = [job EXCEPT ![h] = Holding("issue", 0)]
    BY <1>3, <2>1, <2>2, <2>4
  <2>5. QED
    BY <1>6, <2>3, <2>4 DEF LoginByCode
<1>7. QED
  BY <1>1, <1>2, <1>4, <1>5, <1>6

LEMMA JobRefresh ==
  ASSUME JobInv, NEW h \in Handlers, NEW s \in SessionIds, Refresh(h, s)
  PROVE  JobInv'
<1> USE DEF sessionVars
<1>t. TypeOK /\ Types
  BY DEF JobInv, Types
<1>1. /\ Holding("rotate", s) \in Jobs /\ Holding("rotate", s).op = "rotate"
      /\ Holding("rotate", s).session = s /\ Holding("rotate", s).pwd = account.pwd
  BY <1>t, HoldingIsJob DEF Ops
<1>2. job' = [job EXCEPT ![h] = Holding("rotate", s)] /\ calls' \in 0 .. MaxCalls
  BY <1>t, BeginMoves DEF Refresh
<1>3. TypeOK'
  BY <1>t, <1>2 DEF Refresh, TypeOK, OtpTypeOK
<1>4. job'[h] = Holding("rotate", s)
  BY <1>t, <1>2 DEF Types
<1>5. sessions[s].state # "NONE" /\ (sessions[s].pwd = account.pwd \/ sessions[s].late)
  BY DEF Refresh, Live, JobInv, SessionRows
<1>6. Relies(h)'
  BY <1>1, <1>4, <1>5 DEF Relies, Refresh
<1>7. QED
  BY <1>1, <1>2, <1>3, <1>6, JobStep DEF Refresh

LEMMA JobRotate ==
  ASSUME JobInv, NEW h \in Handlers, Rotate(h)
  PROVE  JobInv'
<1> DEFINE s == job[h].session
<1>t. TypeOK /\ Types
  BY DEF JobInv, Types
<1>1. s \in SessionIds /\ job[h].op = "rotate"
  BY <1>t DEF JobInv, Relies, Rotate, Types, Jobs
<1>2. RevokedIn({s})
  BY <1>t, RevokedRows DEF Rotate
<1>3. UNCHANGED <<codes, guesses, used, account, blocks, calls>>
  BY DEF Rotate, Then, End
<1>4. TypeOK'
  BY <1>t, <1>2, <1>3 DEF TypeOK, OtpTypeOK, RevokedIn, SessionRow
<1>5. SessionRows'
  BY <1>2, <1>3, RevokeRows
<1>6. CASE ~Live(s)
  <2>1. job' = [job EXCEPT ![h] = Waiting] /\ job'[h].op = "waiting"
    BY <1>6, <1>t, EndMoves DEF Rotate
  <2>2. \A g \in Handlers \ {h} : job'[g] = job[g]
    BY <1>t, <2>1 DEF Types
  <2>3. \A g \in Handlers : Relies(g)'
    <3>1. Relies(h)'
      BY <2>1 DEF Relies
    <3>2. ASSUME NEW g \in Handlers \ {h}
          PROVE  Relies(g)'
      BY <1>2, <1>3, <2>2, RevokeKeeps DEF JobInv
    <3>3. QED
      BY <3>1, <3>2
  <2>4. OneHeir'
    BY <2>1, <2>2 DEF JobInv, OneHeir
  <2>5. job' \in [Handlers -> Jobs]
    BY <1>t, <2>1, WaitingIsJob DEF Types
  <2>6. QED
    BY <1>4, <1>5, <2>3, <2>4, <2>5 DEF JobInv, Types
<1>7. CASE Live(s)
  <2> DEFINE next == [job[h] EXCEPT !.op = "issue"]
  <2>1. next \in Jobs /\ job' = [job EXCEPT ![h] = next]
    BY <1>7, <1>t, ThenMoves DEF Rotate, Ops
  <2>2. job'[h] = next /\ \A g \in Handlers \ {h} : job'[g] = job[g]
    BY <1>t, <2>1 DEF Types
  <2>3. job'[h].op = "issue" /\ job'[h].session = s /\ job'[h].pwd = job[h].pwd
    <3>1. job[h] \in Jobs
      BY <1>t DEF Types
    <3>2. next.op = "issue" /\ next.session = s /\ next.pwd = job[h].pwd
      BY <3>1 DEF Jobs
    <3>3. QED
      BY <2>2, <3>2
  <2>4. sessions[s].children = 0
    <3>1. sessions[s].children \in Nat /\ sessions[s].children <= 1 /\ sessions[s].children # 1
      BY <1>t, <1>1, <1>7 DEF JobInv, SessionRows, TypeOK
    <3>2. QED
      BY <3>1
  <2>5. Relies(h)'
    BY <1>1, <1>2, <1>7, <2>3, <2>4 DEF JobInv, Relies, RevokedIn, Live
  <2>6. ASSUME NEW g \in Handlers \ {h}
        PROVE  Relies(g)' /\ ~(job'[g].op = "issue" /\ job'[g].session = s)
    <3>1. Relies(g)'
      BY <1>2, <1>3, <2>2, RevokeKeeps DEF JobInv
    <3>2. ~(job[g].op = "issue" /\ job[g].session = s)
      BY <1>1, <1>7 DEF JobInv, Relies
    <3>3. QED
      BY <2>2, <3>1, <3>2
  <2>7. OneHeir'
    <3>1. \A f, g \in Handlers \ {h} :
             job[f].op = "issue" /\ job[g].op = "issue" /\ job[f].session = job[g].session
             /\ job[f].session # 0 => f = g
      BY DEF JobInv, OneHeir
    <3>2. ASSUME NEW f \in Handlers, NEW g \in Handlers,
                 job'[f].op = "issue", job'[g].op = "issue",
                 job'[f].session = job'[g].session, job'[f].session # 0
          PROVE  f = g
      <4> HIDE DEF next
      <4>1. job'[f].session = s => f = h
        BY <2>6, <3>2
      <4>2. job'[g].session = s => g = h
        BY <2>6, <3>2
      <4>3. CASE f = h
        BY ONLY <2>3, <3>2, <4>2, <4>3
      <4>4. CASE g = h
        BY ONLY <2>3, <3>2, <4>1, <4>4
      <4>5. CASE f # h /\ g # h
        <5>1. job'[f] = job[f] /\ job'[g] = job[g]
          BY <2>2, <4>5
        <5>2. QED
          BY <3>1, <3>2, <4>5, <5>1
      <4>6. QED
        BY <4>3, <4>4, <4>5
    <3>3. QED
      BY <3>2 DEF OneHeir
  <2>8. job' \in [Handlers -> Jobs]
    BY <1>t, <2>1 DEF Types
  <2>9. QED
    BY <1>4, <1>5, <2>5, <2>6, <2>7, <2>8 DEF JobInv, Types
<1>8. QED
  BY <1>6, <1>7

LEMMA JobIssue ==
  ASSUME JobInv, NEW h \in Handlers, IssueTokens(h)
  PROVE  JobInv'
<1> DEFINE parent == job[h].session
<1>t. TypeOK /\ Types
  BY DEF JobInv, Types
<1>0. job[h] \in Jobs /\ job[h].op = "issue" /\ sessions \in [SessionIds -> SessionRow]
  BY <1>t DEF Types, TypeOK, SessionRow, IssueTokens
<1>1. PICK s \in SessionIds :
        /\ sessions[s] = NoSession
        /\ sessions' = [r \in SessionIds |->
                IF r = s
                THEN [state |-> "LIVE", tv |-> job[h].tv, children |-> 0,
                      pwd |-> IF parent = 0 THEN job[h].pwd ELSE sessions[parent].pwd,
                      late |-> job[h].pwd # account.pwd
                               \/ (parent # 0 /\ sessions[parent].late)]
                ELSE IF r = parent THEN [sessions[r] EXCEPT !.children = @ + 1]
                ELSE sessions[r]]
  BY DEF IssueTokens
<1>2. sessions[s].state = "NONE"
  BY <1>1 DEF NoSession
<1>3. parent # 0 => /\ parent \in SessionIds /\ parent # s
                    /\ sessions[parent].state = "REVOKED" /\ sessions[parent].children = 0
                    /\ sessions[parent].pwd = job[h].pwd \/ sessions[parent].late
  <2>1. parent # 0 => parent \in SessionIds
    BY <1>0 DEF Jobs
  <2>2. parent # 0 => /\ sessions[parent].state # "NONE" /\ sessions[parent].state # "LIVE"
                      /\ sessions[parent].children = 0
                      /\ sessions[parent].pwd = job[h].pwd \/ sessions[parent].late
    BY <1>0 DEF JobInv, Relies, Live
  <2>3. QED
    BY <1>0, <1>2, <2>1, <2>2 DEF SessionRow
<1> DEFINE new == [state |-> "LIVE", tv |-> job[h].tv, children |-> 0,
                   pwd |-> IF parent = 0 THEN job[h].pwd ELSE sessions[parent].pwd,
                   late |-> job[h].pwd # account.pwd
                            \/ (parent # 0 /\ sessions[parent].late)]
           succeeded == [sessions[parent] EXCEPT !.children = @ + 1]
<1>4. new \in SessionRow
  <2>1. (IF parent = 0 THEN job[h].pwd ELSE sessions[parent].pwd) \in Nat
    BY <1>0, <1>3 DEF Jobs, SessionRow
  <2>2. job[h].tv \in Nat
    BY <1>0 DEF Jobs
  <2>3. (job[h].pwd # account.pwd \/ (parent # 0 /\ sessions[parent].late)) \in BOOLEAN
    OBVIOUS
  <2>4. QED
    BY <2>1, <2>2, <2>3 DEF SessionRow
<1>5. parent # 0 => /\ succeeded \in SessionRow /\ succeeded.children = 1
                    /\ succeeded.state = "REVOKED" /\ succeeded.pwd = sessions[parent].pwd
                    /\ succeeded.late = sessions[parent].late
  BY <1>0, <1>3 DEF SessionRow
<1>6. /\ sessions'[s] = new
      /\ parent # 0 => sessions'[parent] = succeeded
      /\ \A r \in SessionIds \ {s, parent} : sessions'[r] = sessions[r]
  BY <1>1, <1>3
<1>7. sessions' \in [SessionIds -> SessionRow]
  <2>1. \A r \in SessionIds : sessions'[r] \in SessionRow
    BY <1>0, <1>4, <1>5, <1>6
  <2>2. QED
    BY <1>1, <2>1
<1>8. /\ job' = [job EXCEPT ![h] = Waiting] /\ job'[h].op = "waiting"
      /\ UNCHANGED <<codes, guesses, used, account, blocks, calls>>
  BY <1>t, EndMoves DEF IssueTokens
<1>9. Types'
  <2>1. TypeOK'
    BY <1>t, <1>7, <1>8 DEF TypeOK, OtpTypeOK, SessionRow
  <2>2. job' \in [Handlers -> Jobs]
    BY <1>t, <1>8, WaitingIsJob DEF Types
  <2>3. QED
    BY <2>1, <2>2 DEF Types
<1>10. \A g \in Handlers \ {h} : job'[g] = job[g]
  BY <1>t, <1>8 DEF Types
<1>11. SessionRows'
  <2>1. ASSUME NEW r \in SessionIds
        PROVE  /\ sessions'[r].children <= 1
               /\ sessions'[r].children = 1 => sessions'[r].state # "LIVE"
               /\ sessions'[r].state = "LIVE" => sessions'[r].pwd = account.pwd \/ sessions'[r].late
               /\ sessions'[r].state = "NONE" => sessions'[r] = NoSession
    <3>1. CASE r = s
      <4>1. new.children = 0 /\ new.state = "LIVE"
        OBVIOUS
      <4>2. new.pwd = account.pwd \/ new.late
        <5>1. CASE parent = 0
          BY <5>1
        <5>2. CASE parent # 0
          BY <1>3, <5>2
        <5>3. QED
          BY <5>1, <5>2
      <4>3. QED
        BY <1>6, <3>1, <4>1, <4>2
    <3>2. CASE r = parent /\ r # s
      <4>1. parent # 0
        BY <3>2
      <4>2. sessions'[r].children = 1 /\ sessions'[r].state = "REVOKED"
        BY <1>5, <1>6, <3>2, <4>1
      <4>3. QED
        BY <4>2
    <3>3. CASE r # s /\ r # parent
      BY <1>6, <3>3 DEF JobInv, SessionRows, Live
    <3>4. QED
      BY <3>1, <3>2, <3>3
  <2>2. QED
    BY <1>8, <2>1 DEF SessionRows, Live
<1>12. ASSUME NEW g \in Handlers
       PROVE  Relies(g)'
  <2>1. CASE g = h
    BY <1>8, <2>1 DEF Relies
  <2>2. CASE g # h
    <3>1. job'[g] = job[g] /\ Relies(g)
      BY <1>10, <2>2 DEF JobInv
    <3>2. job[g].op \in {"rotate", "issue"} /\ job[g].session # 0 => job[g].session # s
      BY <1>2, <3>1 DEF Relies
    <3>3. job[g].op = "issue" /\ job[g].session # 0 => job[g].session # parent
      BY <1>0, <2>2 DEF JobInv, OneHeir
    <3>4. job[g].session \in SessionIds \cup {0}
      BY <1>t DEF Types, Jobs
    <3>5. \A r \in SessionIds \ {s} :
             /\ sessions'[r].state = sessions[r].state /\ sessions'[r].pwd = sessions[r].pwd
             /\ sessions'[r].late = sessions[r].late
             /\ r # parent => sessions'[r].children = sessions[r].children
      BY <1>3, <1>5, <1>6, <1>0 DEF Jobs
    <3>6. job[g].op \in {"attempt", "compare"} =>
             job[g].code \in CodeIds /\ codes[job[g].code].purpose # "NONE"
      BY <3>1 DEF Relies
    <3>7. job[g].op \in {"rotate", "issue"} /\ job[g].session # 0 =>
             /\ sessions'[job[g].session].state # "NONE"
             /\ sessions'[job[g].session].pwd = job[g].pwd \/ sessions'[job[g].session].late
      BY <3>1, <3>2, <3>4, <3>5 DEF Relies
    <3>8. job[g].op = "issue" /\ job[g].session # 0 =>
             sessions'[job[g].session].state # "LIVE" /\ sessions'[job[g].session].children = 0
      BY <3>1, <3>2, <3>3, <3>4, <3>5 DEF Relies, Live
    <3>9. QED
      BY <1>8, <3>1, <3>6, <3>7, <3>8 DEF Relies, Live
  <2>3. QED
    BY <2>1, <2>2
<1>13. OneHeir'
  BY <1>8, <1>10 DEF JobInv, OneHeir
<1>14. QED
  BY <1>9, <1>11, <1>12, <1>13 DEF JobInv

LEMMA JobLogout ==
  ASSUME JobInv, NEW S \in SUBSET SessionIds, Logout(S)
  PROVE  JobInv'
<1>t. TypeOK /\ Types
  BY DEF JobInv, Types
<1>1. RevokedIn(S)
  BY <1>t, RevokedRows DEF Logout
<1>2. UNCHANGED <<codes, guesses, used, job, calls, account, blocks>>
  BY DEF Logout, otpVars
<1>3. Types'
  BY <1>t, <1>1, <1>2 DEF Types, TypeOK, OtpTypeOK, RevokedIn, SessionRow
<1>4. \A g \in Handlers : Relies(g)'
  BY <1>1, <1>2, RevokeKeeps DEF JobInv
<1>5. OneHeir' /\ SessionRows'
  BY <1>1, <1>2, RevokeRows DEF JobInv, OneHeir
<1>6. QED
  BY <1>3, <1>4, <1>5 DEF JobInv

LEMMA NewPasswordSets ==
  ASSUME TypeOK, NewPassword
  PROVE  account' \in Account /\ RevokedIn(SessionIds)
<1>1. account \in Account
  BY DEF TypeOK, Account
<1>2. account.pwd + 1 \in Nat /\ account.tv + 1 \in Nat
  BY <1>1 DEF Account
<1>3. account' \in Account
  BY <1>1, <1>2 DEF Account, NewPassword
<1>4. QED
  BY <1>3, RevokedRows DEF NewPassword

LEMMA JobReset ==
  ASSUME JobInv, NEW h \in Handlers, ResetPassword(h)
  PROVE  JobInv'
<1>t. TypeOK /\ Types
  BY DEF JobInv, Types
<1>1. End(h) /\ UNCHANGED <<codes, guesses, used, blocks>> /\ calls' = calls
  BY DEF ResetPassword, End
<1>2. CASE UNCHANGED <<account, sessions>>
  <2>1. TypeOK'
    BY <1>t, <1>1, <1>2 DEF TypeOK, OtpTypeOK
  <2>2. QED
    BY <1>1, <1>2, <2>1, EndStep
<1>3. CASE NewPassword
  <2>1. account' \in Account /\ RevokedIn(SessionIds)
    BY <1>t, <1>3, NewPasswordSets
  <2>2. job' = [job EXCEPT ![h] = Waiting] /\ job'[h].op = "waiting"
    BY <1>t, <1>1, EndMoves
  <2>3. \A g \in Handlers \ {h} : job'[g] = job[g]
    BY <1>t, <2>2 DEF Types
  <2>4. Types'
    BY <1>t, <1>1, <2>1, <2>2, WaitingIsJob
       DEF Types, TypeOK, OtpTypeOK, RevokedIn, SessionRow, Account
  <2>5. ASSUME NEW g \in Handlers
        PROVE  Relies(g)'
    <3>1. CASE g = h
      BY <2>2, <3>1 DEF Relies
    <3>2. CASE g # h
      BY <1>1, <2>1, <2>3, <3>2, RevokeKeeps DEF JobInv
    <3>3. QED
      BY <3>1, <3>2
  <2>6. OneHeir'
    BY <2>2, <2>3 DEF JobInv, OneHeir
  <2>7. SessionRows'
    BY <2>1, RevokeRows
  <2>8. QED
    BY <2>4, <2>5, <2>6, <2>7 DEF JobInv
<1>4. QED
  BY <1>2, <1>3 DEF ResetPassword

LEMMA JobChange ==
  ASSUME JobInv, NEW h \in Handlers, WriteChange(h)
  PROVE  JobInv'
<1> DEFINE next == [Waiting EXCEPT !.op = "issue", !.tv = account'.tv, !.pwd = account'.pwd]
<1>t. TypeOK /\ Types
  BY DEF JobInv, Types
<1>1. account' \in Account /\ RevokedIn(SessionIds)
  BY <1>t, NewPasswordSets DEF WriteChange
<1>2. /\ job' = [job EXCEPT ![h] = next]
      /\ UNCHANGED <<codes, guesses, used, calls, blocks>>
  BY DEF WriteChange
<1>3. next \in Jobs /\ next.op = "issue" /\ next.session = 0
  <2>1. account'.tv \in Nat /\ account'.pwd \in Nat
    BY <1>1 DEF Account
  <2>2. QED
    BY <2>1 DEF Waiting, Jobs, Ops
<1>4. job'[h] = next /\ \A g \in Handlers \ {h} : job'[g] = job[g]
  BY <1>t, <1>2 DEF Types
<1>5. Types'
  <2>1. TypeOK'
    BY <1>t, <1>1, <1>2 DEF TypeOK, OtpTypeOK, RevokedIn, SessionRow, Account
  <2>2. job' \in [Handlers -> Jobs]
    BY <1>t, <1>2, <1>3 DEF Types
  <2>3. QED
    BY <2>1, <2>2 DEF Types
<1>6. ASSUME NEW g \in Handlers
      PROVE  Relies(g)'
  <2>1. CASE g = h
    BY <1>3, <1>4, <2>1 DEF Relies
  <2>2. CASE g # h
    BY <1>1, <1>2, <1>4, <2>2, RevokeKeeps DEF JobInv
  <2>3. QED
    BY <2>1, <2>2
<1>7. OneHeir'
  BY <1>3, <1>4 DEF JobInv, OneHeir
<1>8. SessionRows'
  BY <1>1, RevokeRows
<1>9. QED
  BY <1>5, <1>6, <1>7, <1>8 DEF JobInv

LEMMA JobBlock ==
  ASSUME JobInv, Block \/ Unblock
  PROVE  JobInv'
<1>t. account \in Account /\ TypeOK
  BY DEF JobInv, Types, TypeOK, Account
<1>1. account.tv + 1 \in Nat
  BY <1>t DEF Account
<1>2. account' \in Account /\ account'.pwd = account.pwd
  BY <1>t, <1>1 DEF Account, Block, Unblock
<1>3. blocks' \in 0 .. MaxBlocks
  <2>1. blocks \in 0 .. MaxBlocks
    BY <1>t DEF TypeOK
  <2>2. QED
    BY <2>1 DEF Block, Unblock
<1>4. TypeOK'
  BY <1>t, <1>2, <1>3 DEF Block, Unblock, otpVars, TypeOK, OtpTypeOK, Account
<1>5. QED
  BY <1>2, <1>4, JobsStay DEF Block, Unblock, otpVars

LEMMA JobInvariant == JobInv /\ [Next]_vars => JobInv'
<1> SUFFICES ASSUME JobInv, [Next]_vars
             PROVE  JobInv'
  OBVIOUS
<1>1. CASE UNCHANGED vars
  BY <1>1, JobsStay DEF vars, otpVars, sessionVars, JobInv, Types, TypeOK, OtpTypeOK
<1>2. ASSUME NEW h \in Handlers,
             \/ OtpStep(h) /\ UNCHANGED sessionVars
             \/ Register(h)
             \/ CreateUser(h)
             \/ Login(h)
             \/ LoginByCode(h)
             \/ IssueTokens(h)
             \/ \E s \in SessionIds : Refresh(h, s)
             \/ Rotate(h)
             \/ ResetPassword(h)
             \/ ChangePassword(h)
             \/ WriteChange(h)
      PROVE  JobInv'
  BY <1>2, JobOtpStep, JobUserSteps, JobIssue, JobRefresh, JobRotate, JobReset, JobChange
<1>3. CASE \E c \in CodeIds : Expire(c) /\ UNCHANGED sessionVars
  BY <1>3, JobExpire
<1>4. CASE \E S \in {{s} : s \in SessionIds} \cup {SessionIds} : Logout(S)
  BY <1>4, JobLogout
<1>5. CASE Block \/ Unblock
  BY <1>5, JobBlock
<1>6. QED
  BY <1>1, <1>2, <1>3, <1>4, <1>5 DEF Next

----------------------------------------------------------------------------
(* The codes. *)

\* Whoever is not comparing, before and after, changes no count.
LEMMA SameComparing ==
  ASSUME Types, NEW h \in Handlers, NEW next \in Jobs, job' = [job EXCEPT ![h] = next],
         job[h].op # "compare", next.op # "compare"
  PROVE  \A c \in CodeIds : Comparing(c)' = Comparing(c)
<1>1. job'[h] = next /\ \A g \in Handlers \ {h} : job'[g] = job[g]
  BY DEF Types
<1>2. QED
  BY <1>1 DEF Comparing

LEMMA CodesKept ==
  ASSUME Inv, NEW h \in Handlers, NEW next \in Jobs, job' = [job EXCEPT ![h] = next],
         job[h].op # "compare", next.op # "compare", UNCHANGED <<codes, guesses, used>>
  PROVE  CodeRows'
<1>1. \A c \in CodeIds : Comparing(c)' = Comparing(c)
  BY SameComparing DEF Inv, JobInv
<1>2. QED
  BY <1>1 DEF Inv, CodeRows

\* One more, or one less, is comparing a guess with c.
LEMMA ComparingGrows ==
  ASSUME Types, NEW h \in Handlers, NEW next \in Jobs, job' = [job EXCEPT ![h] = next],
         job[h].op # "compare", next.op = "compare", NEW c \in CodeIds, next.code = c
  PROVE  /\ Comparing(c)' = Comparing(c) \cup {h} /\ h \notin Comparing(c)
         /\ \A d \in CodeIds \ {c} : Comparing(d)' = Comparing(d)
<1>1. job'[h] = next /\ \A g \in Handlers \ {h} : job'[g] = job[g]
  BY DEF Types
<1>2. QED
  BY <1>1 DEF Comparing

LEMMA ComparingShrinks ==
  ASSUME Types, NEW h \in Handlers, NEW next \in Jobs, job' = [job EXCEPT ![h] = next],
         job[h].op = "compare", next.op # "compare", NEW c \in CodeIds, job[h].code = c
  PROVE  /\ Comparing(c)' = Comparing(c) \ {h} /\ h \in Comparing(c)
         /\ \A d \in CodeIds \ {c} : Comparing(d)' = Comparing(d)
<1>1. job'[h] = next /\ \A g \in Handlers \ {h} : job'[g] = job[g]
  BY DEF Types
<1>2. QED
  BY <1>1 DEF Comparing

LEMMA CodesOtpStep ==
  ASSUME Inv, NEW h \in Handlers, OtpStep(h)
  PROVE  CodeRows'
<1>t. TypeOK /\ Types /\ job[h] \in Jobs
  BY DEF Inv, JobInv, Types
<1>w. Waiting \in Jobs /\ Waiting.op = "waiting"
  BY WaitingIsJob DEF Waiting
<1>n. guesses \in [CodeIds -> Nat] /\ used \in [CodeIds -> Nat] /\ codes \in [CodeIds -> OtpRows]
  BY <1>t DEF TypeOK, OtpTypeOK, OtpRows
<1>1. ASSUME NEW purpose \in Purposes, RequestCode(h, purpose)
      PROVE  CodeRows'
  <2> DEFINE next == [Waiting EXCEPT !.op = "createCode", !.goal = purpose]
  <2>1. next \in Jobs /\ next.op = "createCode"
    BY DEF Waiting, Jobs, Ops
  <2>2. job' = [job EXCEPT ![h] = next] /\ job[h] = Waiting
    BY <1>1, <1>t, BeginMoves DEF RequestCode
  <2>3. QED
    BY <1>1, <1>w, <2>1, <2>2, CodesKept DEF RequestCode
<1>2. CASE CreateCode(h)
  <2>1. job[h].goal \in Purposes
    BY <1>2 DEF Inv, JobInv, Relies, CreateCode
  <2>2. PICK c \in CodeIds \ Issued : codes' = [codes EXCEPT ![c] = [NoCode EXCEPT !.purpose = job[h].goal]]
    BY <1>2 DEF CreateCode
  <2>3. codes[c] = NoCode
    BY <2>2 DEF Inv, CodeRows, Issued
  <2>4. /\ codes'[c].attempts = 0 /\ codes'[c].consumed = FALSE
        /\ codes'[c].purpose = job[h].goal
        /\ \A d \in CodeIds \ {c} : codes'[d] = codes[d]
    BY <1>n, <2>2 DEF NoCode
  <2>5. \A d \in CodeIds : /\ codes'[d].attempts = codes[d].attempts
                           /\ codes'[d].consumed = codes[d].consumed
                           /\ codes'[d].purpose = "NONE" => codes'[d] = codes[d]
    <3>1. codes[c].attempts = 0 /\ codes[c].consumed = FALSE
      BY <2>3 DEF NoCode
    <3>2. codes'[c].purpose # "NONE"
      BY <2>1, <2>4 DEF Purposes
    <3>3. QED
      BY <2>4, <3>1, <3>2
  <2>6. job' = [job EXCEPT ![h] = Waiting] /\ UNCHANGED <<guesses, used>>
    BY <1>2, <1>t, EndMoves DEF CreateCode
  <2>7. \A d \in CodeIds : Comparing(d)' = Comparing(d)
    BY <1>2, <1>t, <1>w, <2>6, SameComparing DEF CreateCode
  <2>8. QED
    BY <2>5, <2>6, <2>7 DEF Inv, CodeRows
<1>3. ASSUME NEW c \in CodeIds, NEW purpose \in Purposes, FindCode(h, c, purpose)
      PROVE  CodeRows'
  <2> DEFINE next == [Waiting EXCEPT !.op = "attempt", !.code = c, !.goal = purpose]
  <2>1. next \in Jobs /\ next.op = "attempt"
    BY DEF Waiting, Jobs, Ops
  <2>2. job' = [job EXCEPT ![h] = next] /\ job[h] = Waiting
    BY <1>3, <1>t, BeginMoves DEF FindCode
  <2>3. QED
    BY <1>3, <1>w, <2>1, <2>2, CodesKept DEF FindCode
<1>4. CASE ClaimAttempt(h)
  <2> DEFINE next == [job[h] EXCEPT !.op = "compare"]
  <2>0. job[h].code \in CodeIds /\ codes[job[h].code].purpose # "NONE" /\ job[h].op = "attempt"
    BY <1>4 DEF Inv, JobInv, Relies, ClaimAttempt
  <2>c. PICK c \in CodeIds : c = job[h].code
    BY <2>0
  <2>1. codes[c].purpose # "NONE" /\ job[h].op = "attempt"
    BY <2>0, <2>c
  <2>2. CASE AttemptsLeft(c)
    <3>1. codes' = [codes EXCEPT ![c].attempts = @ + 1] /\ UNCHANGED <<guesses, used>>
      BY <1>4, <2>2, <2>c DEF ClaimAttempt
    <3>2. next \in Jobs /\ job' = [job EXCEPT ![h] = next]
      BY <1>4, <2>2, <2>c, <1>t, ThenMoves DEF ClaimAttempt, Ops
    <3>3. next.op = "compare" /\ next.code = c
      BY <1>t, <2>c DEF Jobs
    <3>4. /\ Comparing(c)' = Comparing(c) \cup {h} /\ h \notin Comparing(c)
          /\ \A d \in CodeIds \ {c} : Comparing(d)' = Comparing(d)
      BY <1>t, <2>1, <3>2, <3>3, ComparingGrows
    <3>5. /\ codes'[c].attempts = codes[c].attempts + 1 /\ codes'[c].consumed = codes[c].consumed
          /\ codes'[c].purpose = codes[c].purpose
          /\ \A d \in CodeIds \ {c} : codes'[d] = codes[d]
      BY <1>n, <2>1, <3>1 DEF OtpRows
    <3>6. /\ IsFiniteSet(Comparing(c)) /\ Cardinality(Comparing(c)) \in Nat
          /\ IsFiniteSet(Comparing(c)')
          /\ Cardinality(Comparing(c)') = Cardinality(Comparing(c)) + 1
      BY <2>1, <3>4, FS_AddElement, FS_CardinalityType DEF Inv, CodeRows
    <3>7. codes[c].attempts < MaxAttempts
      BY <2>2 DEF AttemptsLeft
    <3>8. codes[c].attempts \in Nat /\ guesses[c] \in Nat
      BY <1>n, <2>1 DEF OtpRows
    <3>9. /\ guesses[c] + Cardinality(Comparing(c)') <= codes'[c].attempts
          /\ codes'[c].attempts <= MaxAttempts
      <4>1. guesses[c] + Cardinality(Comparing(c)) <= codes[c].attempts
        BY <2>1 DEF Inv, CodeRows
      <4>2. QED
        BY <3>5, <3>6, <3>7, <3>8, <4>1
    <3>10. ASSUME NEW d \in CodeIds
           PROVE  /\ codes'[d].purpose = "NONE" => codes'[d] = NoCode
                  /\ IsFiniteSet(Comparing(d)')
                  /\ guesses[d] + Cardinality(Comparing(d)') <= codes'[d].attempts
                  /\ codes'[d].attempts <= MaxAttempts
                  /\ used[d] = IF codes'[d].consumed THEN 1 ELSE 0
      <4>1. CASE d = c
        <5>1. codes[c].purpose # "NONE" /\ (used[c] = IF codes[c].consumed THEN 1 ELSE 0)
          BY <2>1 DEF Inv, CodeRows
        <5>2. QED
          BY <3>5, <3>6, <3>9, <4>1, <5>1
      <4>2. CASE d # c
        BY <3>4, <3>5, <4>2 DEF Inv, CodeRows
      <4>3. QED
        BY <4>1, <4>2
    <3>11. QED
      BY <3>1, <3>10 DEF CodeRows
  <2>3. CASE ~AttemptsLeft(c)
    <3>1. End(h) /\ UNCHANGED <<codes, guesses, used>>
      BY <1>4, <2>3, <2>c DEF ClaimAttempt
    <3>2. QED
      BY <1>t, <1>w, <2>1, <3>1, EndMoves, CodesKept
  <2>4. QED
    BY <2>2, <2>3
<1>5. CASE WrongGuess(h) \/ RightGuess(h)
  <2>0. job[h].code \in CodeIds /\ codes[job[h].code].purpose # "NONE" /\ job[h].op = "compare"
    BY <1>5 DEF Inv, JobInv, Relies, WrongGuess, RightGuess
  <2>c. PICK c \in CodeIds : c = job[h].code
    BY <2>0
  <2>1. codes[c].purpose # "NONE" /\ job[h].op = "compare"
    BY <2>0, <2>c
  <2>2. PICK next \in Jobs : next.op # "compare" /\ job' = [job EXCEPT ![h] = next]
    <3>1. CASE End(h)
      BY <1>t, <1>w, <3>1, EndMoves
    <3>2. CASE Then(h, "verified")
      <4>1. [job[h] EXCEPT !.op = "verified"].op = "verified"
        BY <1>t DEF Jobs
      <4>2. QED
        BY <1>t, <3>2, <4>1, ThenMoves DEF Ops
    <3>3. QED
      BY <1>5, <3>1, <3>2 DEF WrongGuess, RightGuess
  <2>3. /\ Comparing(c)' = Comparing(c) \ {h} /\ h \in Comparing(c)
        /\ \A d \in CodeIds \ {c} : Comparing(d)' = Comparing(d)
    BY <1>t, <2>1, <2>2, <2>c, ComparingShrinks
  <2>4. /\ IsFiniteSet(Comparing(c)) /\ Cardinality(Comparing(c)) \in Nat
        /\ IsFiniteSet(Comparing(c)')
        /\ Cardinality(Comparing(c)') = Cardinality(Comparing(c)) - 1
    BY <2>1, <2>3, FS_RemoveElement, FS_CardinalityType DEF Inv, CodeRows
  <2>5. guesses'[c] = guesses[c] + 1 /\ \A d \in CodeIds \ {c} : guesses'[d] = guesses[d]
    BY <1>5, <1>n, <2>1, <2>c DEF WrongGuess, RightGuess
  <2>6. \A d \in CodeIds : /\ codes'[d].attempts = codes[d].attempts
                           /\ codes'[d].purpose = codes[d].purpose
                           /\ codes[d].purpose = "NONE" => codes'[d] = codes[d]
                           /\ used'[d] = IF codes'[d].consumed THEN 1 ELSE 0
    <3>1. \A d \in CodeIds : used[d] = IF codes[d].consumed THEN 1 ELSE 0
      BY DEF Inv, CodeRows
    <3>2. CASE UNCHANGED <<codes, used>>
      BY <3>1, <3>2
    <3>3. CASE /\ ~codes[c].consumed /\ codes' = [codes EXCEPT ![c].consumed = TRUE]
               /\ used' = [used EXCEPT ![c] = @ + 1]
      <4>1. /\ codes'[c].attempts = codes[c].attempts /\ codes'[c].purpose = codes[c].purpose
            /\ codes'[c].consumed = TRUE /\ \A d \in CodeIds \ {c} : codes'[d] = codes[d]
        BY <1>n, <2>1, <3>3 DEF OtpRows
      <4>2. used'[c] = 1 /\ \A d \in CodeIds \ {c} : used'[d] = used[d]
        BY <1>n, <2>1, <3>1, <3>3
      <4>3. QED
        BY <2>1, <3>1, <4>1, <4>2
    <3>4. QED
      BY <1>5, <2>c, <3>2, <3>3 DEF WrongGuess, RightGuess
  <2>7. guesses'[c] + Cardinality(Comparing(c)') <= codes[c].attempts
    <3>1. guesses[c] + Cardinality(Comparing(c)) <= codes[c].attempts
      BY <2>1 DEF Inv, CodeRows
    <3>2. guesses[c] \in Nat /\ codes[c].attempts \in Nat
      BY <1>n, <2>1 DEF OtpRows
    <3>3. QED
      BY <2>4, <2>5, <3>1, <3>2
  <2>8. ASSUME NEW d \in CodeIds
        PROVE  /\ codes'[d].purpose = "NONE" => codes'[d] = NoCode
               /\ IsFiniteSet(Comparing(d)')
               /\ guesses'[d] + Cardinality(Comparing(d)') <= codes'[d].attempts
               /\ codes'[d].attempts <= MaxAttempts
               /\ used'[d] = IF codes'[d].consumed THEN 1 ELSE 0
    <3>1. /\ codes[d].purpose = "NONE" => codes[d] = NoCode
          /\ codes[d].attempts <= MaxAttempts
      BY DEF Inv, CodeRows
    <3>2. IsFiniteSet(Comparing(d)') /\ guesses'[d] + Cardinality(Comparing(d)') <= codes[d].attempts
      <4>1. CASE d = c
        BY <2>4, <2>7, <4>1
      <4>2. CASE d # c
        BY <2>3, <2>5, <4>2 DEF Inv, CodeRows
      <4>3. QED
        BY <4>1, <4>2
    <3>3. QED
      BY <2>6, <3>1, <3>2
  <2>9. QED
    BY <2>8 DEF CodeRows
<1>6. QED
  BY <1>1, <1>2, <1>3, <1>4, <1>5 DEF OtpStep

LEMMA CodesOtherStep ==
  ASSUME Inv, NEW h \in Handlers,
         \/ Register(h) \/ CreateUser(h) \/ Login(h) \/ LoginByCode(h) \/ IssueTokens(h)
         \/ \E s \in SessionIds : Refresh(h, s)
         \/ Rotate(h) \/ ResetPassword(h) \/ ChangePassword(h) \/ WriteChange(h)
  PROVE  CodeRows'
<1>t. TypeOK /\ Types /\ job[h] \in Jobs
  BY DEF Inv, JobInv, Types
<1>w. Waiting \in Jobs /\ Waiting.op = "waiting"
  BY WaitingIsJob DEF Waiting
<1>1. UNCHANGED <<codes, guesses, used>>
  BY DEF Register, CreateUser, Login, LoginByCode, IssueTokens, Refresh, Rotate,
     ResetPassword, ChangePassword, WriteChange
<1>2. job[h].op # "compare"
  <2>1. job[h] = Waiting => job[h].op # "compare"
    BY <1>w
  <2>2. QED
    BY <2>1 DEF Register, CreateUser, Login, LoginByCode, IssueTokens, Refresh, Rotate,
       ResetPassword, ChangePassword, WriteChange, Begin
<1>3. \E next \in Jobs : next.op # "compare" /\ job' = [job EXCEPT ![h] = next]
  <2>1. CASE End(h)
    BY <1>t, <1>w, <2>1, EndMoves
  <2>2. CASE Register(h)
    <3>1. [Waiting EXCEPT !.op = "createUser"] \in Jobs
          /\ [Waiting EXCEPT !.op = "createUser"].op = "createUser"
      BY DEF Waiting, Jobs, Ops
    <3>2. QED
      BY <2>2, <3>1 DEF Register, Begin
  <2>3. CASE job' = [job EXCEPT ![h].op = "createCode", ![h].goal = "LOGIN"]
    <3>1. [job[h] EXCEPT !.op = "createCode", !.goal = "LOGIN"] \in Jobs
          /\ [job[h] EXCEPT !.op = "createCode", !.goal = "LOGIN"].op = "createCode"
      BY <1>t DEF Jobs, Ops, Purposes
    <3>2. job' = [job EXCEPT ![h] = [job[h] EXCEPT !.op = "createCode", !.goal = "LOGIN"]]
      BY <1>t, <2>3 DEF Types
    <3>3. QED
      BY <3>1, <3>2
  <2>4. ASSUME NEW op \in {"issue", "change", "rotate"}, NEW s \in SessionIds \cup {0},
               job' = [job EXCEPT ![h] = Holding(op, s)]
        PROVE  \E next \in Jobs : next.op # "compare" /\ job' = [job EXCEPT ![h] = next]
    <3>1. Holding(op, s) \in Jobs /\ Holding(op, s).op = op
      BY <1>t, HoldingIsJob DEF Ops
    <3>2. QED
      BY <2>4, <3>1
  <2>5. CASE Then(h, "issue")
    <3>1. [job[h] EXCEPT !.op = "issue"].op = "issue"
      BY <1>t DEF Jobs
    <3>2. QED
      BY <1>t, <2>5, <3>1, ThenMoves DEF Ops
  <2>6. CASE WriteChange(h)
    <3>1. account' \in Account
      BY <1>t, <2>6, NewPasswordSets DEF WriteChange
    <3>2. account'.tv \in Nat /\ account'.pwd \in Nat
      BY <3>1 DEF Account
    <3>3. [Waiting EXCEPT !.op = "issue", !.tv = account'.tv, !.pwd = account'.pwd] \in Jobs
          /\ [Waiting EXCEPT !.op = "issue", !.tv = account'.tv, !.pwd = account'.pwd].op = "issue"
      BY <3>2 DEF Waiting, Jobs, Ops
    <3>4. QED
      BY <2>6, <3>3 DEF WriteChange
  <2>7. CASE CreateUser(h)
    BY <2>1, <2>3, <2>7 DEF CreateUser
  <2>8. CASE Login(h) \/ ChangePassword(h) \/ \E s \in SessionIds : Refresh(h, s)
    BY <2>4, <2>8 DEF Login, ChangePassword, Refresh, Begin
  <2>9. CASE LoginByCode(h)
    BY <2>1, <2>4, <2>9 DEF LoginByCode
  <2>10. CASE IssueTokens(h) \/ ResetPassword(h)
    BY <2>1, <2>10 DEF IssueTokens, ResetPassword
  <2>11. CASE Rotate(h)
    BY <2>1, <2>5, <2>11 DEF Rotate
  <2>12. QED
    BY <2>2, <2>6, <2>7, <2>8, <2>9, <2>10, <2>11
<1>4. QED
  BY <1>1, <1>2, <1>3, CodesKept

LEMMA CodesStay ==
  ASSUME Inv, UNCHANGED <<job, guesses, used>>, codes' \in [CodeIds -> OtpRows],
         \A c \in CodeIds : /\ codes'[c].attempts = codes[c].attempts
                            /\ codes'[c].consumed = codes[c].consumed
                            /\ codes'[c].purpose = "NONE" => codes'[c] = codes[c]
  PROVE  CodeRows'
<1>1. \A c \in CodeIds : Comparing(c)' = Comparing(c)
  BY DEF Comparing
<1>2. QED
  BY <1>1 DEF Inv, CodeRows

LEMMA InvInvariant == Inv /\ [Next]_vars => Inv'
<1> SUFFICES ASSUME Inv, [Next]_vars
             PROVE  Inv'
  OBVIOUS
<1>t. TypeOK
  BY DEF Inv, JobInv, Types
<1>n. codes \in [CodeIds -> OtpRows]
  BY <1>t DEF TypeOK, OtpTypeOK, OtpRows
<1>1. JobInv'
  BY JobInvariant DEF Inv
<1>2. CodeRows'
  <2>1. CASE UNCHANGED <<codes, guesses, used, job>>
    BY <1>n, <2>1, CodesStay
  <2>2. CASE \E h \in Handlers : OtpStep(h)
    BY <2>2, CodesOtpStep
  <2>3. ASSUME NEW h \in Handlers,
               \/ Register(h) \/ CreateUser(h) \/ Login(h) \/ LoginByCode(h) \/ IssueTokens(h)
               \/ \E s \in SessionIds : Refresh(h, s)
               \/ Rotate(h) \/ ResetPassword(h) \/ ChangePassword(h) \/ WriteChange(h)
        PROVE  CodeRows'
    BY <2>3, CodesOtherStep
  <2>4. ASSUME NEW c \in CodeIds, Expire(c)
        PROVE  CodeRows'
    <3>1. /\ codes[c] \in OtpRows /\ codes' = [codes EXCEPT ![c] = [codes[c] EXCEPT !.expired = TRUE]]
          /\ codes[c].purpose # "NONE" /\ UNCHANGED <<guesses, used, job>>
      BY <1>n, <2>4 DEF Expire, Issued
    <3>2. /\ codes' \in [CodeIds -> OtpRows]
          /\ codes'[c] = [codes[c] EXCEPT !.expired = TRUE]
          /\ \A d \in CodeIds \ {c} : codes'[d] = codes[d]
      BY <1>t, <3>1, RowEdits, RowsStayTyped
    <3>3. /\ codes'[c].attempts = codes[c].attempts /\ codes'[c].consumed = codes[c].consumed
          /\ codes'[c].purpose = codes[c].purpose
      BY <3>1, <3>2 DEF OtpRows
    <3>4. QED
      BY <3>1, <3>2, <3>3, CodesStay
  <2>5. CASE \/ UNCHANGED vars
             \/ \E S \in {{s} : s \in SessionIds} \cup {SessionIds} : Logout(S)
             \/ Block \/ Unblock
    BY <2>1, <2>5 DEF vars, otpVars, Logout, Block, Unblock
  <2>6. QED
    BY <2>2, <2>3, <2>4, <2>5 DEF Next
<1>3. QED
  BY <1>1, <1>2 DEF Inv

LEMMA InvAlways == Spec => []Inv
BY InitInv, InvInvariant, PTL DEF Spec

----------------------------------------------------------------------------
\* Codes, sessions, the account and the calls under way keep their types through
\* every step of auth.service.ts and otp.service.ts.
THEOREM TypesHold == Spec => []TypeOK
<1>1. Inv => TypeOK
  BY DEF Inv, JobInv, Types
<1>2. QED
  BY <1>1, InvAlways, PTL

\* However many calls verify a code at once, MaxAttempts guesses are compared
\* with it and one call passes (otp.service.ts verify): every comparison has
\* claimed its attempt before.
THEOREM CodesResistGuessing == Spec => []GuessesAreCapped
<1>1. Inv => GuessesAreCapped
  <2> SUFFICES ASSUME Inv, NEW c \in CodeIds
               PROVE  guesses[c] <= MaxAttempts /\ used[c] <= 1
    BY DEF GuessesAreCapped
  <2>1. guesses[c] \in Nat /\ codes[c].attempts \in Nat
    BY DEF Inv, JobInv, Types, TypeOK, OtpTypeOK
  <2>2. Cardinality(Comparing(c)) \in Nat
    BY FS_CardinalityType DEF Inv, CodeRows
  <2>3. /\ guesses[c] + Cardinality(Comparing(c)) <= codes[c].attempts
        /\ codes[c].attempts <= MaxAttempts
    BY DEF Inv, CodeRows
  <2>4. used[c] <= 1
    BY DEF Inv, CodeRows
  <2>5. QED
    BY <2>1, <2>2, <2>3, <2>4
<1>2. QED
  BY <1>1, InvAlways, PTL

\* A refresh token is rotated once, whatever runs beside it (auth.service.ts
\* refresh): of the handlers that read it, one finds it still alive.
THEOREM TokensRotateOnce == Spec => []OneSuccessor
<1>1. Inv => OneSuccessor
  BY DEF Inv, JobInv, SessionRows, OneSuccessor
<1>2. QED
  BY <1>1, InvAlways, PTL

\* No session of an earlier password outlives its change, but for the calls
\* that were under way (auth.service.ts resetPassword, changePassword).
THEOREM PasswordChangesRevoke == Spec => []OldSessionsAreRevoked
<1>1. Inv => OldSessionsAreRevoked
  BY DEF Inv, JobInv, SessionRows, OldSessionsAreRevoked
<1>2. QED
  BY <1>1, InvAlways, PTL
=============================================================================
