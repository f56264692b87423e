------------------------------ MODULE Sessions ------------------------------
(***************************************************************************)
(* The sessions of one user (auth.service.ts): registration, login by      *)
(* password or code, rotation of the refresh token, logout, and the two    *)
(* password operations that revoke everything.  Each call reads the user   *)
(* or the session, awaits (bcrypt, signing, the next query) and writes.    *)
(***************************************************************************)
EXTENDS Otp

CONSTANTS
    SessionIds,     \* bound: Session rows
    MaxBlocks       \* bound: times the account is blocked

ASSUME SessionsAssumption == SessionIds \subseteq Nat \ {0} /\ MaxBlocks \in Nat

VARIABLES
    account,        \* the User row; pwd numbers its passwords
    sessions,       \* Session rows, each with the access token issued with it
    blocks

sessionVars == <<account, sessions, blocks>>
vars == <<otpVars, sessionVars>>

\* tv: of the access token; pwd: the password that was current when the user
\* behind this session last proved who it is; late: a password change came
\* between that proof and the row; children: sessions rotated from it.
NoSession == [state |-> "NONE", tv |-> 0, pwd |-> 0, late |-> FALSE, children |-> 0]

Init ==
    /\ OtpInit
    /\ account \in [exists : BOOLEAN, pwd : {0}, tv : {0}, blocked : {FALSE}]
    /\ sessions = [s \in SessionIds |-> NoSession]
    /\ blocks = 0

Live(s) == sessions[s].state = "LIVE"
\* updateMany where revokedAt is null.
Revoked(S) ==
    [s \in SessionIds |-> IF s \in S /\ Live(s)
                          THEN [sessions[s] EXCEPT !.state = "REVOKED"] ELSE sessions[s]]

MayEnter == account.exists /\ ~account.blocked
\* JwtStrategy.validate: the access token issued with session s is accepted.
Accepted(s) == MayEnter /\ sessions[s].state # "NONE" /\ sessions[s].tv >= account.tv

----------------------------------------------------------------------------
\* register: no such account, then the row, then a first code.
Register(h) ==
    /\ ~account.exists
    /\ Begin(h, [Waiting EXCEPT !.op = "createUser"])
    /\ UNCHANGED <<codes, guesses, used, sessionVars>>

CreateUser(h) ==
    /\ job[h].op = "createUser"
    /\ IF account.exists
       THEN End(h) /\ UNCHANGED account
       ELSE /\ account' = [account EXCEPT !.exists = TRUE]
            /\ IF UnderCap
               THEN job' = [job EXCEPT ![h].op = "createCode", ![h].goal = "LOGIN"] /\ UNCHANGED calls
               ELSE End(h)
    /\ UNCHANGED <<codes, guesses, used, sessions, blocks>>

\* What a call keeps of the user it reads.
Holding(op, s) == [Waiting EXCEPT !.op = op, !.session = s, !.tv = account.tv,
                                  !.pwd = account.pwd]

\* login with the password that is current at the read.
Login(h) ==
    /\ MayEnter
    /\ Begin(h, Holding("issue", 0))
    /\ UNCHANGED <<codes, guesses, used, sessionVars>>

\* verifyOtp of REGISTER and LOGIN: the code is consumed, then the user is read.
LoginByCode(h) ==
    /\ job[h].op = "verified"
    /\ job[h].goal = "LOGIN"
    /\ IF MayEnter
       THEN job' = [job EXCEPT ![h] = Holding("issue", 0)] /\ UNCHANGED calls
       ELSE End(h)
    /\ UNCHANGED <<codes, guesses, used, sessionVars>>

\* issueTokens: signs what was read, then creates the session.
IssueTokens(h) ==
    LET parent == job[h].session IN
    /\ job[h].op = "issue"
    /\ \E s \in SessionIds :
          /\ sessions[s] = NoSession
          /\ \A r \in SessionIds : r < s => sessions[r] # NoSession
          /\ sessions' = [r \in SessionIds |->
                IF r = s
                THEN [state |-> "LIVE", tv |-> job[h].tv, children |-> 0,
                      pwd |-> IF parent = 0 THEN job[h].pwd ELSE sessions[parent].pwd,
                      late |-> job[h].pwd # account.pwd
                               \/ (parent # 0 /\ sessions[parent].late)]
                ELSE IF r = parent THEN [sessions[r] EXCEPT !.children = @ + 1]
                ELSE sessions[r]]
    /\ End(h)
    /\ UNCHANGED <<codes, guesses, used, account, blocks>>

\* refresh reads the session and its user; the claim below is conditional.
Refresh(h, s) ==
    /\ Live(s)
    /\ MayEnter
    /\ Begin(h, Holding("rotate", s))
    /\ UNCHANGED <<codes, guesses, used, sessionVars>>

\* Mutant: the count of the update is not looked at.
RotateAnyway(h) ==
    /\ job[h].op = "rotate"
    /\ sessions' = Revoked({job[h].session})
    /\ Then(h, "issue")
    /\ UNCHANGED <<codes, guesses, used, account, blocks>>

Rotate(h) ==
    LET s == job[h].session IN
    /\ job[h].op = "rotate"
    /\ sessions' = Revoked({s})
    /\ IF Live(s) THEN Then(h, "issue") ELSE End(h)
    /\ UNCHANGED <<codes, guesses, used, account, blocks>>

\* logout of one or of all sessions, and DELETE sessions/:id.
Logout(S) ==
    /\ \E s \in SessionIds : Accepted(s)
    /\ \E s \in S : Live(s)
    /\ sessions' = Revoked(S)
    /\ UNCHANGED <<otpVars, account, blocks>>

----------------------------------------------------------------------------
\* Mutant: the sessions stay.
NewPasswordOnly ==
    /\ account' = [account EXCEPT !.pwd = @ + 1, !.tv = @ + 1]
    /\ UNCHANGED sessions

\* The transaction of both password operations.
NewPassword ==
    /\ account' = [account EXCEPT !.pwd = @ + 1, !.tv = @ + 1]
    /\ sessions' = Revoked(SessionIds)

ResetPassword(h) ==
    /\ job[h].op = "verified"
    /\ job[h].goal = "RESET_PASSWORD"
    /\ IF account.exists THEN NewPassword ELSE UNCHANGED <<account, sessions>>
    /\ End(h)
    /\ UNCHANGED <<codes, guesses, used, blocks>>

\* changePassword compares with the hash it read, and writes unconditionally.
ChangePassword(h) ==
    /\ \E s \in SessionIds : Accepted(s)
    /\ Begin(h, Holding("change", 0))
    /\ UNCHANGED <<codes, guesses, used, sessionVars>>

WriteChange(h) ==
    /\ job[h].op = "change"
    /\ NewPassword
    /\ job' = [job EXCEPT ![h] = [Waiting EXCEPT !.op = "issue", !.tv = account'.tv,
                                                 !.pwd = account'.pwd]]
    /\ UNCHANGED <<codes, guesses, used, calls, blocks>>

\* An administrator, or an ACCOUNT_BLOCKED decision; the sessions stay.
Block ==
    /\ MayEnter
    /\ blocks < MaxBlocks
    /\ blocks' = blocks + 1
    /\ account' = [account EXCEPT !.blocked = TRUE, !.tv = @ + 1]
    /\ UNCHANGED <<otpVars, sessions>>

Unblock ==
    /\ account.blocked
    /\ account' = [account EXCEPT !.blocked = FALSE]
    /\ UNCHANGED <<otpVars, sessions, blocks>>

Next ==
    \/ \E h \in Handlers :
          \/ OtpStep(h) /\ UNCHANGED sessionVars
          \/ Register(h)
          \/ CreateUser(h)
          \/ Login(h)
          \/ LoginByCode(h)
          \/ IssueTokens(h)
          \/ \E s \in SessionIds : Refresh(h, s)
          \/ Rotate(h)
          \/ ResetPassword(h)
          \/ ChangePassword(h)
          \/ WriteChange(h)
    \/ \E c \in CodeIds : Expire(c) /\ UNCHANGED sessionVars
    \/ \E S \in {{s} : s \in SessionIds} \cup {SessionIds} : Logout(S)
    \/ Block
    \/ Unblock

Spec == Init /\ [][Next]_vars

----------------------------------------------------------------------------
TypeOK ==
    /\ OtpTypeOK
    /\ account \in [exists : BOOLEAN, pwd : Nat, tv : Nat, blocked : BOOLEAN]
    /\ sessions \in [SessionIds -> [state : {"NONE", "LIVE", "REVOKED"}, tv : Nat, pwd : Nat,
                                    late : BOOLEAN, children : Nat]]
    /\ blocks \in 0 .. MaxBlocks

\* A refresh token is good for one rotation, whatever refreshes, logouts and
\* password changes run at once, and none is good after it (auth.service.ts
\* :232 "revoque de facon atomique ... detection de rejeu").
OneSuccessor ==
    \A s \in SessionIds :
        /\ sessions[s].children <= 1
        /\ sessions[s].children = 1 => ~Live(s)

\* A password change leaves no session of an earlier password alive, nor one
\* that descends from it, but for calls that were under way when it committed
\* (auth.service.ts:288).
OldSessionsAreRevoked ==
    \A s \in SessionIds :
        Live(s) => sessions[s].pwd = account.pwd \/ sessions[s].late
=============================================================================
