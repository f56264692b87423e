-------------------------------- MODULE Otp --------------------------------
(***************************************************************************)
(* One-time codes of one destination (otp.service.ts).  job[h] is the next *)
(* step of handler h, with what it read before its last await.  A code is  *)
(* six digits; a guess is right or wrong.                                  *)
(***************************************************************************)
EXTENDS Integers, FiniteSets

CONSTANTS
    Handlers,       \* requests the server serves at the same time
    CodeIds,        \* bound: OtpCode rows, in the order of createdAt
    MaxPerHour,     \* otp.max_requests_per_hour
    MaxAttempts,    \* otp.max_attempts
    MaxCalls        \* bound: calls served in a behaviour

ASSUME OtpAssumption ==
    /\ CodeIds \subseteq Nat \ {0}
    /\ MaxPerHour \in Nat /\ MaxAttempts \in Nat /\ MaxCalls \in Nat

VARIABLES
    codes,          \* OtpCode
    guesses,        \* per code, guesses compared with it
    used,           \* per code, calls that were let through by it
    job,
    calls

otpVars == <<codes, guesses, used, job, calls>>

Purposes == {"LOGIN", "RESET_PASSWORD"}
NoCode == [purpose |-> "NONE", attempts |-> 0, consumed |-> FALSE, expired |-> FALSE]

\* code, session: the rows it works on, or 0; goal: the purpose it verifies;
\* tv, pwd: tokenVersion and password it read with the user.
Waiting == [op |-> "waiting", code |-> 0, goal |-> "", session |-> 0, tv |-> 0, pwd |-> 0]

OtpInit ==
    /\ codes = [c \in CodeIds |-> NoCode]
    /\ guesses = [c \in CodeIds |-> 0]
    /\ used = [c \in CodeIds |-> 0]
    /\ job = [h \in Handlers |-> Waiting]
    /\ calls = 0

Begin(h, next) ==
    /\ job[h] = Waiting
    /\ calls < MaxCalls
    /\ calls' = calls + 1
    /\ job' = [job EXCEPT ![h] = next]
Then(h, op) == job' = [job EXCEPT ![h].op = op] /\ UNCHANGED calls
End(h) == job' = [job EXCEPT ![h] = Waiting] /\ UNCHANGED calls

Issued == {c \in CodeIds : codes[c].purpose # "NONE"}

----------------------------------------------------------------------------
\* issue counts the codes of the last hour, and then creates one.
UnderCap == Cardinality(Issued) < MaxPerHour

RequestCode(h, purpose) ==
    /\ UnderCap
    /\ Begin(h, [Waiting EXCEPT !.op = "createCode", !.goal = purpose])
    /\ UNCHANGED <<codes, guesses, used>>

CreateCode(h) ==
    /\ job[h].op = "createCode"
    /\ \E c \in CodeIds \ Issued :
          /\ \A d \in CodeIds \ Issued : c <= d
          /\ codes' = [codes EXCEPT ![c] = [NoCode EXCEPT !.purpose = job[h].goal]]
    /\ End(h)
    /\ UNCHANGED <<guesses, used>>

Expire(c) ==
    /\ c \in Issued
    /\ ~codes[c].expired
    /\ codes' = [codes EXCEPT ![c].expired = TRUE]
    /\ UNCHANGED <<guesses, used, job, calls>>

\* verify takes the latest code of the purpose that is not consumed ...
Latest(c, purpose) ==
    LET Pending == {d \in Issued : codes[d].purpose = purpose /\ ~codes[d].consumed}
    IN c \in Pending /\ \A d \in Pending : d <= c

FindCode(h, c, purpose) ==
    /\ Latest(c, purpose)
    /\ ~codes[c].expired
    /\ Begin(h, [Waiting EXCEPT !.op = "attempt", !.code = c, !.goal = purpose])
    /\ UNCHANGED <<codes, guesses, used>>

\* ... claims an attempt on it, in one conditional update ...
\* Mutant: one attempt too many.
AttemptsLeftOrNone(c) == codes[c].attempts <= MaxAttempts
AttemptsLeft(c) == codes[c].attempts < MaxAttempts

ClaimAttempt(h) ==
    LET c == job[h].code IN
    /\ job[h].op = "attempt"
    /\ IF AttemptsLeft(c)
       THEN /\ codes' = [codes EXCEPT ![c].attempts = @ + 1]
            /\ Then(h, "compare")
       ELSE End(h) /\ UNCHANGED codes
    /\ UNCHANGED <<guesses, used>>

WrongGuess(h) ==
    /\ job[h].op = "compare"
    /\ guesses' = [guesses EXCEPT ![job[h].code] = @ + 1]
    /\ End(h)
    /\ UNCHANGED <<codes, used>>

\* ... and consumes it, if nobody has.
RightGuess(h) ==
    LET c == job[h].code IN
    /\ job[h].op = "compare"
    /\ guesses' = [guesses EXCEPT ![c] = @ + 1]
    /\ IF ~codes[c].consumed
       THEN /\ codes' = [codes EXCEPT ![c].consumed = TRUE]
            /\ used' = [used EXCEPT ![c] = @ + 1]
            /\ Then(h, "verified")
       ELSE End(h) /\ UNCHANGED <<codes, used>>

OtpStep(h) ==
    \/ \E purpose \in Purposes : RequestCode(h, purpose)
    \/ CreateCode(h)
    \/ \E c \in CodeIds, purpose \in Purposes : FindCode(h, c, purpose)
    \/ ClaimAttempt(h)
    \/ WrongGuess(h)
    \/ RightGuess(h)

----------------------------------------------------------------------------
OtpTypeOK ==
    /\ codes \in [CodeIds -> [purpose : Purposes \cup {"NONE"}, attempts : Nat,
                              consumed : BOOLEAN, expired : BOOLEAN]]
    /\ guesses \in [CodeIds -> Nat]
    /\ used \in [CodeIds -> Nat]
    /\ calls \in 0 .. MaxCalls

\* However many calls verify a code at once, it is compared with at most
\* MaxAttempts guesses and lets one call through (otp.service.ts:87 "refuse des
\* que le plafond est atteint, meme sous concurrence", :100 "un code ne sert
\* qu'une seule fois").
GuessesAreCapped ==
    \A c \in CodeIds : guesses[c] <= MaxAttempts /\ used[c] <= 1
============================================================================
