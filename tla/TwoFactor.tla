----------------------------- MODULE TwoFactor ------------------------------
(***************************************************************************)
(* The second factor of one user (apps/api user-totp.service.ts and        *)
(* verifyTwoFactor in auth.controller.ts).  A login whose password was     *)
(* right leaves a token in Redis; the token and a code of the              *)
(* authenticator make the session.  A token and a code are to count once.  *)
(***************************************************************************)
EXTENDS Requests, Sequences

CONSTANTS Challenge,  \* tokens for the second step of a login
          Secret,     \* secrets of the authenticator
          LastPeriod  \* bound: periods of thirty seconds, a code each

ASSUME PeriodAssumption == LastPeriod \in Nat

VARIABLES secret,      \* totpSecret of the user, or "off"
          setup,       \* the secret Redis keeps while it is set up, or "none"
          challenges,  \* challenges[t]: of the token in Redis
          period,      \* its codes are valid now
          used,        \* codes marked in Redis as used
          entered,     \* history: the logins, each with its token and code
          codeCalls,   \* codeCalls[r]: the request in slot r
          codeOverlap  \* history: what two requests looked at before its use

codeVars == <<secret, setup, challenges, period, used, entered, codeCalls, codeOverlap>>

-----------------------------------------------------------------------------
\* A code belongs to a secret and a period.
Code == Secret \X (0 .. LastPeriod)
CodeCall == {Idle}
  \cup [op : {"verify"}, at : {"delete", "check", "secret", "mark", "persist"},
        tok : Challenge, code : Code]
  \cup [op : {"enable"}, at : {"setup"}, secret : {"none"}]
  \cup [op : {"enable"}, at : {"write", "clean"}, secret : Secret]

\* One type invariant for the component.
CodeTypeOK == /\ secret \in Secret \cup {"off"}
              /\ setup \in Secret \cup {"none"}
              /\ challenges \in [Challenge -> {"new", "stored", "gone"}]
              /\ period \in 0 .. LastPeriod
              /\ used \subseteq Code
              /\ entered \in Seq([tok : Challenge, code : Code])
              /\ codeCalls \in [Req -> CodeCall]
              /\ codeOverlap \subseteq {"token", "code", "redis"}

\* The user may have turned it on before.
CodeInit == /\ secret \in Secret \cup {"off"} /\ setup = "none"
            /\ challenges = [t \in Challenge |-> "new"]
            /\ period = 0 /\ used = {} /\ entered = <<>>
            /\ codeCalls = [r \in Req |-> Idle]
            /\ codeOverlap = {}

CodeAt(r, op, at) == codeCalls[r].op = op /\ codeCalls[r].at = at
CodeTo(r, at) == codeCalls' = [codeCalls EXCEPT ![r].at = at]
CodeLeave(r) == codeCalls' = End(codeCalls, r)
CodeStart(r, call) == /\ codeCalls[r] = Idle
                      /\ codeCalls' = [codeCalls EXCEPT ![r] = call]
                      /\ UNCHANGED <<secret, setup, challenges, period, used, entered, codeOverlap>>
CodeCheck(r, ok, at) ==
  /\ IF ok THEN CodeTo(r, at) ELSE CodeLeave(r)
  /\ UNCHANGED <<secret, setup, challenges, period, used, entered, codeOverlap>>

\* Other logins that have come to one of these points.
Others(r, points) == {d \in Req \ {r} : codeCalls[d].op = "verify" /\ codeCalls[d].at \in points}

-----------------------------------------------------------------------------
(***************************************************************************)
(* Turning it on and off                                                   *)
(***************************************************************************)
\* setupTotp does not ask whether it is on.
SetupTotp == /\ \E s \in Secret \ {secret} : setup' = s
             /\ UNCHANGED <<secret, challenges, period, used, entered, codeCalls, codeOverlap>>

SetupExpires == /\ setup' = "none"
                /\ UNCHANGED <<secret, challenges, period, used, entered, codeCalls, codeOverlap>>

EnableStart(r) ==
  secret = "off" /\ CodeStart(r, [op |-> "enable", at |-> "setup", secret |-> "none"])

\* The secret is fetched; the code fits or the request ends.
EnableFetch(r) ==
  /\ CodeAt(r, "enable", "setup")
  /\ \/ /\ setup \in Secret
        /\ codeCalls' = [codeCalls EXCEPT ![r].at = "write", ![r].secret = setup]
     \/ CodeLeave(r)
  /\ UNCHANGED <<secret, setup, challenges, period, used, entered, codeOverlap>>

EnableWrite(r) ==
  /\ CodeAt(r, "enable", "write")
  /\ secret' = codeCalls[r].secret
  /\ CodeTo(r, "clean")
  /\ UNCHANGED <<setup, challenges, period, used, entered, codeOverlap>>

EnableClean(r) ==
  /\ CodeAt(r, "enable", "clean")
  /\ setup' = "none"
  /\ CodeLeave(r)
  /\ UNCHANGED <<secret, challenges, period, used, entered, codeOverlap>>

\* disableTotp: the password is compared, then the row written.
DisableTotp == /\ secret' = "off"
               /\ UNCHANGED <<setup, challenges, period, used, entered, codeCalls, codeOverlap>>

-----------------------------------------------------------------------------
(***************************************************************************)
(* The second step of a login                                              *)
(***************************************************************************)
\* The password was right, and the user had it turned on.
Challenged(t) ==
  /\ challenges[t] = "new" /\ secret # "off"
  /\ challenges' = [challenges EXCEPT ![t] = "stored"]
  /\ UNCHANGED <<secret, setup, period, used, entered, codeCalls, codeOverlap>>

ChallengeExpires(t) ==
  /\ challenges[t] = "stored"
  /\ challenges' = [challenges EXCEPT ![t] = "gone"]
  /\ UNCHANGED <<secret, setup, period, used, entered, codeCalls, codeOverlap>>

VerifyStart(r) == \E t \in Challenge, c \in Secret \X (0 .. period) :
  /\ challenges[t] = "stored"
  /\ CodeStart(r, [op |-> "verify", at |-> "delete", tok |-> t, code |-> c])

\* Errors of Redis are logged; the request goes on.
RedisFails == codeOverlap' = codeOverlap \cup {"redis"}

\* The token is consumed before the code is looked at.
VerifyDelete(r) ==
  /\ CodeAt(r, "verify", "delete")
  /\ \/ /\ challenges' = [challenges EXCEPT ![codeCalls[r].tok] = "gone"]
        /\ codeOverlap' = codeOverlap \cup
             {"token" : d \in {d \in Others(r, {"delete"}) :
                                 codeCalls[d].tok = codeCalls[r].tok}}
     \/ RedisFails /\ UNCHANGED challenges
  /\ CodeTo(r, "check")
  /\ UNCHANGED <<secret, setup, period, used, entered>>

\* Mutant: a used code is good.
VerifyCheckNothing(r) == CodeAt(r, "verify", "check") /\ CodeCheck(r, TRUE, "secret")

VerifyCheck(r) ==
  /\ CodeAt(r, "verify", "check")
  /\ \/ CodeCheck(r, codeCalls[r].code \notin used, "secret")
     \/ /\ RedisFails
        /\ CodeTo(r, "secret")
        /\ UNCHANGED <<secret, setup, challenges, period, used, entered>>

\* The secret is fetched and decrypted and the code compared.
VerifyCode(r) ==
  /\ CodeAt(r, "verify", "secret")
  /\ CodeCheck(r, codeCalls[r].code = <<secret, period>>, "mark")

\* SET NX, which may fail; nobody looks at its answer.
VerifyMark(r) ==
  /\ CodeAt(r, "verify", "mark")
  /\ LET c == codeCalls[r].code
     IN \/ /\ used' = used \cup {c}
           /\ codeOverlap' = codeOverlap \cup
                {"code" : d \in {d \in Others(r, {"secret", "mark"}) :
                                   codeCalls[d].code = c}}
        \/ RedisFails /\ UNCHANGED used
  /\ CodeTo(r, "persist")
  /\ UNCHANGED <<secret, setup, challenges, period, entered>>

VerifyPersist(r) ==
  /\ CodeAt(r, "verify", "persist")
  /\ entered' = Append(entered, [tok |-> codeCalls[r].tok, code |-> codeCalls[r].code])
  /\ CodeLeave(r)
  /\ UNCHANGED <<secret, setup, challenges, period, used, codeOverlap>>

\* An error or a crash.
CodeAbort(r) == codeCalls[r] # Idle /\ CodeCheck(r, FALSE, "none")

\* Marks last for ninety seconds, longer than the code is good for.
PeriodEnds == /\ period < LastPeriod
              /\ period' = period + 1
              /\ UNCHANGED <<secret, setup, challenges, used, entered, codeCalls, codeOverlap>>

CodeHandle(r) == \/ EnableStart(r) \/ EnableFetch(r) \/ EnableWrite(r) \/ EnableClean(r)
                 \/ VerifyStart(r) \/ VerifyDelete(r) \/ VerifyCheck(r) \/ VerifyCode(r)
                 \/ VerifyMark(r) \/ VerifyPersist(r) \/ CodeAbort(r)

CodeNext == \/ \E r \in Req : CodeHandle(r)
            \/ \E t \in Challenge : Challenged(t) \/ ChallengeExpires(t)
            \/ SetupTotp \/ SetupExpires \/ DisableTotp \/ PeriodEnds

CodeSpec == CodeInit /\ [][CodeNext]_codeVars

-----------------------------------------------------------------------------
\* A token makes one login and a code makes one: unless two requests had
\* both looked at the token, or at the code, before either consumed it, or
\* Redis did not take the mark.
SecondFactorOnce ==
  {"token", "code", "redis"} \cap codeOverlap = {} =>
    \A m, n \in DOMAIN entered : m # n => /\ entered[m].tok # entered[n].tok
                                          /\ entered[m].code # entered[n].code

-----------------------------------------------------------------------------
\* Why: whoever is past the deletion has the token for itself, and it is gone;
\* whoever looked at a code that was not used and has not marked it finds it
\* not used, as another one's mark would have been an overlap.
CodeClean == {"token", "code", "redis"} \cap codeOverlap = {}
Verifying(points) == {r \in Req : codeCalls[r].op = "verify" /\ codeCalls[r].at \in points}

TokensConsumed == \A r \in Verifying({"check", "secret", "mark", "persist"}) :
  /\ challenges[codeCalls[r].tok] = "gone"
  /\ \A d \in Req \ {r} : codeCalls[d].op = "verify" => codeCalls[d].tok # codeCalls[r].tok
CodesMarked ==
  /\ \A r \in Verifying({"secret", "mark"}) : codeCalls[r].code \notin used
  /\ \A r \in Verifying({"persist"}) :
       /\ codeCalls[r].code \in used
       /\ \A d \in Verifying({"persist"}) : codeCalls[d].code = codeCalls[r].code => d = r
EntriesSettled == \A n \in DOMAIN entered :
  /\ challenges[entered[n].tok] = "gone"
  /\ entered[n].code \in used
  /\ \A r \in Req : codeCalls[r].op = "verify" => codeCalls[r].tok # entered[n].tok
  /\ \A r \in Verifying({"persist"}) : codeCalls[r].code # entered[n].code

CodeInv ==
  CodeTypeOK /\ (CodeClean => TokensConsumed /\ CodesMarked /\ EntriesSettled /\ SecondFactorOnce)
=============================================================================
