---------------------------- MODULE LoginProofs -----------------------------
(***************************************************************************)
(* Proofs about the ways to be let in: passwords, the second factor, the   *)
(* tokens of a login and OAuth.  LoginInv, CodeInv, AuthInv and OAuthInv   *)
(* are inductive, for any number of requests, challenges, logins, codes    *)
(* and tokens and any limits.                                              *)
(***************************************************************************)
EXTENDS PasswordLogin, TwoFactor, AuthSession, OAuth, FiniteSetTheorems, TLAPS

-----------------------------------------------------------------------------
(***************************************************************************)
(* Passwords                                                               *)
(***************************************************************************)
\* There are never more logins comparing than there are slots.
LEMMA ComparingFinite ==
  /\ IsFiniteSet(Comparing) /\ Cardinality(Comparing) \in Nat
  /\ Cardinality(Req) \in Nat /\ Cardinality(Comparing) <= Cardinality(Req)
<1>1. Comparing \subseteq Req
  BY DEF Comparing
<1> QED BY <1>1, RequestsAssumption, FS_Subset, FS_CardinalityType

\* One that ends its comparison is gone from them.
LEMMA ComparingLess ==
  ASSUME LoginTypeOK, NEW r \in Req, LoginAt(r, "compare"), LoginLeave(r)
  PROVE  /\ Comparing' = Comparing \ {r}
         /\ Cardinality(Comparing') = Cardinality(Comparing) - 1
         /\ Cardinality(Comparing) <= Cardinality(Req)
<1>1. Comparing' = Comparing \ {r}
  BY DEF Comparing, LoginAt, LoginLeave, End, LoginTypeOK, Idle
<1>2. r \in Comparing
  BY DEF Comparing
<1> QED BY <1>1, <1>2, ComparingFinite, FS_RemoveElement

\* Nobody joins: the slots that compare only get fewer.
LEMMA ComparingNoMore ==
  ASSUME Comparing' \subseteq Comparing
  PROVE  Cardinality(Comparing') \in Nat /\ Cardinality(Comparing') <= Cardinality(Comparing)
BY ComparingFinite, FS_Subset, FS_CardinalityType

LEMMA LoginInitInv == LoginInit => LoginInv
<1> SUFFICES ASSUME LoginInit PROVE LoginInv
  OBVIOUS
<1>1. LoginTypeOK
  BY DEF LoginInit, LoginTypeOK, LoginCall
<1>2. CounterCounts /\ LockedIsFull /\ ExpiredIsFresh /\ FewJoin
  BY AttemptsAssumption DEF LoginInit, CounterCounts, LockedIsFull, ExpiredIsFresh, FewJoin
<1> QED BY <1>1, <1>2 DEF LoginInv

\* Types are kept by every step.
LEMMA LoginTypeStep == LoginInv /\ [LoginNext]_loginVars => LoginTypeOK'
<1> SUFFICES ASSUME LoginTypeOK, [LoginNext]_loginVars PROVE LoginTypeOK'
  BY DEF LoginInv
<1>1. ASSUME NEW r \in Req, LoginFind(r) PROVE LoginTypeOK'
  <2>1. PICK at \in {"unlock", "compare"}, dirty \in BOOLEAN :
          LoginEnter(r, [op |-> "login", at |-> at, dirty |-> dirty])
    BY <1>1 DEF LoginFind
  <2>2. [op |-> "login", at |-> at, dirty |-> dirty] \in LoginCall
    BY DEF LoginCall
  <2> QED BY <2>1, <2>2 DEF LoginEnter, LoginTypeOK
<1>2. ASSUME NEW r \in Req, LoginUnlock(r) PROVE LoginTypeOK'
  BY <1>2 DEF LoginUnlock, LoginAt, LoginTypeOK, LoginCall, Idle
<1>3. ASSUME NEW r \in Req, WrongPassword(r) PROVE LoginTypeOK'
  BY <1>3 DEF WrongPassword, LoginLeave, End, LoginTypeOK, LoginCall
<1>4. ASSUME NEW r \in Req, RightPassword(r) PROVE LoginTypeOK'
  BY <1>4 DEF RightPassword, StartAgain, LoginAt, LoginLeave, End, LoginTypeOK, LoginCall, Idle
<1>5. ASSUME NEW r \in Req, SecondFactorReset(r) PROVE LoginTypeOK'
  BY <1>5 DEF SecondFactorReset, StartAgain, LoginLeave, End, LoginTypeOK, LoginCall
<1>6. ASSUME NEW r \in Req, LoginAbort(r) PROVE LoginTypeOK'
  BY <1>6 DEF LoginAbort, LoginLeave, End, LoginTypeOK, LoginCall
<1>7. CASE PasswordReset \/ LockExpires \/ UNCHANGED loginVars
  BY <1>7 DEF PasswordReset, LockExpires, StartAgain, loginVars, LoginTypeOK
<1> QED BY <1>1, <1>2, <1>3, <1>4, <1>5, <1>6, <1>7 DEF LoginNext

\* The rest is kept as well.
LEMMA LoginStepInv == LoginInv /\ [LoginNext]_loginVars => LoginInv'
<1> SUFFICES ASSUME LoginInv, [LoginNext]_loginVars, ~unlockedLate'
             PROVE  (CounterCounts /\ LockedIsFull /\ ExpiredIsFresh /\ FewJoin)'
  BY LoginTypeStep DEF LoginInv
<1> USE AttemptsAssumption DEF CounterCounts, LockedIsFull, ExpiredIsFresh, FewJoin
<1>1. LoginTypeOK /\ LoginTypeOK'
  BY LoginTypeStep DEF LoginInv
<1>2. ~unlockedLate
  BY <1>1 DEF LoginNext, LoginFind, LoginEnter, LoginUnlock, WrongPassword, RightPassword,
              SecondFactorReset, LoginAbort, PasswordReset, LockExpires, loginVars, LoginTypeOK
<1>3. CounterCounts /\ LockedIsFull /\ ExpiredIsFresh /\ FewJoin
  BY <1>2 DEF LoginInv
<1>4. failed \in Nat /\ wrong \in Nat /\ lock \in {"none", "locked", "expired"}
  BY <1>1 DEF LoginTypeOK
<1>5. Cardinality(Comparing) \in Nat /\ Cardinality(Req) \in Nat
      /\ Cardinality(Comparing) <= Cardinality(Req)
  BY ComparingFinite
<1>6. ASSUME NEW r \in Req, LoginFind(r)
      PROVE  (CounterCounts /\ LockedIsFull /\ ExpiredIsFresh /\ FewJoin)'
  BY <1>6, <1>3, <1>4 DEF LoginFind, LoginEnter
<1>7. ASSUME NEW r \in Req, LoginUnlock(r)
      PROVE  (CounterCounts /\ LockedIsFull /\ ExpiredIsFresh /\ FewJoin)'
  <2>1. lock = "expired"
    BY <1>7, Zenon DEF LoginUnlock
  <2>2. failed' = 0 /\ lock' = "none" /\ wrong' = wrong
    BY <1>7 DEF LoginUnlock
  <2> QED BY <2>1, <2>2, <1>3, <1>4
<1>8. ASSUME NEW r \in Req, WrongPassword(r)
      PROVE  (CounterCounts /\ LockedIsFull /\ ExpiredIsFresh /\ FewJoin)'
  <2>1. Cardinality(Comparing') = Cardinality(Comparing) - 1
    BY <1>1, <1>8, ComparingLess DEF WrongPassword
  <2>2. failed' = failed + 1 /\ wrong' = wrong + 1
        /\ lock' = IF failed + 1 >= MaxFailedAttempts THEN "locked" ELSE lock
    BY <1>8 DEF WrongPassword
  <2>3. MaxFailedAttempts \in Nat /\ MaxFailedAttempts > 0
    OBVIOUS
  <2>4. CounterCounts' /\ LockedIsFull' /\ ExpiredIsFresh'
    BY <2>2, <2>3, <1>3, <1>4
  <2>5. FewJoin'
    <3>1. lock = "none" => wrong + 1 <= MaxFailedAttempts
      BY <2>3, <1>3, <1>4
    <3>2. lock = "expired" => wrong + 1 <= MaxFailedAttempts
      BY <2>3, <1>3, <1>4
    <3>3. wrong' + Cardinality(Comparing') = wrong + Cardinality(Comparing)
      BY <2>1, <2>2, <1>4, <1>5
    <3>4. wrong + Cardinality(Comparing) <= MaxFailedAttempts - 1 + Cardinality(Req)
      BY <3>1, <3>2, <2>3, <1>3, <1>4, <1>5
    <3> QED BY <3>3, <3>4
  <2> QED BY <2>4, <2>5
<1>9. ASSUME NEW r \in Req, RightPassword(r)
      PROVE  (CounterCounts /\ LockedIsFull /\ ExpiredIsFresh /\ FewJoin)'
  <2>1. Comparing' \subseteq Comparing
    BY <1>1, <1>9 DEF RightPassword, Comparing, LoginAt, LoginLeave, End, Idle, LoginTypeOK
  <2>2. \/ failed' = 0 /\ wrong' = 0 /\ lock' = "none"
        \/ UNCHANGED <<failed, wrong, lock>>
    BY <1>9 DEF RightPassword, StartAgain
  <2>3. CASE failed' = 0 /\ wrong' = 0 /\ lock' = "none"
    BY <2>3
  <2>4. CASE UNCHANGED <<failed, wrong, lock>>
    BY <2>4, <2>1, ComparingNoMore, <1>3, <1>4, <1>5
  <2> QED BY <2>2, <2>3, <2>4
<1>10. ASSUME NEW r \in Req, SecondFactorReset(r)
       PROVE  (CounterCounts /\ LockedIsFull /\ ExpiredIsFresh /\ FewJoin)'
  BY <1>10 DEF SecondFactorReset, StartAgain
<1>11. ASSUME NEW r \in Req, LoginAbort(r)
       PROVE  (CounterCounts /\ LockedIsFull /\ ExpiredIsFresh /\ FewJoin)'
  <2>1. Comparing' \subseteq Comparing
    BY <1>1, <1>11 DEF LoginAbort, Comparing, LoginAt, LoginLeave, End, Idle, LoginTypeOK
  <2> QED BY <2>1, ComparingNoMore, <1>11, <1>3, <1>4, <1>5 DEF LoginAbort
<1>12. CASE PasswordReset
  BY <1>12 DEF PasswordReset, StartAgain
<1>13. CASE LockExpires
  BY <1>13, <1>3, <1>4 DEF LockExpires
<1>14. CASE UNCHANGED loginVars
  BY <1>14, <1>3 DEF loginVars, Comparing, LoginAt
<1> QED BY <1>6, <1>7, <1>8, <1>9, <1>10, <1>11, <1>12, <1>13, <1>14 DEF LoginNext

LEMMA LoginInvBounds == LoginInv => AttemptsBounded
<1> SUFFICES ASSUME LoginInv, ~unlockedLate
             PROVE  wrong <= MaxFailedAttempts - 1 + Cardinality(Req)
  BY DEF AttemptsBounded
<1> QED BY ComparingFinite, AttemptsAssumption
        DEF LoginInv, LoginTypeOK, CounterCounts, LockedIsFull, ExpiredIsFresh, FewJoin

\* The invariant, from which the two theorems follow.
THEOREM LoginInductive == LoginSpec => []LoginInv
BY LoginInitInv, LoginStepInv, PTL DEF LoginSpec

\* The types.
THEOREM LoginTypeCorrect == LoginSpec => []LoginTypeOK
<1>1. LoginInv => LoginTypeOK
  BY DEF LoginInv
<1> QED BY <1>1, LoginInductive, PTL

\* The limit on wrong passwords holds for any limit and any number of logins
\* at once: each of the others adds at most one.
THEOREM AttemptsAreBounded == LoginSpec => []AttemptsBounded
BY LoginInductive, LoginInvBounds, PTL

-----------------------------------------------------------------------------
(***************************************************************************)
(* The second factor: what becomes of the requests                         *)
(***************************************************************************)
\* What is known of a login with a second factor.
LEMMA VerifyFields ==
  ASSUME CodeTypeOK, NEW r \in Req, codeCalls[r].op = "verify"
  PROVE  /\ codeCalls[r] \in [op : {"verify"}, at : {"delete", "check", "secret", "mark", "persist"},
                              tok : Challenge, code : Code]
         /\ codeCalls[r].tok \in Challenge /\ codeCalls[r].code \in Code
<1>1. codeCalls[r] \in CodeCall
  BY DEF CodeTypeOK
<1>2. codeCalls[r] \in [op : {"verify"}, at : {"delete", "check", "secret", "mark", "persist"},
                        tok : Challenge, code : Code]
  BY <1>1 DEF CodeCall, Idle
<1> QED BY <1>2

\* One that goes on is the same login, further on.
LEMMA VerifyMoves ==
  ASSUME CodeTypeOK, NEW r \in Req, codeCalls[r].op = "verify",
         NEW at \in {"delete", "check", "secret", "mark", "persist"}, CodeTo(r, at)
  PROVE  /\ codeCalls' \in [Req -> CodeCall]
         /\ \A d \in Req \ {r} : codeCalls'[d] = codeCalls[d]
         /\ codeCalls'[r].op = "verify" /\ codeCalls'[r].at = at
         /\ codeCalls'[r].tok = codeCalls[r].tok /\ codeCalls'[r].code = codeCalls[r].code
<1> DEFINE n == [codeCalls[r] EXCEPT !.at = at]
<1>1. /\ n \in [op : {"verify"}, at : {"delete", "check", "secret", "mark", "persist"},
                tok : Challenge, code : Code]
      /\ n.op = "verify" /\ n.at = at
      /\ n.tok = codeCalls[r].tok /\ n.code = codeCalls[r].code
  BY VerifyFields
<1>2. n \in CodeCall
  BY <1>1 DEF CodeCall
<1>3. codeCalls \in [Req -> CodeCall] /\ codeCalls' = [codeCalls EXCEPT ![r] = n]
  BY DEF CodeTo, CodeTypeOK
<1> HIDE DEF n
<1> QED BY <1>1, <1>2, <1>3

\* One that leaves is gone.
LEMMA CodeLeaves ==
  ASSUME CodeTypeOK, NEW r \in Req, CodeLeave(r)
  PROVE  /\ codeCalls' \in [Req -> CodeCall]
         /\ \A d \in Req \ {r} : codeCalls'[d] = codeCalls[d]
         /\ codeCalls'[r].op = "idle"
BY DEF CodeTypeOK, CodeLeave, End, Idle, CodeCall

\* One that turns the second factor on goes on.
LEMMA EnableMoves ==
  ASSUME CodeTypeOK, NEW r \in Req, EnableWrite(r) \/ (EnableFetch(r) /\ ~CodeLeave(r))
  PROVE  /\ codeCalls' \in [Req -> CodeCall]
         /\ \A d \in Req \ {r} : codeCalls'[d] = codeCalls[d]
         /\ codeCalls'[r].op = "enable" /\ codeCalls'[r].secret \in Secret
         /\ codeCalls[r].at = "write" => codeCalls[r].secret \in Secret
<1> DEFINE Enabling == [op : {"enable"}, at : {"write", "clean"}, secret : Secret]
<1>1. codeCalls[r] \in CodeCall /\ codeCalls \in [Req -> CodeCall]
  BY DEF CodeTypeOK
<1>2. codeCalls[r].op = "enable"
  BY DEF EnableFetch, EnableWrite, CodeAt
<1>3. \/ codeCalls[r] \in [op : {"enable"}, at : {"setup"}, secret : {"none"}]
      \/ codeCalls[r] \in Enabling
  BY <1>1, <1>2 DEF CodeCall, Idle
<1>4. codeCalls[r].at = "write" => codeCalls[r].secret \in Secret
  BY <1>3
<1>5. PICK n \in Enabling : codeCalls' = [codeCalls EXCEPT ![r] = n]
  <2>1. CASE EnableFetch(r) /\ ~CodeLeave(r)
    <3> DEFINE n == [codeCalls[r] EXCEPT !.at = "write", !.secret = setup]
    <3>1. n \in Enabling
      BY <1>3, <2>1 DEF EnableFetch
    <3>2. codeCalls' = [codeCalls EXCEPT ![r] = n]
      BY <1>1, <2>1 DEF EnableFetch
    <3> QED BY <3>1, <3>2
  <2>2. CASE EnableWrite(r)
    <3>1. [codeCalls[r] EXCEPT !.at = "clean"] \in Enabling
      BY <1>3, <2>2 DEF EnableWrite, CodeAt
    <3> QED BY <3>1, <2>2 DEF EnableWrite, CodeTo
  <2> QED BY <2>1, <2>2
<1>6. n \in CodeCall
  BY DEF CodeCall
<1> QED BY <1>1, <1>4, <1>5, <1>6

LEMMA CodeInitInv == CodeInit => CodeInv
<1> SUFFICES ASSUME CodeInit PROVE CodeInv
  OBVIOUS
<1>1. CodeTypeOK
  BY PeriodAssumption DEF CodeInit, CodeTypeOK, CodeCall
<1>2. DOMAIN entered = {} /\ \A r \in Req : codeCalls[r].op = "idle"
  BY DEF CodeInit, Idle
<1> QED BY <1>1, <1>2 DEF CodeInv, TokensConsumed, CodesMarked, EntriesSettled, SecondFactorOnce,
                          Verifying

\* A new request is in its slot, the others stay.
LEMMA CodeStarts ==
  ASSUME CodeTypeOK, NEW r \in Req, NEW call \in CodeCall, CodeStart(r, call)
  PROVE  /\ CodeTypeOK' /\ codeCalls'[r] = call
         /\ \A d \in Req \ {r} : codeCalls'[d] = codeCalls[d]
         /\ UNCHANGED <<challenges, used, entered, codeOverlap>>
BY DEF CodeTypeOK, CodeStart

\* What a check decides.
LEMMA CodeChecks ==
  ASSUME CodeTypeOK, NEW r \in Req, codeCalls[r].op = "verify", NEW ok \in BOOLEAN,
         NEW at \in {"delete", "check", "secret", "mark", "persist"}, CodeCheck(r, ok, at)
  PROVE  /\ CodeTypeOK'
         /\ \A d \in Req \ {r} : codeCalls'[d] = codeCalls[d]
         /\ UNCHANGED <<challenges, used, entered, codeOverlap>>
         /\ \/ codeCalls'[r].op = "idle"
            \/ /\ ok /\ codeCalls'[r].op = "verify" /\ codeCalls'[r].at = at
               /\ codeCalls'[r].tok = codeCalls[r].tok /\ codeCalls'[r].code = codeCalls[r].code
<1>1. UNCHANGED <<secret, setup, challenges, period, used, entered, codeOverlap>>
  BY DEF CodeCheck
<1>2. CASE ok
  <2>1. CodeTo(r, at)
    BY <1>2 DEF CodeCheck
  <2> QED BY <1>1, <1>2, <2>1, VerifyMoves DEF CodeTypeOK
<1>3. CASE ~ok
  <2>1. CodeLeave(r)
    BY <1>3 DEF CodeCheck
  <2> QED BY <1>1, <2>1, CodeLeaves DEF CodeTypeOK
<1> QED BY <1>2, <1>3

LEMMA EntryFields ==
  ASSUME CodeTypeOK, NEW n \in DOMAIN entered
  PROVE  entered[n].tok \in Challenge
<1> DEFINE E == [tok : Challenge, code : Code]
<1>1. entered \in Seq(E)
  BY DEF CodeTypeOK
<1> HIDE DEF E
<1>2. n \in 1 .. Len(entered)
  BY <1>1
<1>3. entered[n] \in E
  BY <1>1, <1>2
<1> QED BY <1>3 DEF E

\* Fewer logins, tokens that stay gone: nothing to see.
LEMMA CodeQuiet ==
  ASSUME CodeInv, CodeTypeOK', codeOverlap \subseteq codeOverlap',
         \A d \in Req : codeCalls'[d] = codeCalls[d] \/ codeCalls'[d].op # "verify",
         \A t \in Challenge : challenges[t] = "gone" => challenges'[t] = "gone",
         UNCHANGED <<used, entered>>
  PROVE  CodeInv'
<1> SUFFICES ASSUME CodeClean' PROVE (TokensConsumed /\ CodesMarked /\ EntriesSettled /\ SecondFactorOnce)'
  BY DEF CodeInv
<1>1. CodeTypeOK /\ TokensConsumed /\ CodesMarked /\ EntriesSettled /\ SecondFactorOnce
  BY DEF CodeInv, CodeClean
<1>2. TokensConsumed'
  BY <1>1, VerifyFields DEF TokensConsumed, Verifying
<1>3. CodesMarked'
  BY <1>1 DEF CodesMarked, Verifying
<1>4. EntriesSettled'
  <2>1. \A n \in DOMAIN entered : challenges'[entered[n].tok] = "gone"
    BY <1>1, EntryFields DEF EntriesSettled
  <2> QED BY <1>1, <2>1 DEF EntriesSettled, Verifying
<1>5. SecondFactorOnce'
  BY <1>1 DEF SecondFactorOnce, CodeClean
<1> QED BY <1>2, <1>3, <1>4, <1>5

-----------------------------------------------------------------------------
(***************************************************************************)
(* The steps of a login                                                    *)
(***************************************************************************)
\* A new one has a token that is not gone, and is past nothing yet.
LEMMA VerifyStartInv ==
  ASSUME CodeInv, NEW r \in Req, VerifyStart(r)
  PROVE  CodeInv'
<1>1. PICK t \in Challenge, c \in Secret \X (0 .. period) :
        /\ challenges[t] = "stored"
        /\ CodeStart(r, [op |-> "verify", at |-> "delete", tok |-> t, code |-> c])
  BY DEF VerifyStart
<1>2. CodeTypeOK
  BY DEF CodeInv
<1>3. c \in Code
  BY <1>2, PeriodAssumption DEF Code, CodeTypeOK
<1> DEFINE call == [op |-> "verify", at |-> "delete", tok |-> t, code |-> c]
<1>4. call \in CodeCall /\ call.op = "verify" /\ call.at = "delete" /\ call.tok = t
  BY <1>3 DEF CodeCall
<1> HIDE DEF call
<1>5. /\ CodeTypeOK' /\ codeCalls'[r] = call
      /\ \A d \in Req \ {r} : codeCalls'[d] = codeCalls[d]
      /\ UNCHANGED <<challenges, used, entered, codeOverlap>>
  BY <1>1, <1>2, <1>4, CodeStarts DEF call
<1> SUFFICES ASSUME CodeClean' PROVE (TokensConsumed /\ CodesMarked /\ EntriesSettled /\ SecondFactorOnce)'
  BY <1>5 DEF CodeInv
<1>6. TokensConsumed /\ CodesMarked /\ EntriesSettled /\ SecondFactorOnce
  BY <1>5 DEF CodeInv, CodeClean
<1>7. TokensConsumed'
  BY <1>1, <1>4, <1>5, <1>6 DEF TokensConsumed, Verifying
<1>8. CodesMarked'
  BY <1>4, <1>5, <1>6 DEF CodesMarked, Verifying
<1>9. EntriesSettled'
  BY <1>1, <1>4, <1>5, <1>6 DEF EntriesSettled, Verifying
<1>10. SecondFactorOnce'
  BY <1>5, <1>6 DEF SecondFactorOnce
<1> QED BY <1>7, <1>8, <1>9, <1>10

\* The token is its own afterwards: had another one been about to delete it,
\* that would be an overlap, and nobody is past deleting it.
LEMMA VerifyDeleteInv ==
  ASSUME CodeInv, NEW r \in Req, VerifyDelete(r)
  PROVE  CodeInv'
<1> DEFINE t == codeCalls[r].tok
<1>1. /\ codeCalls[r].op = "verify" /\ codeCalls[r].at = "delete"
      /\ CodeTo(r, "check") /\ UNCHANGED <<secret, setup, period, used, entered>>
  BY DEF VerifyDelete, CodeAt
<1>2. CodeTypeOK
  BY DEF CodeInv
<1>3. /\ codeCalls' \in [Req -> CodeCall]
      /\ \A d \in Req \ {r} : codeCalls'[d] = codeCalls[d]
      /\ codeCalls'[r].op = "verify" /\ codeCalls'[r].at = "check"
      /\ codeCalls'[r].tok = t /\ t \in Challenge
  BY <1>1, <1>2, VerifyMoves, VerifyFields
<1>4. /\ challenges' \in [Challenge -> {"new", "stored", "gone"}]
      /\ codeOverlap \subseteq codeOverlap' /\ codeOverlap' \subseteq {"token", "code", "redis"}
  BY <1>2 DEF VerifyDelete, RedisFails, CodeTypeOK
<1>5. CodeTypeOK'
  BY <1>1, <1>2, <1>3, <1>4 DEF CodeTypeOK
<1> SUFFICES ASSUME CodeClean' PROVE (TokensConsumed /\ CodesMarked /\ EntriesSettled /\ SecondFactorOnce)'
  BY <1>5 DEF CodeInv
<1>6. TokensConsumed /\ CodesMarked /\ EntriesSettled /\ SecondFactorOnce
  BY <1>4 DEF CodeInv, CodeClean
<1>7. /\ challenges' = [challenges EXCEPT ![t] = "gone"]
      /\ \A d \in Others(r, {"delete"}) : codeCalls[d].tok # t
  BY DEF VerifyDelete, RedisFails, CodeClean
<1>8. \A u \in Challenge : challenges[u] = "gone" => challenges'[u] = "gone"
  BY <1>2, <1>7 DEF CodeTypeOK
<1>9. challenges'[t] = "gone"
  BY <1>2, <1>3, <1>7 DEF CodeTypeOK
<1>10. \A d \in Req \ {r} : codeCalls[d].op = "verify" => codeCalls[d].tok # t
  BY <1>1, <1>2, <1>6, <1>7, VerifyFields DEF TokensConsumed, Verifying, Others
<1>11. TokensConsumed'
  BY <1>2, <1>3, <1>6, <1>8, <1>9, <1>10, VerifyFields DEF TokensConsumed, Verifying
<1>12. CodesMarked'
  BY <1>1, <1>3, <1>6 DEF CodesMarked, Verifying
<1>13. EntriesSettled'
  <2>1. \A n \in DOMAIN entered : challenges'[entered[n].tok] = "gone"
    BY <1>2, <1>6, <1>8, EntryFields DEF EntriesSettled
  <2> QED BY <1>1, <1>3, <1>6, <2>1 DEF EntriesSettled, Verifying
<1>14. SecondFactorOnce'
  BY <1>1, <1>4, <1>6 DEF SecondFactorOnce, CodeClean
<1> QED BY <1>11, <1>12, <1>13, <1>14

\* Looking at the code and comparing it: who goes on has a code not used.
LEMMA VerifyLookInv ==
  ASSUME CodeInv, NEW r \in Req, VerifyCheck(r) \/ VerifyCode(r)
  PROVE  CodeInv'
<1>1. CodeTypeOK
  BY DEF CodeInv
<1>2. codeCalls[r].op = "verify" /\ codeCalls[r].at \in {"check", "secret"}
  BY DEF VerifyCheck, VerifyCode, CodeAt
<1>3. CASE RedisFails /\ CodeTo(r, "secret")
           /\ UNCHANGED <<secret, setup, challenges, period, used, entered>>
  <2>1. CodeTypeOK' /\ ~CodeClean'
    BY <1>1, <1>2, <1>3, VerifyMoves DEF CodeTypeOK, RedisFails, CodeClean
  <2> QED BY <2>1 DEF CodeInv
<1>4. CASE \/ codeCalls[r].at = "check" /\ CodeCheck(r, codeCalls[r].code \notin used, "secret")
           \/ codeCalls[r].at = "secret" /\ CodeCheck(r, codeCalls[r].code = <<secret, period>>, "mark")
  <2>1. /\ CodeTypeOK' /\ UNCHANGED <<challenges, used, entered, codeOverlap>>
        /\ \A d \in Req \ {r} : codeCalls'[d] = codeCalls[d]
        /\ \/ codeCalls'[r].op = "idle"
           \/ /\ codeCalls'[r].op = "verify" /\ codeCalls'[r].at \in {"secret", "mark"}
              /\ codeCalls'[r].tok = codeCalls[r].tok /\ codeCalls'[r].code = codeCalls[r].code
              /\ codeCalls[r].at = "secret" \/ codeCalls[r].code \notin used
    <3>1. CASE codeCalls[r].at = "check" /\ CodeCheck(r, codeCalls[r].code \notin used, "secret")
      BY <1>1, <1>2, <3>1, CodeChecks
    <3>2. CASE codeCalls[r].at = "secret" /\ CodeCheck(r, codeCalls[r].code = <<secret, period>>, "mark")
      BY <1>1, <1>2, <3>2, CodeChecks
    <3> QED BY <1>4, <3>1, <3>2
  <2> SUFFICES ASSUME CodeClean'
               PROVE  (TokensConsumed /\ CodesMarked /\ EntriesSettled /\ SecondFactorOnce)'
    BY <2>1 DEF CodeInv
  <2>2. TokensConsumed /\ CodesMarked /\ EntriesSettled /\ SecondFactorOnce
    BY <2>1 DEF CodeInv, CodeClean
  <2>3. TokensConsumed'
    BY <1>2, <2>1, <2>2 DEF TokensConsumed, Verifying
  <2>4. CodesMarked'
    BY <1>2, <2>1, <2>2 DEF CodesMarked, Verifying
  <2>5. EntriesSettled'
    BY <1>2, <2>1, <2>2 DEF EntriesSettled, Verifying
  <2>6. SecondFactorOnce'
    BY <2>1, <2>2 DEF SecondFactorOnce
  <2> QED BY <2>3, <2>4, <2>5, <2>6
<1> QED BY <1>2, <1>3, <1>4 DEF VerifyCheck, VerifyCode, CodeAt

\* The code was not used until now, so nobody else went on with it.
LEMMA VerifyMarkInv ==
  ASSUME CodeInv, NEW r \in Req, VerifyMark(r)
  PROVE  CodeInv'
<1> DEFINE c == codeCalls[r].code
<1>1. /\ codeCalls[r].op = "verify" /\ codeCalls[r].at = "mark"
      /\ CodeTo(r, "persist") /\ UNCHANGED <<secret, setup, challenges, period, entered>>
  BY DEF VerifyMark, CodeAt
<1>2. CodeTypeOK
  BY DEF CodeInv
<1>3. /\ codeCalls' \in [Req -> CodeCall]
      /\ \A d \in Req \ {r} : codeCalls'[d] = codeCalls[d]
      /\ codeCalls'[r].op = "verify" /\ codeCalls'[r].at = "persist"
      /\ codeCalls'[r].tok = codeCalls[r].tok /\ codeCalls'[r].code = c /\ c \in Code
  BY <1>1, <1>2, VerifyMoves, VerifyFields
<1>4. /\ used' \subseteq Code /\ codeOverlap \subseteq codeOverlap'
      /\ codeOverlap' \subseteq {"token", "code", "redis"}
  BY <1>2, <1>3 DEF VerifyMark, RedisFails, CodeTypeOK
<1>5. CodeTypeOK'
  BY <1>1, <1>2, <1>3, <1>4 DEF CodeTypeOK
<1> SUFFICES ASSUME CodeClean' PROVE (TokensConsumed /\ CodesMarked /\ EntriesSettled /\ SecondFactorOnce)'
  BY <1>5 DEF CodeInv
<1>6. TokensConsumed /\ CodesMarked /\ EntriesSettled /\ SecondFactorOnce
  BY <1>4 DEF CodeInv, CodeClean
<1>7. /\ used' = used \cup {c}
      /\ \A d \in Others(r, {"secret", "mark"}) : codeCalls[d].code # c
  BY DEF VerifyMark, RedisFails, CodeClean
<1>8. c \notin used
  BY <1>1, <1>6 DEF CodesMarked, Verifying
<1>9. TokensConsumed'
  BY <1>1, <1>3, <1>6 DEF TokensConsumed, Verifying
<1>10. CodesMarked'
  BY <1>1, <1>3, <1>6, <1>7, <1>8 DEF CodesMarked, Verifying, Others
<1>11. EntriesSettled'
  BY <1>1, <1>3, <1>6, <1>7, <1>8 DEF EntriesSettled, Verifying
<1>12. SecondFactorOnce'
  BY <1>1, <1>4, <1>6 DEF SecondFactorOnce, CodeClean
<1> QED BY <1>9, <1>10, <1>11, <1>12

\* The login takes its token and its code along.
LEMMA VerifyPersistInv ==
  ASSUME CodeInv, NEW r \in Req, VerifyPersist(r)
  PROVE  CodeInv'
<1> DEFINE e == [tok |-> codeCalls[r].tok, code |-> codeCalls[r].code]
<1>1. /\ codeCalls[r].op = "verify" /\ codeCalls[r].at = "persist" /\ entered' = Append(entered, e)
      /\ CodeLeave(r) /\ UNCHANGED <<secret, setup, challenges, period, used, codeOverlap>>
  BY DEF VerifyPersist, CodeAt
<1>2. CodeTypeOK
  BY DEF CodeInv
<1>3. /\ codeCalls' \in [Req -> CodeCall]
      /\ \A d \in Req \ {r} : codeCalls'[d] = codeCalls[d]
      /\ codeCalls'[r].op = "idle"
  BY <1>1, <1>2, CodeLeaves
<1>4. e \in [tok : Challenge, code : Code] /\ e.tok = codeCalls[r].tok /\ e.code = codeCalls[r].code
  BY <1>1, <1>2, VerifyFields
<1> HIDE DEF e
<1>5. entered \in Seq([tok : Challenge, code : Code]) /\ entered' \in Seq([tok : Challenge, code : Code])
  BY <1>1, <1>2, <1>4 DEF CodeTypeOK
<1>6. CodeTypeOK'
  BY <1>1, <1>2, <1>3, <1>5 DEF CodeTypeOK
<1>7. /\ DOMAIN entered = 1 .. Len(entered) /\ DOMAIN entered' = 1 .. Len(entered) + 1
      /\ \A n \in DOMAIN entered : entered'[n] = entered[n]
      /\ entered'[Len(entered) + 1] = e /\ Len(entered) \in Nat
  BY <1>1, <1>4, <1>5
<1>8. \A n \in DOMAIN entered' : n \in DOMAIN entered \/ n = Len(entered) + 1
  BY <1>7
<1> SUFFICES ASSUME CodeClean' PROVE (TokensConsumed /\ CodesMarked /\ EntriesSettled /\ SecondFactorOnce)'
  BY <1>6 DEF CodeInv
<1>9. TokensConsumed /\ CodesMarked /\ EntriesSettled /\ SecondFactorOnce
  BY <1>1 DEF CodeInv, CodeClean
<1>10. TokensConsumed' /\ CodesMarked'
  BY <1>1, <1>3, <1>9 DEF TokensConsumed, CodesMarked, Verifying
<1>11. EntriesSettled'
  <2>1. /\ challenges[e.tok] = "gone" /\ e.code \in used
        /\ \A d \in Req \ {r} : codeCalls[d].op = "verify" => codeCalls[d].tok # e.tok
        /\ \A d \in Verifying({"persist"}) \ {r} : codeCalls[d].code # e.code
    BY <1>1, <1>4, <1>9 DEF TokensConsumed, CodesMarked, Verifying
  <2>2. ASSUME NEW n \in DOMAIN entered'
        PROVE /\ challenges'[entered'[n].tok] = "gone" /\ entered'[n].code \in used'
              /\ \A d \in Req : codeCalls'[d].op = "verify" => codeCalls'[d].tok # entered'[n].tok
              /\ \A d \in Verifying({"persist"})' : codeCalls'[d].code # entered'[n].code
    <3>1. CASE n \in DOMAIN entered
      BY <1>1, <1>3, <1>7, <1>9, <3>1 DEF EntriesSettled, Verifying
    <3>2. CASE n = Len(entered) + 1
      BY <1>1, <1>3, <1>7, <2>1, <3>2 DEF Verifying
    <3> QED BY <1>8, <3>1, <3>2
  <2> QED BY <2>2 DEF EntriesSettled
<1>12. SecondFactorOnce'
  <2>1. \A n \in DOMAIN entered : entered[n].tok # e.tok /\ entered[n].code # e.code
    BY <1>1, <1>4, <1>9 DEF EntriesSettled, Verifying
  <2>2. \A m, n \in DOMAIN entered : m # n => /\ entered[m].tok # entered[n].tok
                                              /\ entered[m].code # entered[n].code
    BY <1>1, <1>9 DEF SecondFactorOnce, CodeClean
  <2> QED BY <1>7, <1>8, <2>1, <2>2 DEF SecondFactorOnce
<1> QED BY <1>10, <1>11, <1>12

\* The other requests and events leave the logins alone.
LEMMA CodeOtherInv ==
  ASSUME CodeInv,
         \/ \E r \in Req : EnableStart(r) \/ EnableFetch(r) \/ EnableWrite(r) \/ EnableClean(r) \/ CodeAbort(r)
         \/ \E t \in Challenge : Challenged(t) \/ ChallengeExpires(t)
         \/ SetupTotp \/ SetupExpires \/ DisableTotp \/ PeriodEnds
         \/ UNCHANGED codeVars
  PROVE  CodeInv'
<1>1. CodeTypeOK
  BY DEF CodeInv
<1>2. ASSUME NEW r \in Req, EnableStart(r) PROVE CodeInv'
  <2>1. [op |-> "enable", at |-> "setup", secret |-> "none"] \in CodeCall
    BY DEF CodeCall
  <2>2. CodeTypeOK'
    BY <1>1, <1>2, <2>1, CodeStarts DEF EnableStart
  <2>3. \A d \in Req : codeCalls'[d] = codeCalls[d] \/ codeCalls'[d].op = "enable"
    BY <1>1, <1>2, <2>1, CodeStarts DEF EnableStart
  <2> QED BY <1>2, <2>2, <2>3, CodeQuiet DEF EnableStart, CodeStart
<1>3. ASSUME NEW r \in Req, EnableFetch(r) \/ EnableWrite(r) \/ EnableClean(r) \/ CodeAbort(r)
      PROVE  CodeInv'
  <2>1. /\ UNCHANGED <<challenges, period, used, entered, codeOverlap>>
        /\ setup' \in {setup, "none"}
        /\ secret' = secret \/ EnableWrite(r)
    BY <1>3 DEF EnableFetch, EnableWrite, EnableClean, CodeAbort, CodeCheck
  <2>2. CodeLeave(r) \/ EnableFetch(r) \/ EnableWrite(r)
    BY <1>3 DEF EnableClean, CodeAbort, CodeCheck
  <2>3. /\ codeCalls' \in [Req -> CodeCall]
        /\ \A d \in Req : codeCalls'[d] = codeCalls[d] \/ codeCalls'[d].op # "verify"
    BY <1>1, <2>2, CodeLeaves, EnableMoves
  <2>4. CASE EnableWrite(r)
    <3>1. codeCalls[r].at = "write" /\ secret' = codeCalls[r].secret /\ CodeTo(r, "clean")
      BY <2>4 DEF EnableWrite, CodeAt
    <3>2. secret' \in Secret
      BY <1>1, <2>4, <3>1, EnableMoves
    <3> QED BY <1>1, <2>1, <2>3, <3>2, CodeQuiet DEF CodeTypeOK
  <2>5. CASE secret' = secret
    BY <1>1, <2>1, <2>3, <2>5, CodeQuiet DEF CodeTypeOK
  <2> QED BY <2>1, <2>4, <2>5
<1>4. ASSUME NEW t \in Challenge, Challenged(t) \/ ChallengeExpires(t) PROVE CodeInv'
  <2>1. CodeTypeOK' /\ UNCHANGED <<codeCalls, used, entered, codeOverlap>>
    BY <1>1, <1>4 DEF Challenged, ChallengeExpires, CodeTypeOK
  <2>2. \A u \in Challenge : challenges[u] = "gone" => challenges'[u] = "gone"
    BY <1>1, <1>4 DEF Challenged, ChallengeExpires, CodeTypeOK
  <2> QED BY <2>1, <2>2, CodeQuiet
<1>5. ASSUME SetupTotp \/ SetupExpires \/ DisableTotp \/ PeriodEnds \/ UNCHANGED codeVars
      PROVE  CodeInv'
  <2>1. UNCHANGED <<challenges, codeCalls, used, entered, codeOverlap>>
    BY <1>5 DEF SetupTotp, SetupExpires, DisableTotp, PeriodEnds, codeVars
  <2>2. setup' \in Secret \cup {"none"} /\ secret' \in Secret \cup {"off"}
        /\ period' \in 0 .. LastPeriod
    BY <1>1, <1>5, PeriodAssumption
       DEF SetupTotp, SetupExpires, DisableTotp, PeriodEnds, codeVars, CodeTypeOK
  <2>3. CodeTypeOK'
    BY <1>1, <2>1, <2>2 DEF CodeTypeOK
  <2> QED BY <2>1, <2>3, CodeQuiet
<1> QED BY <1>2, <1>3, <1>4, <1>5

LEMMA CodeStepInv == CodeInv /\ [CodeNext]_codeVars => CodeInv'
BY VerifyStartInv, VerifyDeleteInv, VerifyLookInv, VerifyMarkInv, VerifyPersistInv, CodeOtherInv
   DEF CodeNext, CodeHandle

\* The invariant.
THEOREM CodeInductive == CodeSpec => []CodeInv
BY CodeInitInv, CodeStepInv, PTL DEF CodeSpec

\* For any number of challenges, codes and requests: a token makes one login
\* and a code makes one (verifyTwoFactor), unless requests overlapped as the
\* property says or Redis failed.
THEOREM FactorCountsOnce == CodeSpec => []SecondFactorOnce
<1>1. CodeInv => SecondFactorOnce
  BY DEF CodeInv, SecondFactorOnce, CodeClean
<1> QED BY <1>1, CodeInductive, PTL

-----------------------------------------------------------------------------
(***************************************************************************)
(* Sessions: access and refresh tokens                                     *)
(***************************************************************************)
\* A row is never taken for the absence of one.
LEMMA RowsAreThere == NoToken \notin TokenRows
<1> SUFFICES ASSUME NoToken \in TokenRows PROVE FALSE
  OBVIOUS
<1>1. DOMAIN NoToken = {"login"}
  BY DEF NoToken
<1>2. "ref" \in DOMAIN NoToken
  BY DEF TokenRows
<1> QED BY <1>1, <1>2

LEMMA IssuedRows == AuthTypeOK => Issued = {k \in Token : tokens[k] \in TokenRows}
BY RowsAreThere DEF AuthTypeOK, Issued

LEMMA FreshToken == AuthTypeOK /\ Token # Issued => NewToken \in Token /\ NewToken \notin Issued
BY DEF NewToken, Issued

LEMMA FreshLogin == AuthTypeOK /\ Login # Logins => NewLogin \in Login /\ NewLogin \notin Logins
<1> SUFFICES ASSUME AuthTypeOK, Login # Logins PROVE \E l \in Login : l \notin Logins
  BY DEF NewLogin
<1>1. Logins \subseteq Login
  BY IssuedRows DEF Logins, TokenRows
<1> QED BY <1>1

LEMMA AuthInitInv == AuthInit => AuthInv
<1> SUFFICES ASSUME AuthInit PROVE AuthInv
  OBVIOUS
<1>1. AuthTypeOK
  BY DEF AuthInit, AuthTypeOK, AuthCall
<1>2. Issued = {} /\ \A r \in Req : authCalls[r].op = "idle"
  BY DEF AuthInit, Issued, Idle
<1>3. RequestsBringTokens /\ OneClaimer /\ NoOldLogins
  BY <1>2 DEF RequestsBringTokens, OneClaimer, NoOldLogins, AuthAt
<1>4. OneLivingToken /\ ClaimedIsRenewable /\ EndedLoginsStayEnded /\ ended \subseteq Logins
  BY <1>2 DEF OneLivingToken, ClaimedIsRenewable, EndedLoginsStayEnded, AuthInit
<1> QED BY <1>1, <1>3, <1>4 DEF AuthInv

\* Revoking in a row that is there gives a row.
LEMMA TokenRevokedRow ==
  ASSUME AuthTypeOK, NEW k \in Issued
  PROVE  /\ k \in Token
         /\ [tokens[k] EXCEPT !.ref = FALSE] \in TokenRows
         /\ [tokens[k] EXCEPT !.ses = FALSE] \in TokenRows
         /\ [tokens[k] EXCEPT !.ref = FALSE, !.ses = FALSE] \in TokenRows
         /\ tokens[k].login \in Login /\ tokens[k].login \in Logins
BY IssuedRows DEF TokenRows, Logins

\* A logout that has another statement to go is still a logout.
LEMMA LogoutGoesOn ==
  ASSUME AuthTypeOK, NEW r \in Req, authCalls[r].op = "logout", NEW at \in {"ref", "ses"},
         AuthTo(r, at) \/ AuthLeave(r)
  PROVE  authCalls' \in [Req -> AuthCall]
<1>1. authCalls[r] \in [op : {"logout"}, at : {"both", "ref", "ses"}, tok : Token]
  BY DEF AuthTypeOK, AuthCall, Idle
<1>2. [authCalls[r] EXCEPT !.at = at] \in [op : {"logout"}, at : {"both", "ref", "ses"}, tok : Token]
  BY <1>1
<1>3. [authCalls[r] EXCEPT !.at = at] \in AuthCall /\ Idle \in AuthCall
  BY <1>2 DEF AuthCall
<1> QED BY <1>3 DEF AuthTypeOK, AuthTo, AuthLeave, End

\* Types, one action at a time.
LEMMA AuthTypeStep ==
  ASSUME AuthTypeOK, RequestsBringTokens, [AuthNext]_authVars PROVE AuthTypeOK'
<1>1. ASSUME NEW r \in Req, LoginCheck(r) PROVE AuthTypeOK'
  BY <1>1 DEF LoginCheck, AuthStart, AuthTypeOK, AuthCall
<1>2. ASSUME NEW r \in Req, LoginPersist(r) PROVE AuthTypeOK'
  BY <1>2, FreshToken, FreshLogin
  DEF LoginPersist, Persist, AuthLeave, End, AuthTypeOK, AuthCall, TokenRows
<1>3. ASSUME NEW r \in Req, RefreshStart(r) \/ LogoutStart(r) \/ ResetFind(r) \/ ChangeFind(r)
                            \/ RevokeFind(r) PROVE AuthTypeOK'
  <2>1. PICK call \in AuthCall : AuthStart(r, call)
    <3>1. CASE RefreshStart(r)
      BY <3>1 DEF RefreshStart, Issued, AuthCall
    <3>2. CASE LogoutStart(r)
      BY <3>2 DEF LogoutStart, Issued, AuthCall
    <3>3. CASE ResetFind(r)
      BY <3>3 DEF ResetFind, AuthCall
    <3>4. CASE ChangeFind(r)
      BY <3>4 DEF ChangeFind, Issued, AuthCall
    <3>5. CASE RevokeFind(r)
      BY <3>5 DEF RevokeFind, Issued, AuthCall
    <3> QED BY <1>3, <3>1, <3>2, <3>3, <3>4, <3>5
  <2> QED BY <2>1 DEF AuthStart, AuthTypeOK
<1>4. ASSUME NEW r \in Req, RefreshClaim(r) PROVE AuthTypeOK'
  BY <1>4 DEF RefreshClaim, AuthAt, AuthTo, AuthLeave, End, AuthTypeOK, AuthCall, Idle
<1>5. ASSUME NEW r \in Req, RefreshCommit(r) PROVE AuthTypeOK'
  BY <1>5, FreshToken, IssuedRows
  DEF RefreshCommit, RequestsBringTokens, AuthAt, AuthLeave, End, AuthTypeOK, AuthCall, TokenRows
<1>6. ASSUME NEW r \in Req, LogoutRef(r) PROVE AuthTypeOK'
  <2>1. authCalls[r].op = "logout" /\ authCalls[r].tok \in Issued
    BY <1>6 DEF LogoutRef, AuthAt, RequestsBringTokens
  <2>2. tokens' \in [Token -> TokenRows \cup {NoToken}] /\ ended' \subseteq Login
    BY <1>6, <2>1, TokenRevokedRow DEF LogoutRef, AuthTypeOK
  <2>3. authOverlap' \subseteq {"refresh", "login"}
    BY <1>6 DEF LogoutRef, AuthTypeOK
  <2>4. authCalls' \in [Req -> AuthCall]
    BY <1>6, <2>1, LogoutGoesOn DEF LogoutRef
  <2> QED BY <2>2, <2>3, <2>4 DEF AuthTypeOK
<1>7. ASSUME NEW r \in Req, LogoutSes(r) PROVE AuthTypeOK'
  <2>1. authCalls[r].op = "logout" /\ authCalls[r].tok \in Issued
    BY <1>7 DEF LogoutSes, AuthAt, RequestsBringTokens
  <2>2. tokens' \in [Token -> TokenRows \cup {NoToken}]
    BY <1>7, <2>1, TokenRevokedRow DEF LogoutSes, AuthTypeOK
  <2>3. authCalls' \in [Req -> AuthCall]
    BY <1>7, <2>1, LogoutGoesOn DEF LogoutSes
  <2> QED BY <1>7, <2>2, <2>3 DEF AuthTypeOK, LogoutSes
<1>8. ASSUME NEW r \in Req, NEW kept, NEW keptLogins, RevokeRows(r, kept, keptLogins)
      PROVE  AuthTypeOK'
  <2>1. tokens' \in [Token -> TokenRows \cup {NoToken}]
    BY <1>8, TokenRevokedRow DEF RevokeRows, AuthTypeOK
  <2>2. Logins \subseteq Login
    BY TokenRevokedRow DEF Logins
  <2>3. ended' \subseteq Login /\ authOverlap' \subseteq {"refresh", "login"}
    BY <1>8, <2>2 DEF RevokeRows, AuthTypeOK
  <2>4. ASSUME NEW d \in Req, authCalls[d].op = "login"
        PROVE  [authCalls[d] EXCEPT !.old = TRUE] \in AuthCall
    <3>1. authCalls[d] \in [op : {"login"}, at : {"persist"}, old : BOOLEAN]
      BY <2>4 DEF AuthTypeOK, AuthCall, Idle
    <3>2. [authCalls[d] EXCEPT !.old = TRUE] \in [op : {"login"}, at : {"persist"}, old : BOOLEAN]
      BY <3>1
    <3> QED BY <3>2 DEF AuthCall
  <2>5. authCalls' \in [Req -> AuthCall]
    <3>1. Idle \in AuthCall
      BY DEF AuthCall
    <3> QED BY <1>8, <2>4, <3>1 DEF RevokeRows, AuthTypeOK
  <2> QED BY <2>1, <2>3, <2>5 DEF AuthTypeOK
<1>9. ASSUME NEW r \in Req, RevokeWrite(r) PROVE AuthTypeOK'
  BY <1>9, IssuedRows
  DEF RevokeWrite, RequestsBringTokens, AuthAt, AuthLeave, End, AuthTypeOK, AuthCall, TokenRows
<1>10. CASE RevokeOthers
  BY <1>10, IssuedRows DEF RevokeOthers, AuthTypeOK, TokenRows
<1>11. ASSUME NEW r \in Req, AuthAbort(r) PROVE AuthTypeOK'
  BY <1>11 DEF AuthAbort, AuthLeave, End, AuthTypeOK, AuthCall
<1>12. CASE UNCHANGED authVars
  BY <1>12 DEF authVars, AuthTypeOK
<1> QED
  BY <1>1, <1>2, <1>3, <1>4, <1>5, <1>6, <1>7, <1>8, <1>9, <1>10, <1>11, <1>12
  DEF AuthNext, AuthHandle, ResetWrite, ChangeWrite

-----------------------------------------------------------------------------
\* What a request brings with it.
Bring == {"refresh", "logout", "change", "revoke"}
Claims(r) == AuthAt(r, "refresh", "commit")

\* A step that issues nothing: every login keeps its tokens, none comes back
\* to life, and nobody claims one.
LEMMA NothingIssued ==
  ASSUME AuthInv, AuthTypeOK',
         \A k \in Token : tokens'[k] = NoToken <=> tokens[k] = NoToken,
         \A k \in Issued : /\ tokens'[k].login = tokens[k].login
                           /\ tokens'[k].ref => tokens[k].ref,
         \A r \in Req : authCalls'[r].op \in Bring => authCalls'[r].tok \in Issued,
         \A r \in Req : Claims(r)' => Claims(r) /\ authCalls'[r].tok = authCalls[r].tok
  PROVE  /\ RequestsBringTokens' /\ OneClaimer' /\ OneLivingToken'
         /\ Issued' = Issued /\ Logins' = Logins
         /\ \A k \in Issued : Claimed(k)' => Claimed(k)
<1>1. Issued' = Issued
  BY DEF Issued
<1>2. Logins' = Logins
  BY <1>1 DEF Logins
<1>3. RequestsBringTokens'
  BY <1>1 DEF RequestsBringTokens, Bring
<1>4. OneClaimer'
  BY DEF AuthInv, OneClaimer, Claims
<1>5. ASSUME NEW k \in Issued, Claimed(k)' PROVE Claimed(k)
  BY <1>5 DEF Claimed, Claims, AuthAt
<1>6. ASSUME NEW k \in Issued, LivingToken(k)' PROVE LivingToken(k)
  BY <1>1, <1>5, <1>6 DEF LivingToken, Renewable
<1>7. OneLivingToken'
  BY <1>1, <1>6 DEF AuthInv, OneLivingToken
<1> QED BY <1>1, <1>2, <1>3, <1>4, <1>5, <1>7

\* A step that only moves a request, starts one or ends it.
LEMMA OnlyCalls ==
  ASSUME AuthInv, AuthTypeOK', UNCHANGED <<tokens, ended, authOverlap>>,
         \A r \in Req : authCalls'[r].op \in Bring => authCalls'[r].tok \in Issued,
         \A r \in Req : Claims(r)' => Claims(r) /\ authCalls'[r].tok = authCalls[r].tok,
         \A r \in Req : authCalls'[r].op = "login" => authCalls'[r] = authCalls[r]
                                                     \/ ~authCalls'[r].old
  PROVE  AuthInv'
<1>1. /\ RequestsBringTokens' /\ OneClaimer' /\ OneLivingToken'
      /\ Issued' = Issued /\ Logins' = Logins
      /\ \A k \in Issued : Claimed(k)' => Claimed(k)
  BY NothingIssued
<1>2. ASSUME authOverlap' = {} PROVE ClaimedIsRenewable' /\ NoOldLogins' /\ EndedLoginsStayEnded'
  <2>1. ClaimedIsRenewable /\ NoOldLogins /\ EndedLoginsStayEnded
    BY <1>2 DEF AuthInv
  <2>2. ClaimedIsRenewable' /\ EndedLoginsStayEnded'
    BY <1>1, <1>2, <2>1 DEF ClaimedIsRenewable, EndedLoginsStayEnded, Renewable
  <2>3. NoOldLogins'
    BY <2>1 DEF NoOldLogins
  <2> QED BY <2>2, <2>3
<1> QED BY <1>1, <1>2 DEF AuthInv

\* A step that only ends session rows.
LEMMA OnlySessions ==
  ASSUME AuthInv, AuthTypeOK', UNCHANGED <<ended, authOverlap>>,
         \A k \in Token : tokens'[k] = NoToken <=> tokens[k] = NoToken,
         \A k \in Issued : tokens'[k].login = tokens[k].login /\ tokens'[k].ref = tokens[k].ref,
         \A r \in Req : authCalls'[r].op \in Bring => authCalls'[r].tok \in Issued,
         \A r \in Req : Claims(r)' => Claims(r) /\ authCalls'[r].tok = authCalls[r].tok,
         \A r \in Req : authCalls'[r].op = "login" => authCalls'[r] = authCalls[r]
  PROVE  AuthInv'
<1>1. /\ RequestsBringTokens' /\ OneClaimer' /\ OneLivingToken'
      /\ Issued' = Issued /\ Logins' = Logins
      /\ \A k \in Issued : Claimed(k)' => Claimed(k)
  BY NothingIssued
<1>2. ASSUME authOverlap' = {} PROVE ClaimedIsRenewable' /\ NoOldLogins' /\ EndedLoginsStayEnded'
  <2>1. ClaimedIsRenewable /\ NoOldLogins /\ EndedLoginsStayEnded
    BY <1>2 DEF AuthInv
  <2>2. ClaimedIsRenewable' /\ EndedLoginsStayEnded'
    BY <1>1, <2>1 DEF ClaimedIsRenewable, EndedLoginsStayEnded, Renewable
  <2>3. NoOldLogins'
    BY <2>1 DEF NoOldLogins
  <2> QED BY <2>2, <2>3
<1> QED BY <1>1, <1>2 DEF AuthInv

-----------------------------------------------------------------------------
\* A request that starts has claimed nothing, and compares what is stored.
LEMMA StartStep ==
  ASSUME AuthInv, AuthTypeOK', NEW r \in Req, NEW call, AuthStart(r, call),
         call.op \in Bring => call.tok \in Issued,
         call.op = "refresh" => call.at # "commit",
         call.op = "login" => ~call.old
  PROVE  AuthInv'
<1>1. \A d \in Req : authCalls'[d] = IF d = r THEN call ELSE authCalls[d]
  BY DEF AuthStart, AuthInv, AuthTypeOK
<1>2. \A d \in Req : authCalls'[d].op \in Bring => authCalls'[d].tok \in Issued
  BY <1>1 DEF AuthInv, RequestsBringTokens, Bring
<1>3. \A d \in Req : Claims(d)' => Claims(d) /\ authCalls'[d].tok = authCalls[d].tok
  BY <1>1 DEF Claims, AuthAt
<1>4. \A d \in Req : authCalls'[d].op = "login" => authCalls'[d] = authCalls[d]
                                                   \/ ~authCalls'[d].old
  BY <1>1
<1>5. UNCHANGED <<tokens, ended, authOverlap>>
  BY DEF AuthStart
<1> QED BY <1>2, <1>3, <1>4, <1>5, OnlyCalls

LEMMA StartsStep ==
  ASSUME AuthInv, AuthTypeOK', NEW r \in Req,
         \/ LoginCheck(r) \/ RefreshStart(r) \/ LogoutStart(r) \/ ResetFind(r) \/ ChangeFind(r)
         \/ RevokeFind(r)
  PROVE  AuthInv'
<1>1. CASE LoginCheck(r)
  BY <1>1, StartStep DEF LoginCheck, Bring
<1>2. CASE RefreshStart(r)
  BY <1>2, StartStep DEF RefreshStart
<1>3. CASE LogoutStart(r)
  BY <1>3, StartStep DEF LogoutStart
<1>4. CASE ResetFind(r)
  BY <1>4, StartStep DEF ResetFind, Bring
<1>5. CASE ChangeFind(r)
  BY <1>5, StartStep DEF ChangeFind
<1>6. CASE RevokeFind(r)
  BY <1>6, StartStep DEF RevokeFind
<1> QED BY <1>1, <1>2, <1>3, <1>4, <1>5, <1>6

\* A request that brings a token and leaves or goes on still brings it.
LEMMA CallsAfter ==
  ASSUME AuthTypeOK, NEW r \in Req, authCalls[r].op \in Bring, NEW at,
         AuthLeave(r) \/ AuthTo(r, at)
  PROVE  /\ \A d \in Req \ {r} : authCalls'[d] = authCalls[d]
         /\ \/ authCalls'[r] = Idle
            \/ /\ authCalls'[r].op = authCalls[r].op /\ authCalls'[r].at = at
               /\ authCalls'[r].tok = authCalls[r].tok
<1>1. /\ [authCalls[r] EXCEPT !.at = at].op = authCalls[r].op
      /\ [authCalls[r] EXCEPT !.at = at].tok = authCalls[r].tok
      /\ [authCalls[r] EXCEPT !.at = at].at = at
  BY DEF AuthTypeOK, AuthCall, Idle, Bring
<1>2. CASE AuthLeave(r)
  BY <1>2 DEF AuthTypeOK, AuthLeave, End
<1>3. CASE AuthTo(r, at)
  BY <1>1, <1>3 DEF AuthTypeOK, AuthTo
<1> QED BY <1>2, <1>3

\* Ending the session row keeps the login and the token's row.
LEMMA SessionRow ==
  ASSUME AuthTypeOK, NEW k \in Issued
  PROVE  /\ [tokens[k] EXCEPT !.ses = FALSE].login = tokens[k].login
         /\ [tokens[k] EXCEPT !.ses = FALSE].ref = tokens[k].ref
         /\ [tokens[k] EXCEPT !.ses = FALSE] # NoToken
         /\ tokens[k] # NoToken /\ k \in Token
<1>1. tokens[k] \in TokenRows
  BY IssuedRows
<1>2. [tokens[k] EXCEPT !.ses = FALSE] \in TokenRows
  BY TokenRevokedRow
<1> QED BY <1>1, <1>2, RowsAreThere DEF TokenRows, Issued

LEMMA AbortStep ==
  ASSUME AuthInv, AuthTypeOK', NEW r \in Req, AuthAbort(r) PROVE AuthInv'
<1>1. \A d \in Req : authCalls'[d] = IF d = r THEN Idle ELSE authCalls[d]
  BY DEF AuthAbort, AuthLeave, End, AuthInv, AuthTypeOK
<1>2. \A d \in Req : authCalls'[d].op \in Bring => authCalls'[d].tok \in Issued
  BY <1>1 DEF AuthInv, RequestsBringTokens, Bring, Idle
<1>3. \A d \in Req : Claims(d)' => Claims(d) /\ authCalls'[d].tok = authCalls[d].tok
  BY <1>1 DEF Claims, AuthAt, Idle
<1>4. \A d \in Req : authCalls'[d].op = "login" => authCalls'[d] = authCalls[d]
                                                   \/ ~authCalls'[d].old
  BY <1>1 DEF Idle
<1>5. UNCHANGED <<tokens, ended, authOverlap>>
  BY DEF AuthAbort
<1> QED BY <1>2, <1>3, <1>4, <1>5, OnlyCalls

\* The three that end session rows only.
LEMMA SessionsStep ==
  ASSUME AuthInv, AuthTypeOK', NEW r \in Req, LogoutSes(r) \/ RevokeWrite(r) PROVE AuthInv'
<1>0. AuthTypeOK
  BY DEF AuthInv
<1>1. authCalls[r].op \in {"logout", "revoke"} /\ authCalls[r].tok \in Issued
  BY DEF LogoutSes, RevokeWrite, AuthAt, AuthInv, RequestsBringTokens
<1>2. tokens' = [tokens EXCEPT ![authCalls[r].tok].ses = FALSE] /\ UNCHANGED <<ended, authOverlap>>
  BY DEF LogoutSes, RevokeWrite
<1>3. AuthLeave(r) \/ AuthTo(r, "ref")
  BY DEF LogoutSes, RevokeWrite
<1>4. /\ \A d \in Req \ {r} : authCalls'[d] = authCalls[d]
      /\ \/ authCalls'[r] = Idle
         \/ authCalls'[r].op = authCalls[r].op /\ authCalls'[r].tok = authCalls[r].tok
  <2>1. CASE AuthLeave(r)
    BY <1>0, <1>1, <2>1, CallsAfter DEF Bring
  <2>2. CASE AuthTo(r, "ref")
    BY <1>0, <1>1, <2>2, CallsAfter DEF Bring
  <2> QED BY <1>3, <2>1, <2>2
<1>5. \A d \in Req : authCalls'[d].op \in Bring => authCalls'[d].tok \in Issued
  BY <1>4 DEF AuthInv, RequestsBringTokens, Bring, Idle
<1>6. \A d \in Req : Claims(d)' => Claims(d) /\ authCalls'[d].tok = authCalls[d].tok
  BY <1>1, <1>4 DEF Claims, AuthAt, Idle
<1>7. \A d \in Req : authCalls'[d].op = "login" => authCalls'[d] = authCalls[d]
  BY <1>1, <1>4 DEF Idle
<1>8. tokens' \in [Token -> TokenRows \cup {NoToken}]
  BY DEF AuthTypeOK
<1>9. \A k \in Issued : /\ tokens'[k].login = tokens[k].login /\ tokens'[k].ref = tokens[k].ref
                        /\ tokens'[k] # NoToken
  BY <1>0, <1>1, <1>2, SessionRow DEF AuthTypeOK
<1>10. \A k \in Token : tokens'[k] = NoToken <=> tokens[k] = NoToken
  BY <1>0, <1>1, <1>2, <1>9 DEF AuthTypeOK, Issued
<1> QED BY <1>2, <1>5, <1>6, <1>7, <1>9, <1>10, OnlySessions

LEMMA RevokeOthersStep == ASSUME AuthInv, AuthTypeOK', RevokeOthers PROVE AuthInv'
<1>0. AuthTypeOK
  BY DEF AuthInv
<1>1. UNCHANGED <<ended, authCalls, authOverlap>>
  BY DEF RevokeOthers
<1>2. \A k \in Issued : /\ tokens'[k].login = tokens[k].login /\ tokens'[k].ref = tokens[k].ref
                        /\ tokens'[k] # NoToken
  BY <1>0, SessionRow DEF RevokeOthers
<1>3. \A k \in Token : tokens'[k] = NoToken <=> tokens[k] = NoToken
  BY <1>2 DEF RevokeOthers, Issued
<1>4. \A d \in Req : authCalls'[d].op \in Bring => authCalls'[d].tok \in Issued
  BY <1>1 DEF AuthInv, RequestsBringTokens, Bring
<1>5. \A d \in Req : Claims(d)' => Claims(d) /\ authCalls'[d].tok = authCalls[d].tok
  BY <1>1 DEF Claims, AuthAt
<1> QED BY <1>1, <1>2, <1>3, <1>4, <1>5, OnlySessions

-----------------------------------------------------------------------------
\* The claim of a renewable token nobody has claimed.
LEMMA ClaimStep == ASSUME AuthInv, AuthTypeOK', NEW r \in Req, RefreshClaim(r) PROVE AuthInv'
<1> DEFINE k == authCalls[r].tok
<1>0. AuthTypeOK /\ authCalls[r].op = "refresh" /\ authCalls[r].at = "claim" /\ k \in Issued
  BY DEF RefreshClaim, AuthAt, AuthInv, RequestsBringTokens
<1>1. UNCHANGED <<tokens, ended, authOverlap>> /\ ~Claimed(k)
  BY DEF RefreshClaim
<1>2. CASE AuthLeave(r)
  <2>1. \A d \in Req : authCalls'[d] = IF d = r THEN Idle ELSE authCalls[d]
    BY <1>0, <1>2 DEF AuthLeave, End, AuthTypeOK
  <2>2. \A d \in Req : authCalls'[d].op \in Bring => authCalls'[d].tok \in Issued
    BY <2>1 DEF AuthInv, RequestsBringTokens, Bring, Idle
  <2>3. \A d \in Req : Claims(d)' => Claims(d) /\ authCalls'[d].tok = authCalls[d].tok
    BY <2>1 DEF Claims, AuthAt, Idle
  <2>4. \A d \in Req : authCalls'[d].op = "login" => authCalls'[d] = authCalls[d]
    BY <2>1 DEF Idle
  <2> QED BY <1>1, <2>2, <2>3, <2>4, OnlyCalls
<1>3. CASE Renewable(k) /\ AuthTo(r, "commit")
  <2>1. /\ \A d \in Req \ {r} : authCalls'[d] = authCalls[d]
        /\ \/ authCalls'[r] = Idle
           \/ authCalls'[r].op = "refresh" /\ authCalls'[r].at = "commit" /\ authCalls'[r].tok = k
    BY <1>0, <1>3, CallsAfter DEF Bring
  <2>2. Issued' = Issued /\ Logins' = Logins /\ \A n \in Issued : Renewable(n)' <=> Renewable(n)
    BY <1>1 DEF Issued, Logins, Renewable
  <2>3. RequestsBringTokens'
    BY <1>0, <2>1, <2>2 DEF AuthInv, RequestsBringTokens, Idle
  <2>4. OneClaimer'
    BY <1>0, <1>1, <2>1 DEF AuthInv, OneClaimer, AuthAt, Claimed, Idle
  <2>5. \A n \in Issued : Claimed(n)' => Claimed(n) \/ n = k
    BY <2>1 DEF Claimed, Idle
  <2>6. \A n \in Issued : LivingToken(n)' => LivingToken(n)
    BY <1>3, <2>2, <2>5 DEF LivingToken
  <2>7. OneLivingToken'
    BY <1>1, <2>2, <2>6 DEF AuthInv, OneLivingToken
  <2>8. ASSUME authOverlap' = {} PROVE ClaimedIsRenewable' /\ NoOldLogins' /\ EndedLoginsStayEnded'
    <3>1. ClaimedIsRenewable /\ NoOldLogins /\ EndedLoginsStayEnded
      BY <1>1, <2>8 DEF AuthInv
    <3>2. ClaimedIsRenewable' /\ EndedLoginsStayEnded'
      BY <1>1, <1>3, <2>2, <2>5, <3>1 DEF ClaimedIsRenewable, EndedLoginsStayEnded
    <3>3. NoOldLogins'
      BY <2>1, <3>1 DEF NoOldLogins, Idle
    <3> QED BY <3>2, <3>3
  <2> QED BY <1>1, <2>2, <2>3, <2>4, <2>7, <2>8 DEF AuthInv
<1> QED BY <1>2, <1>3 DEF RefreshClaim

\* The commit hands the claimed token's life over to a new one.
LEMMA CommitStep == ASSUME AuthInv, AuthTypeOK', NEW r \in Req, RefreshCommit(r) PROVE AuthInv'
<1> DEFINE k == authCalls[r].tok
           n == NewToken
<1>0. AuthTypeOK /\ Claims(r) /\ k \in Issued /\ k \in Token /\ LivingToken(k) /\ Claimed(k)
  BY TokenRevokedRow DEF RefreshCommit, Claims, AuthAt, AuthInv, RequestsBringTokens, LivingToken, Claimed
<1>1. n \in Token /\ n \notin Issued
  BY <1>0, FreshToken DEF RefreshCommit
<1> HIDE DEF n
<1>2. tokens' = [tokens EXCEPT ![k].ref = FALSE, ![k].ses = FALSE,
                   ![n] = [login |-> tokens[k].login, ref |-> TRUE, ses |-> TRUE]]
      /\ UNCHANGED <<ended, authOverlap>>
  BY DEF RefreshCommit, n
<1>3. \A d \in Req : authCalls'[d] = IF d = r THEN Idle ELSE authCalls[d]
  BY <1>0 DEF RefreshCommit, AuthLeave, End, AuthTypeOK
<1>4. /\ tokens'[n] = [login |-> tokens[k].login, ref |-> TRUE, ses |-> TRUE]
      /\ tokens'[k].login = tokens[k].login /\ tokens'[k].ref = FALSE /\ tokens'[k] # NoToken
      /\ \A d \in Token \ {k, n} : tokens'[d] = tokens[d]
  <2>1. tokens[k] \in TokenRows
    BY <1>0, IssuedRows
  <2>2. tokens'[k] = [tokens[k] EXCEPT !.ref = FALSE, !.ses = FALSE]
    BY <1>0, <1>1, <1>2 DEF AuthTypeOK
  <2>3. tokens'[k] \in TokenRows
    BY <1>0, <2>2, TokenRevokedRow
  <2>4. tokens'[k].login = tokens[k].login /\ tokens'[k].ref = FALSE
    BY <2>1, <2>2 DEF TokenRows
  <2> QED BY <1>0, <1>1, <1>2, <2>3, <2>4, RowsAreThere DEF AuthTypeOK
<1>5. Issued' = Issued \cup {n}
  <2>1. tokens'[n] # NoToken
    <3>1. tokens[k].login \in Login
      BY <1>0, TokenRevokedRow
    <3>2. tokens'[n] \in TokenRows
      BY <1>4, <3>1 DEF TokenRows
    <3> QED BY <3>2, RowsAreThere
  <2> QED BY <1>0, <1>1, <1>4, <2>1 DEF Issued
<1>6. \A d \in Issued : tokens'[d].login = tokens[d].login /\ (tokens'[d].ref => tokens[d].ref)
  BY <1>1, <1>4 DEF Issued
<1>7. tokens'[n].login = tokens[k].login
  BY <1>4
<1>8. Logins' = Logins
  BY <1>0, <1>1, <1>5, <1>6, <1>7 DEF Logins
<1>9. RequestsBringTokens'
  BY <1>3, <1>5 DEF AuthInv, RequestsBringTokens, Idle
<1>10. OneClaimer'
  BY <1>3 DEF AuthInv, OneClaimer, AuthAt, Idle
<1>11. \A d \in Token : Claimed(d)' => Claimed(d) /\ d # k /\ d \in Issued
  BY <1>0, <1>3 DEF Claimed, Claims, AuthInv, OneClaimer, RequestsBringTokens, AuthAt, Idle
<1>12. \A d \in Issued' : LivingToken(d)' => d = n \/ (d \in Issued /\ d # k /\ LivingToken(d))
  BY <1>4, <1>5, <1>6, <1>11 DEF LivingToken, Renewable, Issued
<1>13. OneLivingToken'
  <2> SUFFICES ASSUME NEW a \in Issued', NEW b \in Issued', LivingToken(a)', LivingToken(b)',
                      tokens'[a].login = tokens'[b].login
               PROVE  a = b
    BY DEF OneLivingToken
  <2> QED BY <1>0, <1>6, <1>7, <1>12 DEF AuthInv, OneLivingToken
<1>14. ASSUME authOverlap' = {} PROVE ClaimedIsRenewable' /\ NoOldLogins' /\ EndedLoginsStayEnded'
  <2>1. ClaimedIsRenewable /\ NoOldLogins /\ EndedLoginsStayEnded
    BY <1>2, <1>14 DEF AuthInv
  <2>2. ClaimedIsRenewable'
    BY <1>4, <1>5, <1>11, <2>1 DEF ClaimedIsRenewable, Renewable, Issued
  <2>3. tokens[k].login \notin ended
    BY <1>0, <1>2, <1>14, <2>1 DEF ClaimedIsRenewable, EndedLoginsStayEnded
  <2>4. EndedLoginsStayEnded'
    <3> SUFFICES ASSUME NEW d \in Issued', Renewable(d)' PROVE tokens'[d].login \notin ended'
      BY DEF EndedLoginsStayEnded
    <3>1. CASE d = n
      BY <1>2, <1>7, <2>3, <3>1
    <3>2. CASE d \in Issued
      <4>1. tokens'[d].login = tokens[d].login /\ Renewable(d)
        BY <1>6, <3>2 DEF Renewable
      <4> QED BY <1>2, <1>14, <2>1, <3>2, <4>1 DEF EndedLoginsStayEnded
    <3> QED BY <1>5, <3>1, <3>2
  <2>5. NoOldLogins'
    BY <1>3, <2>1 DEF NoOldLogins, Idle
  <2> QED BY <2>2, <2>4, <2>5
<1> QED BY <1>2, <1>8, <1>9, <1>10, <1>13, <1>14 DEF AuthInv

\* A login begins with a token of its own.
LEMMA PersistStep == ASSUME AuthInv, AuthTypeOK', NEW r \in Req, LoginPersist(r) PROVE AuthInv'
<1> DEFINE n == NewToken
           l == NewLogin
<1>0. AuthTypeOK /\ authCalls[r].op = "login"
  BY DEF LoginPersist, AuthAt, AuthInv
<1>1. n \in Token /\ n \notin Issued /\ l \in Login /\ l \notin Logins
  BY <1>0, FreshToken, FreshLogin DEF LoginPersist
<1> HIDE DEF n, l
<1>2. /\ tokens' = [tokens EXCEPT ![n] = [login |-> l, ref |-> TRUE, ses |-> TRUE]]
      /\ ended' = IF authCalls[r].old THEN ended \cup {l} ELSE ended
      /\ UNCHANGED authOverlap
  BY DEF LoginPersist, Persist, n, l
<1>3. \A d \in Req : authCalls'[d] = IF d = r THEN Idle ELSE authCalls[d]
  BY <1>0 DEF LoginPersist, AuthLeave, End, AuthTypeOK
<1>4. /\ tokens'[n] = [login |-> l, ref |-> TRUE, ses |-> TRUE]
      /\ \A d \in Token \ {n} : tokens'[d] = tokens[d]
  BY <1>0, <1>1, <1>2 DEF AuthTypeOK
<1>5. tokens'[n].login = l
  BY <1>4
<1>6. Issued' = Issued \cup {n}
  <2>1. tokens'[n] \in TokenRows
    BY <1>1, <1>4 DEF TokenRows
  <2>2. tokens'[n] # NoToken
    BY <2>1, RowsAreThere
  <2> QED BY <1>0, <1>1, <1>4, <2>2 DEF Issued
<1>7. \A d \in Issued : d # n /\ tokens'[d] = tokens[d]
  BY <1>1, <1>4 DEF Issued
<1>8. Logins' = Logins \cup {l}
  BY <1>5, <1>6, <1>7 DEF Logins
<1>9. RequestsBringTokens' /\ OneClaimer'
  BY <1>3, <1>6 DEF AuthInv, RequestsBringTokens, OneClaimer, AuthAt, Idle
<1>10. \A d \in Token : Claimed(d)' => Claimed(d) /\ d \in Issued
  BY <1>3 DEF Claimed, AuthInv, RequestsBringTokens, Idle
<1>11. \A d \in Issued : Renewable(d)' <=> Renewable(d)
  BY <1>6, <1>7 DEF Renewable
<1>12. \A d \in Issued : LivingToken(d)' => LivingToken(d)
  BY <1>10, <1>11 DEF LivingToken, Issued
<1>13. \A d \in Issued : tokens[d].login # l
  BY <1>1 DEF Logins
<1>14. OneLivingToken'
  <2> SUFFICES ASSUME NEW a \in Issued', NEW b \in Issued', LivingToken(a)', LivingToken(b)',
                      tokens'[a].login = tokens'[b].login
               PROVE  a = b
    BY DEF OneLivingToken
  <2> QED BY <1>5, <1>6, <1>7, <1>12, <1>13 DEF AuthInv, OneLivingToken
<1>15. ASSUME authOverlap' = {} PROVE ClaimedIsRenewable' /\ NoOldLogins' /\ EndedLoginsStayEnded'
  <2>1. ClaimedIsRenewable /\ NoOldLogins /\ EndedLoginsStayEnded
    BY <1>2, <1>15 DEF AuthInv
  <2>2. ended' = ended /\ l \notin ended
    BY <1>0, <1>1, <1>2, <2>1 DEF NoOldLogins, AuthInv
  <2>3. ClaimedIsRenewable'
    BY <1>10, <1>11, <2>1 DEF ClaimedIsRenewable, Issued
  <2>4. EndedLoginsStayEnded'
    <3> SUFFICES ASSUME NEW d \in Issued', Renewable(d)' PROVE tokens'[d].login \notin ended'
      BY DEF EndedLoginsStayEnded
    <3>1. CASE d = n
      BY <1>5, <2>2, <3>1
    <3>2. CASE d \in Issued
      BY <1>2, <1>7, <1>11, <1>15, <2>1, <2>2, <3>2 DEF EndedLoginsStayEnded
    <3> QED BY <1>6, <3>1, <3>2
  <2>5. NoOldLogins'
    BY <1>3, <2>1 DEF NoOldLogins, Idle
  <2> QED BY <2>3, <2>4, <2>5
<1>16. ended' \subseteq Logins'
  BY <1>2, <1>8 DEF AuthInv
<1> QED BY <1>9, <1>14, <1>15, <1>16 DEF AuthInv

\* A logout ends the login, unless it was refreshed just before.
LEMMA LogoutStep == ASSUME AuthInv, AuthTypeOK', NEW r \in Req, LogoutRef(r) PROVE AuthInv'
<1> DEFINE k == authCalls[r].tok
           l == tokens[k].login
<1>0. AuthTypeOK /\ authCalls[r].op = "logout" /\ k \in Issued /\ k \in Token
  BY TokenRevokedRow DEF LogoutRef, AuthAt, AuthInv, RequestsBringTokens
<1>1. /\ tokens' = [tokens EXCEPT ![k].ref = FALSE] /\ ended' = ended \cup {l} /\ ~Claimed(k)
      /\ authOverlap' = {} => authOverlap = {} /\ \A n \in Issued \ {k} :
                                                     tokens[n].login = l => ~Renewable(n)
  BY DEF LogoutRef
<1>2. AuthLeave(r) \/ AuthTo(r, "ses")
  BY DEF LogoutRef
<1>3. /\ \A d \in Req \ {r} : authCalls'[d] = authCalls[d]
      /\ \/ authCalls'[r] = Idle
         \/ authCalls'[r].op = "logout" /\ authCalls'[r].tok = k
  <2>1. CASE AuthLeave(r)
    BY <1>0, <2>1, CallsAfter DEF Bring
  <2>2. CASE AuthTo(r, "ses")
    BY <1>0, <2>2, CallsAfter DEF Bring
  <2> QED BY <1>2, <2>1, <2>2
<1>4. tokens'[k].login = l /\ tokens'[k].ref = FALSE /\ tokens'[k] # NoToken
  <2>1. tokens[k] \in TokenRows /\ tokens'[k] = [tokens[k] EXCEPT !.ref = FALSE]
    BY <1>0, <1>1, IssuedRows DEF AuthTypeOK
  <2>2. tokens'[k] \in TokenRows
    BY <1>0, <2>1, TokenRevokedRow
  <2> QED BY <2>1, <2>2, RowsAreThere DEF TokenRows
<1>5. \A d \in Token \ {k} : tokens'[d] = tokens[d]
  BY <1>0, <1>1 DEF AuthTypeOK
<1>6. \A d \in Token : tokens'[d] = NoToken <=> tokens[d] = NoToken
  BY <1>0, <1>4, <1>5 DEF Issued
<1>7. \A d \in Issued : tokens'[d].login = tokens[d].login /\ (tokens'[d].ref => tokens[d].ref)
  BY <1>4, <1>5 DEF Issued
<1>8. \A d \in Req : authCalls'[d].op \in Bring => authCalls'[d].tok \in Issued
  BY <1>0, <1>3 DEF AuthInv, RequestsBringTokens, Bring, Idle
<1>9. \A d \in Req : Claims(d)' => Claims(d) /\ authCalls'[d].tok = authCalls[d].tok
  BY <1>3 DEF Claims, AuthAt, Idle
<1>10. /\ RequestsBringTokens' /\ OneClaimer' /\ OneLivingToken'
       /\ Issued' = Issued /\ Logins' = Logins
       /\ \A d \in Issued : Claimed(d)' => Claimed(d)
  BY <1>6, <1>7, <1>8, <1>9, NothingIssued
<1>11. \A d \in Issued : Renewable(d)' <=> Renewable(d) /\ d # k
  BY <1>4, <1>5, <1>10 DEF Renewable, Issued
<1>12. ASSUME authOverlap' = {} PROVE ClaimedIsRenewable' /\ NoOldLogins' /\ EndedLoginsStayEnded'
  <2>1. ClaimedIsRenewable /\ NoOldLogins /\ EndedLoginsStayEnded
    BY <1>1, <1>12 DEF AuthInv
  <2>2. ClaimedIsRenewable'
    BY <1>1, <1>10, <1>11, <2>1 DEF ClaimedIsRenewable
  <2>3. EndedLoginsStayEnded'
    BY <1>1, <1>7, <1>10, <1>11, <1>12, <2>1 DEF EndedLoginsStayEnded
  <2>4. NoOldLogins'
    BY <1>3, <2>1 DEF NoOldLogins, Idle
  <2> QED BY <2>2, <2>3, <2>4
<1>13. ended' \subseteq Logins'
  BY <1>0, <1>1, <1>10, TokenRevokedRow DEF AuthInv
<1> QED BY <1>10, <1>12, <1>13 DEF AuthInv

\* A reset or a change ends all logins but what it keeps, unless a refresh
\* or a login overlaps.
LEMMA RevokeStep ==
  ASSUME AuthInv, AuthTypeOK', NEW r \in Req, NEW kept, NEW keptLogins,
         RevokeRows(r, kept, keptLogins),
         \A k \in kept \cap Issued : tokens[k].login \in keptLogins
  PROVE  AuthInv'
<1>0. AuthTypeOK
  BY DEF AuthInv
<1>1. /\ ended' = ended \cup (Logins \ keptLogins)
      /\ authOverlap' = {} => /\ authOverlap = {} /\ \A d \in Issued : ~Claimed(d)
                              /\ \A d \in Req : authCalls[d].op # "login"
  BY DEF RevokeRows
<1>2. \A d \in Issued : /\ tokens'[d].login = tokens[d].login
                        /\ (tokens'[d].ref => tokens[d].ref /\ d \in kept)
                        /\ tokens'[d] # NoToken
  <2> TAKE d \in Issued
  <2>0. d \in Token /\ tokens[d] \in TokenRows
    BY <1>0, IssuedRows
  <2>1. CASE d \in kept
    BY <2>0, <2>1, RowsAreThere DEF RevokeRows
  <2>2. CASE d \notin kept
    <3>1. tokens'[d] = [tokens[d] EXCEPT !.ref = FALSE, !.ses = FALSE]
      BY <2>0, <2>2 DEF RevokeRows
    <3>2. tokens'[d] \in TokenRows
      BY <1>0, <3>1, TokenRevokedRow
    <3> QED BY <2>0, <3>1, <3>2, RowsAreThere DEF TokenRows
  <2> QED BY <2>1, <2>2
<1>3. \A d \in Token : tokens'[d] = NoToken <=> tokens[d] = NoToken
  BY <1>2 DEF RevokeRows, Issued
<1>4. \A d \in Req : \/ d = r /\ authCalls'[d] = Idle
                     \/ d # r /\ authCalls[d].op # "login" /\ authCalls'[d] = authCalls[d]
                     \/ d # r /\ authCalls[d].op = "login" /\ authCalls'[d].op = "login"
  <2> TAKE d \in Req
  <2>1. ASSUME authCalls[d].op = "login" PROVE [authCalls[d] EXCEPT !.old = TRUE].op = "login"
    BY <1>0, <2>1 DEF AuthTypeOK, AuthCall, Idle
  <2> QED BY <2>1 DEF RevokeRows
<1>5. \A d \in Req : authCalls'[d].op \in Bring => authCalls'[d].tok \in Issued
  BY <1>4 DEF AuthInv, RequestsBringTokens, Bring, Idle
<1>6. \A d \in Req : Claims(d)' => Claims(d) /\ authCalls'[d].tok = authCalls[d].tok
  BY <1>4 DEF Claims, AuthAt, Idle
<1>7. /\ RequestsBringTokens' /\ OneClaimer' /\ OneLivingToken'
      /\ Issued' = Issued /\ Logins' = Logins
      /\ \A d \in Issued : Claimed(d)' => Claimed(d)
  BY <1>2, <1>3, <1>5, <1>6, NothingIssued
<1>8. \A d \in Issued : Renewable(d)' => Renewable(d) /\ d \in kept
  BY <1>2, <1>7 DEF Renewable
<1>9. ASSUME authOverlap' = {} PROVE ClaimedIsRenewable' /\ NoOldLogins' /\ EndedLoginsStayEnded'
  <2>1. EndedLoginsStayEnded
    BY <1>1, <1>9 DEF AuthInv
  <2>2. ClaimedIsRenewable' /\ NoOldLogins'
    BY <1>1, <1>4, <1>7, <1>9 DEF ClaimedIsRenewable, NoOldLogins, Idle
  <2>3. EndedLoginsStayEnded'
    BY <1>1, <1>2, <1>7, <1>8, <1>9, <2>1 DEF EndedLoginsStayEnded
  <2> QED BY <2>2, <2>3
<1>10. ended' \subseteq Logins'
  BY <1>1, <1>7 DEF AuthInv
<1> QED BY <1>7, <1>9, <1>10 DEF AuthInv

-----------------------------------------------------------------------------
LEMMA AuthStepInv == ASSUME AuthInv, [AuthNext]_authVars PROVE AuthInv'
<1>0. AuthTypeOK'
  BY AuthTypeStep DEF AuthInv
<1>1. ASSUME NEW r \in Req, AuthHandle(r) PROVE AuthInv'
  <2>1. CASE \/ LoginCheck(r) \/ RefreshStart(r) \/ LogoutStart(r) \/ ResetFind(r)
             \/ ChangeFind(r) \/ RevokeFind(r)
    BY <1>0, <2>1, StartsStep
  <2>2. CASE LoginPersist(r)
    BY <1>0, <2>2, PersistStep
  <2>3. CASE RefreshClaim(r)
    BY <1>0, <2>3, ClaimStep
  <2>4. CASE RefreshCommit(r)
    BY <1>0, <2>4, CommitStep
  <2>5. CASE LogoutRef(r)
    BY <1>0, <2>5, LogoutStep
  <2>6. CASE LogoutSes(r) \/ RevokeWrite(r)
    BY <1>0, <2>6, SessionsStep
  <2>7. CASE ResetWrite(r)
    BY <1>0, <2>7, RevokeStep DEF ResetWrite
  <2>8. CASE ChangeWrite(r)
    BY <1>0, <2>8, RevokeStep DEF ChangeWrite
  <2>9. CASE AuthAbort(r)
    BY <1>0, <2>9, AbortStep
  <2> QED BY <1>1, <2>1, <2>2, <2>3, <2>4, <2>5, <2>6, <2>7, <2>8, <2>9 DEF AuthHandle
<1>2. CASE RevokeOthers
  BY <1>0, <1>2, RevokeOthersStep
<1>3. CASE UNCHANGED authVars
  <2>1. UNCHANGED <<tokens, ended, authCalls, authOverlap>>
    BY <1>3 DEF authVars
  <2>2. \A r \in Req : authCalls'[r].op \in Bring => authCalls'[r].tok \in Issued
    BY <2>1 DEF AuthInv, RequestsBringTokens, Bring
  <2>3. \A r \in Req : Claims(r)' => Claims(r) /\ authCalls'[r].tok = authCalls[r].tok
    BY <2>1 DEF Claims, AuthAt
  <2> QED BY <1>0, <2>1, <2>2, <2>3, OnlyCalls
<1> QED BY <1>1, <1>2, <1>3 DEF AuthNext

\* AuthInv holds in every reachable state.
THEOREM AuthInductive == AuthSpec => []AuthInv
<1> QED BY AuthInitInv, AuthStepInv, PTL DEF AuthSpec

\* The type invariant of the logins.
THEOREM AuthTypeCorrect == AuthSpec => []AuthTypeOK
<1>1. AuthInv => AuthTypeOK
  BY DEF AuthInv
<1> QED BY <1>1, AuthInductive, PTL

\* Rotation is linear: of the tokens of a login at most one can be exchanged
\* for the next, however refreshes, logouts, revocations and failures
\* interleave.
THEOREM RotationIsLinear == AuthSpec => []RotationLinear
<1>1. AuthInv => RotationLinear
  BY DEF AuthInv, OneLivingToken, RotationLinear, LivingToken
<1> QED BY <1>1, AuthInductive, PTL

\* A login that was ended is not renewed unless a refresh or a login
\* overlapped what ended it.
THEOREM LoginsStayEnded == AuthSpec => []EndedLoginsStayEnded
<1>1. AuthInv => EndedLoginsStayEnded
  BY DEF AuthInv, EndedLoginsStayEnded
<1> QED BY <1>1, AuthInductive, PTL

-----------------------------------------------------------------------------
(***************************************************************************)
(* OAuth: rows, and what becomes of the requests                           *)
(***************************************************************************)
USE DEF ofCodes, ofCache

\* A row is never taken for the absence of one.
LEMMA GrantsAreThere == NoGrant \notin GrantRow /\ NoGrant \notin AccessRow
<1>1. DOMAIN NoGrant = {"code"}
  BY DEF NoGrant
<1>2. \A row \in GrantRow : "live" \in DOMAIN row
  BY DEF GrantRow
<1>3. \A row \in AccessRow : "left" \in DOMAIN row
  BY DEF AccessRow
<1> QED BY <1>1, <1>2, <1>3

LEMMA GrantFields ==
  ASSUME OAuthTypeOK, NEW g \in Granted
  PROVE  g \in Grant /\ grants[g] \in GrantRow /\ grants[g].code \in AuthCode
         /\ grants[g].live \in BOOLEAN
BY DEF OAuthTypeOK, Granted, GrantRow

\* Ticks and seconds.
LEMMA TicksAre ==
  /\ Second * CacheTtl \in Nat /\ Second <= Second * CacheTtl
  /\ Far \in Nat /\ Far > Second * CacheTtl + MaxWait
BY TimesAssumption DEF Far

LEMMA AccessFields ==
  ASSUME OAuthTypeOK, NEW a \in Opened
  PROVE  /\ a \in Access /\ access[a] \in AccessRow /\ access[a].code \in AuthCode
         /\ access[a].left \in -Far .. Life /\ access[a].revoked \in BOOLEAN
         /\ access[a].gone \in 0 .. Far
<1>1. a \in Access /\ access[a] \in AccessRow
  BY DEF OAuthTypeOK, Opened
<1> QED BY <1>1 DEF AccessRow

LEMMA OAuthFields ==
  ASSUME OAuthTypeOK, NEW r \in Req
  PROVE  /\ oauthCalls[r].op = "exchange" =>
              oauthCalls[r] \in [op : {"exchange"}, at : {"mark", "grant", "access"}, code : AuthCode]
         /\ oauthCalls[r].op = "replay" =>
              oauthCalls[r] \in [op : {"replay"}, at : {"access", "grants"}, code : AuthCode]
         /\ oauthCalls[r].op = "refresh" =>
              oauthCalls[r] \in [op : {"refresh"}, at : {"access"}, code : AuthCode]
         /\ oauthCalls[r].op = "validate" =>
              \/ oauthCalls[r] \in [op : {"validate"}, at : {"introspect"}, token : Access]
              \/ oauthCalls[r] \in [op : {"validate"}, at : {"ttl"}, token : Access,
                                    age : 0 .. MaxWait]
              \/ oauthCalls[r] \in [op : {"validate"}, at : {"setex"}, token : Access,
                                    age : 0 .. MaxWait, ttl : 1 .. Second * CacheTtl]
         /\ oauthCalls[r].op \in {"exchange", "replay", "refresh"} => oauthCalls[r].code \in AuthCode
         /\ oauthCalls[r].op = "validate" => oauthCalls[r].token \in Access
         /\ Introspected(r) => oauthCalls[r].at \in {"ttl", "setex"} /\ oauthCalls[r].age \in 0 .. MaxWait
<1>1. oauthCalls[r] \in OAuthCall
  BY DEF OAuthTypeOK
<1>2. \/ oauthCalls[r].op # "validate"
      \/ oauthCalls[r] \in [op : {"validate"}, at : {"introspect"}, token : Access]
      \/ oauthCalls[r] \in [op : {"validate"}, at : {"ttl"}, token : Access, age : 0 .. MaxWait]
      \/ oauthCalls[r] \in [op : {"validate"}, at : {"setex"}, token : Access,
                            age : 0 .. MaxWait, ttl : 1 .. Second * CacheTtl]
  BY <1>1 DEF OAuthCall, Idle
<1>3. /\ oauthCalls[r].op = "validate" => oauthCalls[r].token \in Access
      /\ Introspected(r) => oauthCalls[r].at \in {"ttl", "setex"} /\ oauthCalls[r].age \in 0 .. MaxWait
  BY <1>2 DEF Introspected
<1> QED BY <1>1, <1>2, <1>3 DEF OAuthCall, Idle

\* One that goes on is the same request, further on.
LEMMA OAuthMoves ==
  ASSUME OAuthTypeOK, NEW r \in Req, NEW at, OAuthTo(r, at),
         \/ oauthCalls[r].op = "exchange" /\ at \in {"grant", "access"}
         \/ oauthCalls[r].op = "replay" /\ at = "grants"
  PROVE  /\ oauthCalls' \in [Req -> OAuthCall]
         /\ \A d \in Req \ {r} : oauthCalls'[d] = oauthCalls[d]
         /\ oauthCalls'[r].op = oauthCalls[r].op /\ oauthCalls'[r].at = at
         /\ oauthCalls'[r].code = oauthCalls[r].code
<1> DEFINE n == [oauthCalls[r] EXCEPT !.at = at]
<1>1. n \in OAuthCall /\ n.op = oauthCalls[r].op /\ n.at = at /\ n.code = oauthCalls[r].code
  <2>1. CASE oauthCalls[r].op = "exchange" /\ at \in {"grant", "access"}
    <3>1. n \in [op : {"exchange"}, at : {"mark", "grant", "access"}, code : AuthCode]
          /\ n.op = oauthCalls[r].op /\ n.at = at /\ n.code = oauthCalls[r].code
      BY <2>1, OAuthFields
    <3> QED BY <3>1 DEF OAuthCall
  <2>2. CASE oauthCalls[r].op = "replay" /\ at = "grants"
    <3>1. n \in [op : {"replay"}, at : {"access", "grants"}, code : AuthCode]
          /\ n.op = oauthCalls[r].op /\ n.at = at /\ n.code = oauthCalls[r].code
      BY <2>2, OAuthFields
    <3> QED BY <3>1 DEF OAuthCall
  <2> QED BY <2>1, <2>2
<1>2. oauthCalls \in [Req -> OAuthCall] /\ oauthCalls' = [oauthCalls EXCEPT ![r] = n]
  BY DEF OAuthTo, OAuthTypeOK
<1> HIDE DEF n
<1> QED BY <1>1, <1>2

\* One that leaves is gone.
LEMMA OAuthLeaves ==
  ASSUME OAuthTypeOK, NEW r \in Req, OAuthLeave(r)
  PROVE  /\ oauthCalls' \in [Req -> OAuthCall]
         /\ \A d \in Req \ {r} : oauthCalls'[d] = oauthCalls[d]
         /\ oauthCalls'[r].op = "idle"
BY DEF OAuthTypeOK, OAuthLeave, End, Idle, OAuthCall

\* A new one is in its slot.
LEMMA OAuthStarts ==
  ASSUME OAuthTypeOK, NEW r \in Req, NEW call \in OAuthCall, OAuthStart(r, call)
  PROVE  /\ OAuthTypeOK' /\ oauthCalls'[r] = call
         /\ \A d \in Req \ {r} : oauthCalls'[d] = oauthCalls[d]
         /\ UNCHANGED <<ofCodes, grants, access, ofCache, replayed, oauthOverlap>>
BY DEF OAuthTypeOK, OAuthStart

LEMMA OAuthInitInv == OAuthInit => OAuthInv
<1> SUFFICES ASSUME OAuthInit PROVE OAuthInv
  OBVIOUS
<1>1. OAuthTypeOK
  BY TimesAssumption, TicksAre DEF OAuthInit, OAuthTypeOK, OAuthCall
<1>2. Granted = {} /\ Opened = {} /\ \A r \in Req : oauthCalls[r].op = "idle"
  BY DEF OAuthInit, Granted, Opened, Idle
<1>3. \A a \in Access : cache[a] = 0
  BY DEF OAuthInit
<1>4. CodesSpent /\ ValidatedOpened /\ GoneRevoked /\ WaitingWasGood
  BY <1>2 DEF OAuthInit, CodesSpent, ValidatedOpened, GoneRevoked, WaitingWasGood, Introspected
<1>5. ExchangesApart /\ NothingReissued
  BY <1>2 DEF ExchangesApart, NothingReissued, OAuthAt, Issues
<1>6. CacheWithin
  BY <1>3 DEF CacheWithin
<1> QED BY <1>1, <1>4, <1>5, <1>6 DEF OAuthInv

-----------------------------------------------------------------------------
(***************************************************************************)
(* Requests that begin or end, and what leaves grants and tokens alone     *)
(***************************************************************************)
\* A request that begins, with what it has found.
LEMMA OAuthStartInv ==
  ASSUME OAuthInv, NEW r \in Req,
         ExchangeFind(r) \/ RefreshFind(r) \/ ReplayFind(r) \/ ValidateMiss(r)
  PROVE  OAuthInv'
<1>1. OAuthTypeOK
  BY DEF OAuthInv
<1>2. PICK call \in OAuthCall :
        /\ OAuthStart(r, call)
        /\ \/ /\ call.op = "exchange" /\ call.at = "mark"
              /\ call.code \in AuthCode /\ codes[call.code] = "issued"
           \/ /\ call.op = "refresh"
              /\ \E g \in Granted : grants[g].live /\ grants[g].code = call.code
           \/ call.op = "replay" /\ codes[call.code] = "used"
           \/ call.op = "validate" /\ call.at = "introspect" /\ call.token \in Opened
  <2>1. CASE ExchangeFind(r)
    <3>1. PICK c \in AuthCode : codes[c] = "issued"
                                /\ OAuthStart(r, [op |-> "exchange", at |-> "mark", code |-> c])
      BY <2>1 DEF ExchangeFind
    <3>2. [op |-> "exchange", at |-> "mark", code |-> c] \in OAuthCall
      BY DEF OAuthCall
    <3> QED BY <3>1, <3>2
  <2>2. CASE RefreshFind(r)
    <3>1. PICK g \in Granted : grants[g].live /\
            OAuthStart(r, [op |-> "refresh", at |-> "access", code |-> grants[g].code])
      BY <2>2 DEF RefreshFind
    <3>2. [op |-> "refresh", at |-> "access", code |-> grants[g].code] \in OAuthCall
      BY <1>1, GrantFields DEF OAuthCall
    <3> QED BY <3>1, <3>2
  <2>3. CASE ReplayFind(r)
    <3>1. PICK c \in AuthCode : codes[c] = "used"
                                /\ OAuthStart(r, [op |-> "replay", at |-> "access", code |-> c])
      BY <2>3 DEF ReplayFind
    <3>2. [op |-> "replay", at |-> "access", code |-> c] \in OAuthCall
      BY DEF OAuthCall
    <3> QED BY <3>1, <3>2
  <2>4. CASE ValidateMiss(r)
    <3>1. PICK a \in Opened : OAuthStart(r, [op |-> "validate", at |-> "introspect", token |-> a])
      BY <2>4 DEF ValidateMiss
    <3>2. [op |-> "validate", at |-> "introspect", token |-> a] \in OAuthCall
      BY <1>1, AccessFields DEF OAuthCall
    <3> QED BY <3>1, <3>2
  <2> QED BY <2>1, <2>2, <2>3, <2>4
<1>3. /\ OAuthTypeOK' /\ oauthCalls'[r] = call
      /\ \A d \in Req \ {r} : oauthCalls'[d] = oauthCalls[d]
      /\ UNCHANGED <<ofCodes, grants, access, ofCache, replayed, oauthOverlap>>
  BY <1>1, <1>2, OAuthStarts
<1>4. UNCHANGED <<Granted, Opened>> /\ \A a : Good(a)' = Good(a)
  BY <1>3 DEF Granted, Opened, Good
<1>5. CodesSpent' /\ ValidatedOpened' /\ GoneRevoked' /\ WaitingWasGood'
  <2>1. CodesSpent' /\ ValidatedOpened' /\ GoneRevoked'
    BY <1>2, <1>3, <1>4 DEF OAuthInv, CodesSpent, ValidatedOpened, GoneRevoked
  <2>2. \A d \in Req : Introspected(d)' => d # r /\ Introspected(d)
    BY <1>2, <1>3 DEF Introspected
  <2>3. WaitingWasGood'
    BY <1>3, <2>2 DEF OAuthInv, WaitingWasGood
  <2> QED BY <2>1, <2>3
<1>6. ASSUME "code" \notin oauthOverlap PROVE ExchangesApart'
  BY <1>2, <1>3, <1>4, <1>6 DEF OAuthInv, ExchangesApart, OAuthAt
<1>7. ASSUME "issue" \notin oauthOverlap PROVE NothingReissued'
  <2>1. NothingReissued /\ CodesSpent
    BY <1>7 DEF OAuthInv
  <2>2. call.op \in {"exchange", "refresh"} => call.code \notin replayed
    BY <1>2, <2>1 DEF NothingReissued, CodesSpent
  <2> QED BY <1>3, <1>4, <2>1, <2>2 DEF NothingReissued, Issues
<1>8. CacheWithin'
  BY <1>3, <1>4 DEF OAuthInv, CacheWithin
<1> QED BY <1>3, <1>5, <1>6, <1>7, <1>8 DEF OAuthInv

\* A request that ends, a code that is issued or expires.
LEMMA OAuthQuietInv ==
  ASSUME OAuthInv,
         \/ \E r \in Req : OAuthAbort(r)
         \/ \E c \in AuthCode : IssueCode(c) \/ CodeExpires(c)
         \/ UNCHANGED oauthVars
  PROVE  OAuthInv'
<1>1. OAuthTypeOK
  BY DEF OAuthInv
<1>2. /\ \A d \in Req : oauthCalls'[d] = oauthCalls[d] \/ oauthCalls'[d].op = "idle"
      /\ oauthCalls' \in [Req -> OAuthCall]
  BY <1>1, OAuthLeaves DEF OAuthAbort, IssueCode, CodeExpires, oauthVars, OAuthTypeOK
<1>3. /\ UNCHANGED <<grants, access, ofCache, replayed, oauthOverlap>>
      /\ OAuthTypeOK => stale' \subseteq AuthCode
  BY DEF OAuthTypeOK, OAuthAbort, IssueCode, CodeExpires, oauthVars
<1>4. /\ codes' \in [AuthCode -> {"new", "issued", "used"}]
      /\ \A c \in AuthCode : codes'[c] = "used" <=> codes[c] = "used"
  BY <1>1 DEF OAuthAbort, IssueCode, CodeExpires, oauthVars, OAuthTypeOK
<1>5. OAuthTypeOK'
  BY <1>1, <1>2, <1>3, <1>4 DEF OAuthTypeOK
<1>6. UNCHANGED <<Granted, Opened>> /\ \A a : Good(a)' = Good(a)
  BY <1>3 DEF Granted, Opened, Good
<1>7. replayed \subseteq AuthCode
  BY <1>1 DEF OAuthTypeOK
<1>8. CodesSpent'
  BY <1>1, <1>2, <1>3, <1>4, <1>6, <1>7, OAuthFields, GrantFields DEF OAuthInv, CodesSpent
<1>9. ValidatedOpened' /\ GoneRevoked' /\ WaitingWasGood'
  BY <1>2, <1>3, <1>6 DEF OAuthInv, ValidatedOpened, GoneRevoked, WaitingWasGood, Introspected
<1>10. ASSUME "code" \notin oauthOverlap PROVE ExchangesApart'
  <2>1. ExchangesApart
    BY <1>10 DEF OAuthInv
  <2> QED BY <1>1, <1>2, <1>3, <1>4, <1>6, <2>1, OAuthFields DEF ExchangesApart, OAuthAt
<1>11. ASSUME "issue" \notin oauthOverlap PROVE NothingReissued'
  BY <1>2, <1>3, <1>6, <1>11 DEF OAuthInv, NothingReissued, Issues
<1>12. CacheWithin'
  BY <1>3, <1>6 DEF OAuthInv, CacheWithin
<1> QED BY <1>3, <1>5, <1>8, <1>9, <1>10, <1>11, <1>12 DEF OAuthInv

-----------------------------------------------------------------------------
(***************************************************************************)
(* Codes and what they are exchanged for                                   *)
(***************************************************************************)
\* Nobody made anything of the code before: it was not used.
LEMMA ExchangeMarkInv ==
  ASSUME OAuthInv, NEW r \in Req, ExchangeMark(r)
  PROVE  OAuthInv'
<1> DEFINE c == oauthCalls[r].code
<1>1. OAuthTypeOK
  BY DEF OAuthInv
<1>2. /\ OAuthAt(r, "exchange", "mark") /\ OAuthTo(r, "grant")
      /\ codes' = [codes EXCEPT ![c] = "used"]
      /\ UNCHANGED <<stale, grants, access, ofCache, replayed>>
  BY DEF ExchangeMark
<1>3. /\ oauthCalls' \in [Req -> OAuthCall]
      /\ \A d \in Req \ {r} : oauthCalls'[d] = oauthCalls[d]
      /\ oauthCalls'[r].op = "exchange" /\ oauthCalls'[r].at = "grant"
      /\ oauthCalls'[r].code = c /\ c \in AuthCode
  BY <1>1, <1>2, OAuthMoves, OAuthFields DEF OAuthAt
<1>4. /\ oauthOverlap \subseteq oauthOverlap' /\ oauthOverlap' \subseteq {"code", "issue"}
      /\ "issue" \in oauthOverlap' => "issue" \in oauthOverlap
  BY <1>1 DEF ExchangeMark, OAuthTypeOK
<1>5. OAuthTypeOK'
  BY <1>1, <1>2, <1>3, <1>4 DEF OAuthTypeOK
<1>6. UNCHANGED <<Granted, Opened>> /\ \A a : Good(a)' = Good(a)
  BY <1>2 DEF Granted, Opened, Good
<1>7. codes'[c] = "used" /\ \A b \in AuthCode : codes[b] = "used" => codes'[b] = "used"
  BY <1>1, <1>2, <1>3 DEF OAuthTypeOK
<1>8. CodesSpent'
  <2>1. CodesSpent
    BY DEF OAuthInv
  <2>2. \A d \in Req : \/ oauthCalls'[d].op = "exchange" /\ oauthCalls'[d].at \in {"grant", "access"}
                       \/ oauthCalls'[d].op = "replay"
                    => codes'[oauthCalls'[d].code] = "used"
    BY <1>1, <1>3, <1>7, <2>1, OAuthFields DEF CodesSpent
  <2>3. \A g \in Granted : codes'[grants[g].code] = "used"
    BY <1>1, <1>7, <2>1, GrantFields DEF CodesSpent
  <2>4. \A b \in replayed : codes'[b] = "used"
    BY <1>1, <1>7, <2>1 DEF CodesSpent, OAuthTypeOK
  <2> QED BY <1>2, <1>6, <2>2, <2>3, <2>4 DEF CodesSpent
<1>9. ValidatedOpened' /\ GoneRevoked' /\ WaitingWasGood'
  BY <1>2, <1>3, <1>6 DEF OAuthInv, ValidatedOpened, GoneRevoked, WaitingWasGood, Introspected
<1>10. ASSUME "code" \notin oauthOverlap' PROVE ExchangesApart'
  <2>1. ExchangesApart /\ CodesSpent
    BY <1>4, <1>10 DEF OAuthInv
  <2>2. \A d \in Req \ {r} : OAuthAt(d, "exchange", "mark") => oauthCalls[d].code # c
    BY <1>10 DEF ExchangeMark
  <2>3. codes[c] # "used" /\ \A b \in AuthCode \ {c} : codes'[b] = codes[b]
    BY <1>1, <1>2, <2>1 DEF ExchangesApart, OAuthTypeOK
  <2>4. \A d \in Req : OAuthAt(d, "exchange", "mark")' => codes'[oauthCalls'[d].code] # "used"
    BY <1>1, <1>3, <2>1, <2>2, <2>3, OAuthFields DEF ExchangesApart, OAuthAt
  <2>5. ASSUME NEW d \in Req, OAuthAt(d, "exchange", "grant")'
        PROVE  /\ \A e \in Req : OAuthAt(e, "exchange", "grant")' /\ oauthCalls'[e].code = oauthCalls'[d].code
                                 => e = d
               /\ \A g \in Granted : grants[g].code # oauthCalls'[d].code
    BY <1>3, <2>1, <2>3, <2>5 DEF ExchangesApart, CodesSpent, OAuthAt
  <2> QED BY <1>2, <1>6, <2>1, <2>4, <2>5 DEF ExchangesApart
<1>11. ASSUME "issue" \notin oauthOverlap' PROVE NothingReissued'
  <2>1. NothingReissued
    BY <1>4, <1>11 DEF OAuthInv
  <2>2. Issues(r)
    BY <1>2 DEF Issues, OAuthAt
  <2> QED BY <1>2, <1>3, <1>6, <2>1, <2>2 DEF NothingReissued, Issues
<1>12. CacheWithin'
  BY <1>2, <1>4, <1>6 DEF OAuthInv, CacheWithin
<1> QED BY <1>5, <1>8, <1>9, <1>10, <1>11, <1>12 DEF OAuthInv

\* It is the only one with the code and no grant has it.
LEMMA ExchangeGrantInv ==
  ASSUME OAuthInv, NEW r \in Req, ExchangeGrant(r)
  PROVE  OAuthInv'
<1> DEFINE c == oauthCalls[r].code
<1>1. OAuthTypeOK
  BY DEF OAuthInv
<1>2. PICK g \in Grant \ Granted :
        /\ grants' = [grants EXCEPT ![g] = [code |-> c, live |-> TRUE]]
        /\ OAuthAt(r, "exchange", "grant") /\ OAuthTo(r, "access")
        /\ UNCHANGED <<ofCodes, access, ofCache, replayed, oauthOverlap>>
  BY DEF ExchangeGrant
<1>3. /\ oauthCalls' \in [Req -> OAuthCall]
      /\ \A d \in Req \ {r} : oauthCalls'[d] = oauthCalls[d]
      /\ oauthCalls'[r].op = "exchange" /\ oauthCalls'[r].at = "access"
      /\ oauthCalls'[r].code = c /\ c \in AuthCode
  BY <1>1, <1>2, OAuthMoves, OAuthFields DEF OAuthAt
<1>4. [code |-> c, live |-> TRUE] \in GrantRow
  BY <1>3 DEF GrantRow
<1>5. OAuthTypeOK'
  BY <1>1, <1>2, <1>3, <1>4 DEF OAuthTypeOK
<1>6. /\ \A h \in Grant \ {g} : grants'[h] = grants[h]
      /\ grants'[g].code = c /\ grants'[g].live
      /\ Granted' = Granted \cup {g} /\ g \notin Granted
  BY <1>1, <1>2, <1>4, GrantsAreThere DEF Granted, OAuthTypeOK
<1>7. UNCHANGED Opened /\ \A a : Good(a)' = Good(a)
  BY <1>2 DEF Opened, Good
<1>8. CodesSpent'
  <2>1. CodesSpent /\ codes[c] = "used"
    BY <1>2 DEF OAuthInv, CodesSpent, OAuthAt
  <2>2. \A h \in Granted' : codes[grants'[h].code] = "used"
    BY <1>1, <1>6, <2>1, GrantFields DEF CodesSpent
  <2> QED BY <1>2, <1>3, <2>1, <2>2 DEF CodesSpent
<1>9. ValidatedOpened' /\ GoneRevoked' /\ WaitingWasGood'
  BY <1>2, <1>3, <1>7 DEF OAuthInv, ValidatedOpened, GoneRevoked, WaitingWasGood, Introspected
<1>10. ASSUME "code" \notin oauthOverlap PROVE ExchangesApart'
  <2>1. ExchangesApart
    BY <1>10 DEF OAuthInv
  <2>2. /\ \A h \in Granted : h \in Grant \ {g} /\ grants[h].code # c
        /\ \A d \in Req : OAuthAt(d, "exchange", "grant") /\ oauthCalls[d].code = c => d = r
    BY <1>2, <1>6, <2>1 DEF ExchangesApart, Granted
  <2>3. \A d \in Req : OAuthAt(d, "exchange", "mark")' => codes'[oauthCalls'[d].code] # "used"
    BY <1>2, <1>3, <2>1 DEF ExchangesApart, OAuthAt
  <2>4. ASSUME NEW d \in Req, OAuthAt(d, "exchange", "grant")'
        PROVE  /\ \A e \in Req : OAuthAt(e, "exchange", "grant")' /\ oauthCalls'[e].code = oauthCalls'[d].code
                                 => e = d
               /\ \A h \in Granted' : grants'[h].code # oauthCalls'[d].code
    BY <1>3, <1>6, <2>1, <2>2, <2>4 DEF ExchangesApart, OAuthAt
  <2>5. \A h, k \in Granted' : grants'[h].code = grants'[k].code => h = k
    BY <1>6, <2>1, <2>2 DEF ExchangesApart
  <2> QED BY <2>3, <2>4, <2>5 DEF ExchangesApart
<1>11. ASSUME "issue" \notin oauthOverlap PROVE NothingReissued'
  <2>1. NothingReissued
    BY <1>11 DEF OAuthInv
  <2>2. c \notin replayed
    BY <1>2, <2>1 DEF NothingReissued, Issues, OAuthAt
  <2>3. \A h \in Granted' : grants'[h].live => grants'[h].code \notin replayed
    BY <1>6, <2>1, <2>2 DEF NothingReissued, Granted
  <2> QED BY <1>2, <1>3, <1>7, <2>1, <2>2, <2>3 DEF NothingReissued, Issues
<1>12. CacheWithin'
  BY <1>2, <1>7 DEF OAuthInv, CacheWithin
<1> QED BY <1>2, <1>5, <1>8, <1>9, <1>10, <1>11, <1>12 DEF OAuthInv

\* A new access token is good and nobody has cached it.
LEMMA CreateAccessInv ==
  ASSUME OAuthInv, NEW r \in Req, CreateAccess(r)
  PROVE  OAuthInv'
<1> DEFINE c == oauthCalls[r].code
           row == [code |-> c, left |-> Life, revoked |-> FALSE, gone |-> 0]
<1>1. OAuthTypeOK
  BY DEF OAuthInv
<1>2. PICK a \in Access \ Opened :
        /\ access' = [access EXCEPT ![a] = row]
        /\ Issues(r) /\ OAuthLeave(r)
        /\ UNCHANGED <<ofCodes, grants, ofCache, replayed, oauthOverlap>>
  BY DEF CreateAccess, Issues, OAuthAt
<1>3. /\ oauthCalls' \in [Req -> OAuthCall]
      /\ \A d \in Req \ {r} : oauthCalls'[d] = oauthCalls[d]
      /\ oauthCalls'[r].op = "idle" /\ c \in AuthCode
  BY <1>1, <1>2, OAuthLeaves, OAuthFields DEF Issues
<1>4. row \in AccessRow /\ row.code = c /\ row.gone = 0
  BY <1>3, TimesAssumption, TicksAre DEF AccessRow
<1> HIDE DEF row
<1>5. OAuthTypeOK'
  BY <1>1, <1>2, <1>3, <1>4 DEF OAuthTypeOK
<1>6. /\ \A b \in Access \ {a} : access'[b] = access[b]
      /\ access'[a] = row /\ Opened' = Opened \cup {a} /\ a \notin Opened
  BY <1>1, <1>2, <1>4, GrantsAreThere DEF Opened, OAuthTypeOK
<1>7. UNCHANGED Granted
  BY <1>2 DEF Granted
<1>8. CodesSpent'
  BY <1>2, <1>3, <1>7 DEF OAuthInv, CodesSpent
<1>9. ValidatedOpened' /\ GoneRevoked' /\ WaitingWasGood'
  <2>1. ValidatedOpened' /\ GoneRevoked'
    BY <1>3, <1>4, <1>6 DEF OAuthInv, ValidatedOpened, GoneRevoked, Opened
  <2>2. ASSUME NEW d \in Req, Introspected(d)'
        PROVE  Introspected(d) /\ oauthCalls'[d] = oauthCalls[d]
               /\ access'[oauthCalls[d].token] = access[oauthCalls[d].token]
    <3>1. Introspected(d) /\ oauthCalls'[d] = oauthCalls[d]
      BY <1>3, <2>2 DEF Introspected
    <3>2. oauthCalls[d].token \in Opened /\ oauthCalls[d].token \in Access
      BY <3>1 DEF Introspected, OAuthInv, ValidatedOpened, Opened
    <3> QED BY <1>6, <3>1, <3>2
  <2> QED BY <2>1, <2>2 DEF OAuthInv, WaitingWasGood
<1>10. ASSUME "code" \notin oauthOverlap PROVE ExchangesApart'
  BY <1>2, <1>3, <1>7, <1>10 DEF OAuthInv, ExchangesApart, OAuthAt
<1>11. ASSUME "issue" \notin oauthOverlap PROVE NothingReissued'
  <2>1. NothingReissued
    BY <1>11 DEF OAuthInv
  <2>2. c \notin replayed
    BY <1>2, <2>1 DEF NothingReissued
  <2>3. \A b \in Opened' : ~access'[b].revoked => access'[b].code \notin replayed
    BY <1>4, <1>6, <2>1, <2>2 DEF NothingReissued, Opened
  <2> QED BY <1>2, <1>3, <1>7, <2>1, <2>3 DEF NothingReissued, Issues
<1>12. CacheWithin'
  <2>1. CacheWithin
    BY DEF OAuthInv
  <2> QED BY <1>2, <1>6, <2>1 DEF CacheWithin
<1> QED BY <1>2, <1>5, <1>8, <1>9, <1>10, <1>11, <1>12 DEF OAuthInv

-----------------------------------------------------------------------------
(***************************************************************************)
(* Revocation, the cache and time                                          *)
(***************************************************************************)
\* Access tokens that are revoked or grow older: what is about codes and
\* grants stays, and what is revoked stays revoked.
LEMMA AccessChangesInv ==
  ASSUME OAuthInv, OAuthTypeOK', CacheWithin', WaitingWasGood',
         UNCHANGED <<codes, grants, replayed, oauthOverlap>>,
         \A d \in Req : \/ oauthCalls'[d] = oauthCalls[d]
                        \/ oauthCalls'[d].op = "idle"
                        \/ /\ oauthCalls[d].op = "replay" /\ oauthCalls'[d].op = "replay"
                           /\ oauthCalls'[d].code = oauthCalls[d].code
                        \/ /\ oauthCalls[d].op = "validate" /\ oauthCalls'[d].op = "validate"
                           /\ oauthCalls'[d].token = oauthCalls[d].token,
         Opened' = Opened,
         \A a \in Opened : /\ access'[a].code = access[a].code
                           /\ access[a].revoked => access'[a].revoked
                           /\ access'[a].gone > 0 => access'[a].revoked
  PROVE  OAuthInv'
<1>1. UNCHANGED Granted
  BY DEF Granted
<1>2. CodesSpent' /\ ValidatedOpened' /\ GoneRevoked'
  BY <1>1 DEF OAuthInv, CodesSpent, ValidatedOpened, GoneRevoked
<1>3. ASSUME "code" \notin oauthOverlap PROVE ExchangesApart'
  BY <1>1, <1>3 DEF OAuthInv, ExchangesApart, OAuthAt
<1>4. ASSUME "issue" \notin oauthOverlap PROVE NothingReissued'
  BY <1>1, <1>4 DEF OAuthInv, NothingReissued, Issues
<1> QED BY <1>2, <1>3, <1>4 DEF OAuthInv

LEMMA RevokedRow ==
  ASSUME OAuthTypeOK, NEW a \in Opened
  PROVE  LET row == [access[a] EXCEPT !.revoked = TRUE]
         IN /\ row \in AccessRow /\ row.revoked /\ row.code = access[a].code
            /\ row.left = access[a].left /\ row.gone = access[a].gone
BY AccessFields DEF AccessRow

\* All access tokens, or one of them, are revoked.
LEMMA RevokeInv ==
  ASSUME OAuthInv,
         (\E r \in Req : ReplayRevokeAccess(r)) \/ (\E a \in Access : RevokeAccess(a))
  PROVE  OAuthInv'
<1>1. OAuthTypeOK
  BY DEF OAuthInv
<1> DEFINE Revoked == \A a \in Access :
             \/ access'[a] = access[a]
             \/ a \in Opened /\ access'[a] = [access[a] EXCEPT !.revoked = TRUE]
<1>2. /\ UNCHANGED <<ofCodes, grants, ofCache, replayed, oauthOverlap>>
      /\ access' = [a \in Access |-> access'[a]]
      /\ Revoked
  <2>1. ASSUME NEW r \in Req, ReplayRevokeAccess(r)
        PROVE  /\ UNCHANGED <<ofCodes, grants, ofCache, replayed, oauthOverlap>>
               /\ access' = [a \in Access |-> access'[a]] /\ Revoked
    BY <2>1 DEF ReplayRevokeAccess
  <2>2. ASSUME NEW a \in Access, RevokeAccess(a)
        PROVE  /\ UNCHANGED <<ofCodes, grants, ofCache, replayed, oauthOverlap>>
               /\ access' = [b \in Access |-> access'[b]] /\ Revoked
    BY <1>1, <2>2 DEF RevokeAccess, Good, OAuthTypeOK
  <2> QED BY <2>1, <2>2
<1>3. /\ oauthCalls' \in [Req -> OAuthCall]
      /\ \A d \in Req : \/ oauthCalls'[d] = oauthCalls[d]
                        \/ /\ oauthCalls[d].op = "replay" /\ oauthCalls'[d].op = "replay"
                           /\ oauthCalls'[d].code = oauthCalls[d].code
  BY <1>1, OAuthMoves DEF ReplayRevokeAccess, RevokeAccess, OAuthAt, OAuthTypeOK
<1>4. access' \in [Access -> AccessRow \cup {NoGrant}]
  BY <1>1, <1>2, RevokedRow DEF OAuthTypeOK
<1>5. OAuthTypeOK'
  BY <1>1, <1>2, <1>3, <1>4 DEF OAuthTypeOK
<1>6. Opened' = Opened
  BY <1>1, <1>2, RevokedRow, GrantsAreThere DEF Opened, OAuthTypeOK
<1>7. \A a \in Opened : /\ access'[a].code = access[a].code /\ access'[a].left = access[a].left
                        /\ access'[a].gone = access[a].gone
                        /\ access'[a] = access[a] \/ access'[a].revoked
  BY <1>1, <1>2, RevokedRow DEF Opened
<1>8. \A a \in Opened : access'[a].gone > 0 => access'[a].revoked
  BY <1>6, <1>7 DEF OAuthInv, GoneRevoked
<1>9. CacheWithin' /\ WaitingWasGood'
  <2>1. CacheWithin'
    BY <1>2, <1>6, <1>7 DEF OAuthInv, CacheWithin
  <2>2. ASSUME NEW d \in Req, Introspected(d)'
        PROVE  Introspected(d) /\ oauthCalls'[d] = oauthCalls[d] /\ oauthCalls[d].token \in Opened
    BY <1>3, <2>2 DEF Introspected, OAuthInv, ValidatedOpened
  <2>3. WaitingWasGood'
    BY <1>7, <2>2 DEF OAuthInv, WaitingWasGood
  <2> QED BY <2>1, <2>3
<1> QED BY <1>2, <1>3, <1>5, <1>6, <1>7, <1>8, <1>9, AccessChangesInv

\* Refresh tokens that die, and codes found used: with nobody issuing a token
\* and all access tokens revoked, nothing of the code is good.
LEMMA RevokeGrantsInv ==
  ASSUME OAuthInv,
         (\E r \in Req : ReplayRevokeGrants(r)) \/ (\E g \in Grant : RevokeGrant(g))
  PROVE  OAuthInv'
<1>1. OAuthTypeOK
  BY DEF OAuthInv
<1> DEFINE Died == \A g \in Grant :
             \/ grants'[g] = grants[g]
             \/ g \in Granted /\ grants'[g] = [grants[g] EXCEPT !.live = FALSE]
<1>2. /\ UNCHANGED <<ofCodes, access, ofCache>> /\ grants' = [g \in Grant |-> grants'[g]] /\ Died
      /\ \/ UNCHANGED <<replayed, oauthOverlap>>
         \/ /\ \A g \in Granted : grants'[g] = [grants[g] EXCEPT !.live = FALSE]
            /\ \E c \in AuthCode : codes[c] = "used" /\ replayed' = replayed \cup {c}
            /\ oauthOverlap \subseteq oauthOverlap' /\ oauthOverlap' \subseteq oauthOverlap \cup {"issue"}
            /\ "issue" \notin oauthOverlap' =>
                 /\ \A d \in Req : ~Issues(d)
                 /\ \A a \in Opened : access[a].revoked
  <2>1. ASSUME NEW r \in Req, ReplayRevokeGrants(r)
        PROVE  /\ UNCHANGED <<ofCodes, access, ofCache>> /\ grants' = [g \in Grant |-> grants'[g]] /\ Died
               /\ \A g \in Granted : grants'[g] = [grants[g] EXCEPT !.live = FALSE]
               /\ \E c \in AuthCode : codes[c] = "used" /\ replayed' = replayed \cup {c}
               /\ oauthOverlap \subseteq oauthOverlap' /\ oauthOverlap' \subseteq oauthOverlap \cup {"issue"}
               /\ "issue" \notin oauthOverlap' =>
                    /\ \A d \in Req : ~Issues(d)
                    /\ \A a \in Opened : access[a].revoked
    <3>1. codes[oauthCalls[r].code] = "used" /\ oauthCalls[r].code \in AuthCode
      BY <1>1, <2>1, OAuthFields DEF ReplayRevokeGrants, OAuthAt, OAuthInv, CodesSpent
    <3>2. grants' = [g \in Grant |-> IF g \in Granted THEN [grants[g] EXCEPT !.live = FALSE]
                                     ELSE grants[g]]
      BY <2>1 DEF ReplayRevokeGrants
    <3>3. \A g \in Granted : g \in Grant
      BY DEF Granted
    <3>4. grants' = [g \in Grant |-> grants'[g]] /\ Died
          /\ \A g \in Granted : grants'[g] = [grants[g] EXCEPT !.live = FALSE]
      BY <3>2, <3>3
    <3>5. /\ oauthOverlap \subseteq oauthOverlap' /\ oauthOverlap' \subseteq oauthOverlap \cup {"issue"}
          /\ "issue" \notin oauthOverlap' =>
               /\ \A d \in Req : ~Issues(d)
               /\ \A a \in Opened : access[a].revoked
      BY <2>1 DEF ReplayRevokeGrants, Issues
    <3> QED BY <2>1, <3>1, <3>4, <3>5 DEF ReplayRevokeGrants
  <2>2. ASSUME NEW g \in Grant, RevokeGrant(g)
        PROVE  /\ UNCHANGED <<ofCodes, access, ofCache, replayed, oauthOverlap>>
               /\ grants' = [h \in Grant |-> grants'[h]] /\ Died
    BY <1>1, <2>2 DEF RevokeGrant, OAuthTypeOK
  <2> QED BY <2>1, <2>2
<1>3. /\ oauthCalls' \in [Req -> OAuthCall]
      /\ \A d \in Req : oauthCalls'[d] = oauthCalls[d] \/ oauthCalls'[d].op = "idle"
  BY <1>1, OAuthLeaves DEF ReplayRevokeGrants, RevokeGrant, OAuthTypeOK
<1>4. \A g \in Granted : LET row == [grants[g] EXCEPT !.live = FALSE]
                         IN row \in GrantRow /\ ~row.live /\ row.code = grants[g].code
  BY <1>1, GrantFields DEF GrantRow
<1>5. grants' \in [Grant -> GrantRow \cup {NoGrant}]
  BY <1>1, <1>2, <1>4 DEF OAuthTypeOK
<1>6. replayed' \subseteq AuthCode /\ oauthOverlap' \subseteq {"code", "issue"}
  BY <1>1, <1>2 DEF OAuthTypeOK
<1>7. OAuthTypeOK'
  BY <1>1, <1>2, <1>3, <1>5, <1>6 DEF OAuthTypeOK
<1>8. Granted' = Granted
  BY <1>1, <1>2, <1>4, GrantsAreThere DEF Granted, OAuthTypeOK
<1>9. \A g \in Granted : /\ grants'[g].code = grants[g].code
                         /\ grants'[g].live => grants[g].live
  BY <1>2, <1>4 DEF Granted
<1>10. UNCHANGED Opened /\ \A a : Good(a)' = Good(a)
  BY <1>2 DEF Opened, Good
<1>11. CodesSpent'
  BY <1>2, <1>3, <1>8, <1>9 DEF OAuthInv, CodesSpent
<1>12. ValidatedOpened' /\ GoneRevoked' /\ WaitingWasGood'
  BY <1>2, <1>3, <1>10 DEF OAuthInv, ValidatedOpened, GoneRevoked, WaitingWasGood, Introspected
<1>13. ASSUME "code" \notin oauthOverlap' PROVE ExchangesApart'
  <2>1. ExchangesApart
    BY <1>2, <1>13 DEF OAuthInv
  <2> QED BY <1>2, <1>3, <1>8, <1>9, <2>1 DEF ExchangesApart, OAuthAt
<1>14. ASSUME "issue" \notin oauthOverlap' PROVE NothingReissued'
  <2>1. NothingReissued
    BY <1>2, <1>14 DEF OAuthInv
  <2>2. CASE UNCHANGED <<replayed, oauthOverlap>>
    BY <1>2, <1>3, <1>8, <1>9, <1>10, <2>1, <2>2 DEF NothingReissued, Issues
  <2>3. CASE ~UNCHANGED <<replayed, oauthOverlap>>
    <3>1. /\ \A d \in Req : ~Issues(d)'
          /\ \A g \in Granted : ~grants'[g].live
          /\ \A a \in Opened : access'[a].revoked
      BY <1>2, <1>3, <1>4, <1>14, <2>3 DEF Issues
    <3> QED BY <1>8, <1>10, <3>1 DEF NothingReissued
  <2> QED BY <2>2, <2>3
<1>15. CacheWithin'
  BY <1>2, <1>10 DEF OAuthInv, CacheWithin
<1> QED BY <1>7, <1>11, <1>12, <1>13, <1>14, <1>15 DEF OAuthInv

\* A request of a validation goes on, or ends, with rows and copies as they are.
LEMMA ValidatesInv ==
  ASSUME OAuthInv, OAuthTypeOK', NEW r \in Req, oauthCalls[r].op = "validate",
         UNCHANGED <<ofCodes, grants, access, replayed, oauthOverlap>>,
         \A d \in Req \ {r} : oauthCalls'[d] = oauthCalls[d],
         \/ oauthCalls'[r].op = "idle"
         \/ oauthCalls'[r].op = "validate" /\ oauthCalls'[r].token = oauthCalls[r].token,
         CacheWithin', WaitingWasGood'
  PROVE  OAuthInv'
<1>1. Opened' = Opened
  BY DEF Opened
<1>2. \A a \in Opened : access'[a].gone > 0 => access'[a].revoked
  BY DEF OAuthInv, GoneRevoked
<1> QED BY <1>1, <1>2, AccessChangesInv

\* What is good now was good no time ago.
LEMMA IntrospectInv ==
  ASSUME OAuthInv, NEW r \in Req, Introspect(r)
  PROVE  OAuthInv'
<1> DEFINE a == oauthCalls[r].token
           n == [op |-> "validate", at |-> "ttl", token |-> a, age |-> 0]
<1>1. OAuthTypeOK
  BY DEF OAuthInv
<1>2. /\ oauthCalls[r].op = "validate" /\ Good(a)
      /\ oauthCalls' = [oauthCalls EXCEPT ![r] = n]
      /\ UNCHANGED <<ofCodes, grants, access, ofCache, replayed, oauthOverlap>>
  BY DEF Introspect, OAuthAt
<1>3. a \in Access /\ n \in OAuthCall
  BY <1>1, <1>2, OAuthFields, TimesAssumption DEF OAuthCall
<1>4. /\ oauthCalls'[r] = n /\ \A d \in Req \ {r} : oauthCalls'[d] = oauthCalls[d]
      /\ OAuthTypeOK'
  BY <1>1, <1>2, <1>3 DEF OAuthTypeOK
<1>5. CacheWithin'
  <2>1. Opened' = Opened
    BY <1>2 DEF Opened
  <2> QED BY <1>2, <2>1 DEF OAuthInv, CacheWithin
<1>6. WaitingWasGood'
  <2>1. access[a].left >= 0 /\ access[a].left \in Int
    BY <1>1, <1>2, AccessFields, TicksAre, TimesAssumption DEF Good
  <2>2. access[a].gone = 0
    BY <1>1, <1>2, AccessFields, TicksAre DEF Good, OAuthInv, GoneRevoked
  <2>3. \A d \in Req \ {r} : Introspected(d)' => Introspected(d)
    BY <1>4 DEF Introspected
  <2> QED BY <1>2, <1>4, <2>1, <2>2, <2>3 DEF OAuthInv, WaitingWasGood
<1> QED BY <1>2, <1>4, <1>5, <1>6, ValidatesInv

\* Rounding adds less than a second to what is left of the token.
LEMMA TtlBounds ==
  ASSUME NEW ticks \in Int
  PROVE  /\ Second * Ttl(ticks \div Second) \in 1 .. Second * CacheTtl
         /\ \/ Second * Ttl(ticks \div Second) <= ticks
            \/ Second * Ttl(ticks \div Second) = Second
<1> DEFINE n == ticks \div Second
<1>1. n \in Int /\ Second * n <= ticks
  BY TimesAssumption
<1>2. Ttl(n) \in 1 .. CacheTtl /\ (Ttl(n) = 1 \/ Ttl(n) <= n)
  BY <1>1, TimesAssumption DEF Ttl, Least
<1> HIDE DEF n
<1>3. Second * Ttl(n) \in 1 .. Second * CacheTtl
  BY <1>2, TimesAssumption
<1>4. Ttl(n) <= n => Second * Ttl(n) <= Second * n
  BY <1>1, <1>2, TimesAssumption
<1>5. Ttl(n) = 1 => Second * Ttl(n) = Second
  BY TimesAssumption
<1>6. Second * Ttl(n) \in Int /\ Second * n \in Int
  BY <1>1, <1>2, TimesAssumption
<1>7. Second * Ttl(n) <= ticks \/ Second * Ttl(n) = Second
  BY <1>1, <1>2, <1>4, <1>5, <1>6
<1> QED BY <1>3, <1>7 DEF n

\* The copy is not to live longer than the token but for the rounding and the
\* time since the introspection.
LEMMA ComputeTtlInv ==
  ASSUME OAuthInv, NEW r \in Req, ComputeTtl(r)
  PROVE  OAuthInv'
<1> DEFINE a == oauthCalls[r].token
           ttl == Second * Ttl(SecondsLeft(a))
           n == [op |-> "validate", at |-> "setex", token |-> a, age |-> oauthCalls[r].age,
                 ttl |-> ttl]
<1>1. OAuthTypeOK
  BY DEF OAuthInv
<1>2. /\ oauthCalls[r].op = "validate" /\ Introspected(r)
      /\ oauthCalls' = [oauthCalls EXCEPT ![r] = n]
      /\ UNCHANGED <<ofCodes, grants, access, ofCache, replayed, oauthOverlap>>
  BY DEF ComputeTtl, OAuthAt, Introspected
<1>3. /\ a \in Opened /\ a \in Access /\ oauthCalls[r].age \in 0 .. MaxWait
      /\ access[a].left \in Int /\ frac \in 0 .. Second - 1
  BY <1>1, <1>2, OAuthFields, AccessFields, TicksAre, TimesAssumption
     DEF OAuthInv, ValidatedOpened, OAuthTypeOK
<1>4. ttl \in 1 .. Second * CacheTtl /\ (ttl <= frac + access[a].left \/ ttl = Second)
  <2>1. frac + access[a].left \in Int
    BY <1>3, TimesAssumption
  <2> QED BY <2>1, TtlBounds DEF SecondsLeft
<1> HIDE DEF ttl
<1>5. n \in OAuthCall
  BY <1>3, <1>4 DEF OAuthCall
<1>6. /\ oauthCalls'[r] = n /\ \A d \in Req \ {r} : oauthCalls'[d] = oauthCalls[d]
      /\ OAuthTypeOK'
  BY <1>1, <1>2, <1>5 DEF OAuthTypeOK
<1>7. CacheWithin'
  <2>1. Opened' = Opened
    BY <1>2 DEF Opened
  <2> QED BY <1>2, <2>1 DEF OAuthInv, CacheWithin
<1>8. WaitingWasGood'
  <2>1. access[a].left + oauthCalls[r].age >= 0 /\ access[a].gone <= oauthCalls[r].age
    BY <1>2 DEF OAuthInv, WaitingWasGood
  <2>2. ttl <= access[a].left + oauthCalls[r].age + Second
    BY <1>3, <1>4, <2>1, TimesAssumption, TicksAre
  <2>3. \A d \in Req \ {r} : Introspected(d)' => Introspected(d)
    BY <1>6 DEF Introspected
  <2> QED BY <1>2, <1>6, <2>1, <2>2, <2>3 DEF OAuthInv, WaitingWasGood
<1> QED BY <1>2, <1>6, <1>7, <1>8, ValidatesInv

\* The copy is written with what it was to live for.
LEMMA CacheFillInv ==
  ASSUME OAuthInv, NEW r \in Req, CacheFill(r)
  PROVE  OAuthInv'
<1> DEFINE a == oauthCalls[r].token
<1>1. OAuthTypeOK
  BY DEF OAuthInv
<1>2. /\ oauthCalls[r].op = "validate" /\ oauthCalls[r].at = "setex" /\ Introspected(r)
      /\ cache' = [cache EXCEPT ![a] = oauthCalls[r].ttl]
      /\ waited' = [waited EXCEPT ![a] = oauthCalls[r].age]
      /\ OAuthLeave(r)
      /\ UNCHANGED <<ofCodes, grants, access, frac, replayed, oauthOverlap>>
  BY DEF CacheFill, OAuthAt, Introspected
<1>3. /\ a \in Opened /\ a \in Access /\ oauthCalls[r].age \in 0 .. MaxWait
      /\ oauthCalls[r].ttl \in 1 .. Second * CacheTtl
      /\ access[a].left \in Int /\ access[a].gone \in Int
  BY <1>1, <1>2, OAuthFields, AccessFields, TicksAre, TimesAssumption
     DEF OAuthInv, ValidatedOpened
<1>4. /\ oauthCalls' \in [Req -> OAuthCall] /\ oauthCalls'[r].op = "idle"
      /\ \A d \in Req \ {r} : oauthCalls'[d] = oauthCalls[d]
  BY <1>1, <1>2, OAuthLeaves
<1>5. OAuthTypeOK'
  <2>1. oauthCalls[r].ttl \in 0 .. Second * CacheTtl
    BY <1>3, TicksAre
  <2> QED BY <1>1, <1>2, <1>3, <1>4, <2>1 DEF OAuthTypeOK
<1>6. /\ cache'[a] = oauthCalls[r].ttl /\ waited'[a] = oauthCalls[r].age
      /\ \A b \in Access \ {a} : cache'[b] = cache[b] /\ waited'[b] = waited[b]
  BY <1>1, <1>2, <1>3 DEF OAuthTypeOK
<1>7. CacheWithin'
  <2>1. Opened' = Opened
    BY <1>2 DEF Opened
  <2>2. /\ access[a].gone <= oauthCalls[r].age
        /\ oauthCalls[r].ttl <= access[a].left + oauthCalls[r].age + Second
    BY <1>2 DEF OAuthInv, WaitingWasGood
  <2>3. /\ oauthCalls[r].ttl <= access[a].left + Second + oauthCalls[r].age
        /\ oauthCalls[r].ttl + access[a].gone <= Second * CacheTtl + oauthCalls[r].age
    BY <1>3, <2>2, TicksAre, TimesAssumption
  <2> QED BY <1>2, <1>3, <1>6, <2>1, <2>3 DEF OAuthInv, CacheWithin
<1>8. WaitingWasGood'
  <2>1. \A d \in Req : Introspected(d)' => d # r /\ Introspected(d)
    BY <1>4 DEF Introspected
  <2> QED BY <1>2, <1>4, <2>1 DEF OAuthInv, WaitingWasGood
<1> QED BY <1>2, <1>4, <1>5, <1>7, <1>8, ValidatesInv

LEMMA AgedRow ==
  ASSUME OAuthTypeOK, NEW a \in Opened
  PROVE  /\ Aged(access[a]) \in AccessRow /\ Aged(access[a]).code = access[a].code
         /\ Aged(access[a]).revoked = access[a].revoked
         /\ Aged(access[a]).left = IF access[a].left = -Far THEN -Far ELSE access[a].left - 1
         /\ Aged(access[a]).gone \in {access[a].gone, access[a].gone + 1}
         /\ ~access[a].revoked => Aged(access[a]).gone = access[a].gone
<1> DEFINE left == IF access[a].left = -Far THEN -Far ELSE access[a].left - 1
           gone == IF access[a].revoked /\ access[a].gone < Far THEN access[a].gone + 1
                   ELSE access[a].gone
<1>1. /\ access[a] \in AccessRow /\ access[a].left \in -Far .. Life
      /\ access[a].gone \in 0 .. Far
  BY AccessFields
<1>2. left \in -Far .. Life /\ gone \in 0 .. Far
      /\ gone \in {access[a].gone, access[a].gone + 1}
      /\ (~access[a].revoked => gone = access[a].gone)
  BY <1>1, TicksAre, TimesAssumption
<1>3. Aged(access[a]) = [access[a] EXCEPT !.left = left, !.gone = gone]
  BY <1>1 DEF Aged, AccessRow
<1> HIDE DEF gone
<1> QED BY <1>1, <1>2, <1>3 DEF AccessRow

\* What waits grows older.
LEMMA OlderCall ==
  ASSUME OAuthTypeOK, NEW r \in Req, Introspected(r), oauthCalls[r].age < MaxWait
  PROVE  LET n == [oauthCalls[r] EXCEPT !.age = @ + 1]
         IN  /\ n \in OAuthCall /\ n.op = "validate" /\ n.at = oauthCalls[r].at
             /\ n.token = oauthCalls[r].token /\ n.age = oauthCalls[r].age + 1
             /\ oauthCalls[r].at = "setex" => n.ttl = oauthCalls[r].ttl
<1> DEFINE age == oauthCalls[r].age + 1
           n == [oauthCalls[r] EXCEPT !.age = age]
<1>1. age \in 0 .. MaxWait
  BY OAuthFields, TimesAssumption
<1> HIDE DEF age
<1>2. CASE oauthCalls[r] \in [op : {"validate"}, at : {"ttl"}, token : Access, age : 0 .. MaxWait]
  <2>1. n \in [op : {"validate"}, at : {"ttl"}, token : Access, age : 0 .. MaxWait]
        /\ n.op = "validate" /\ n.at = oauthCalls[r].at /\ n.token = oauthCalls[r].token
        /\ n.age = age /\ oauthCalls[r].at # "setex"
    BY <1>1, <1>2
  <2> QED BY <2>1 DEF OAuthCall, age
<1>3. CASE oauthCalls[r] \in [op : {"validate"}, at : {"setex"}, token : Access,
                             age : 0 .. MaxWait, ttl : 1 .. Second * CacheTtl]
  <2>1. n \in [op : {"validate"}, at : {"setex"}, token : Access,
               age : 0 .. MaxWait, ttl : 1 .. Second * CacheTtl]
        /\ n.op = "validate" /\ n.at = oauthCalls[r].at /\ n.token = oauthCalls[r].token
        /\ n.age = age /\ n.ttl = oauthCalls[r].ttl
    BY <1>1, <1>3
  <2> QED BY <2>1 DEF OAuthCall, age
<1> QED BY <1>2, <1>3, OAuthFields DEF Introspected

\* A copy, its token and what waits for it grow old together.
LEMMA TickInv == ASSUME OAuthInv, Tick PROVE OAuthInv'
<1>1. OAuthTypeOK
  BY DEF OAuthInv
<1>2. /\ UNCHANGED <<ofCodes, grants, waited, replayed, oauthOverlap>>
      /\ frac' = IF frac = Second - 1 THEN 0 ELSE frac + 1
      /\ cache' = [a \in Access |-> IF cache[a] = 0 THEN 0 ELSE cache[a] - 1]
      /\ access' = [a \in Access |-> IF a \in Opened THEN Aged(access[a]) ELSE access[a]]
      /\ oauthCalls' = [r \in Req |-> IF Introspected(r) THEN [oauthCalls[r] EXCEPT !.age = @ + 1]
                                      ELSE oauthCalls[r]]
      /\ \A r \in Req : Introspected(r) => oauthCalls[r].age < MaxWait
  BY DEF Tick
<1>3. /\ access' \in [Access -> AccessRow \cup {NoGrant}]
      /\ \A a \in Opened : a \in Access /\ access'[a] = Aged(access[a])
  BY <1>1, <1>2, AgedRow DEF OAuthTypeOK, Opened
<1>4. cache' \in [Access -> 0 .. Second * CacheTtl] /\ frac' \in 0 .. Second - 1
  <2>1. \A a \in Access : cache[a] \in 0 .. Second * CacheTtl
    BY <1>1 DEF OAuthTypeOK
  <2>2. \A a \in Access : (IF cache[a] = 0 THEN 0 ELSE cache[a] - 1) \in 0 .. Second * CacheTtl
    BY <2>1, TicksAre
  <2>3. frac' \in 0 .. Second - 1
    BY <1>1, <1>2, TimesAssumption DEF OAuthTypeOK
  <2> QED BY <1>2, <2>2, <2>3
<1>5. /\ oauthCalls' \in [Req -> OAuthCall]
      /\ \A d \in Req : ~Introspected(d) => oauthCalls'[d] = oauthCalls[d]
      /\ \A d \in Req : Introspected(d) =>
           /\ oauthCalls[d].op = "validate" /\ oauthCalls'[d].op = "validate"
           /\ oauthCalls'[d].at = oauthCalls[d].at
           /\ oauthCalls'[d].token = oauthCalls[d].token
           /\ oauthCalls'[d].age = oauthCalls[d].age + 1
           /\ oauthCalls[d].at = "setex" => oauthCalls'[d].ttl = oauthCalls[d].ttl
  <2>1. ASSUME NEW d \in Req
        PROVE  /\ oauthCalls'[d] \in OAuthCall
               /\ ~Introspected(d) => oauthCalls'[d] = oauthCalls[d]
               /\ Introspected(d) =>
                    /\ oauthCalls[d].op = "validate" /\ oauthCalls'[d].op = "validate"
                    /\ oauthCalls'[d].at = oauthCalls[d].at
                    /\ oauthCalls'[d].token = oauthCalls[d].token
                    /\ oauthCalls'[d].age = oauthCalls[d].age + 1
                    /\ oauthCalls[d].at = "setex" => oauthCalls'[d].ttl = oauthCalls[d].ttl
    <3>1. CASE Introspected(d)
      <4>1. oauthCalls'[d] = [oauthCalls[d] EXCEPT !.age = @ + 1]
        BY <1>2, <3>1
      <4>2. oauthCalls[d].op = "validate"
        BY <3>1 DEF Introspected
      <4> QED BY <1>1, <1>2, <3>1, <4>1, <4>2, OlderCall
    <3>2. CASE ~Introspected(d)
      BY <1>1, <1>2, <3>2 DEF OAuthTypeOK
    <3> QED BY <3>1, <3>2
  <2> QED BY <1>2, <2>1
<1>6. OAuthTypeOK'
  BY <1>1, <1>2, <1>3, <1>4, <1>5 DEF OAuthTypeOK
<1>7. Opened' = Opened
  BY <1>1, <1>2, <1>3, AgedRow, GrantsAreThere DEF Opened, OAuthTypeOK
<1>8. \A a \in Opened : /\ access'[a].code = access[a].code
                        /\ access'[a].revoked = access[a].revoked
                        /\ access'[a].gone \in {access[a].gone, access[a].gone + 1}
                        /\ ~access[a].revoked => access'[a].gone = access[a].gone
                        /\ access'[a].left = IF access[a].left = -Far THEN -Far
                                             ELSE access[a].left - 1
                        /\ access[a].left \in -Far .. Life /\ access[a].gone \in 0 .. Far
  BY <1>1, <1>3, AgedRow, AccessFields
<1>9. \A a \in Opened : access'[a].gone > 0 => access'[a].revoked
  BY <1>8 DEF OAuthInv, GoneRevoked
<1>10. CacheWithin'
  <2> SUFFICES ASSUME NEW a \in Access, cache'[a] > 0
               PROVE  a \in Opened /\ cache'[a] <= access'[a].left + Second + waited[a]
                      /\ cache'[a] + access'[a].gone <= Second * CacheTtl + waited[a]
    BY <1>2, <1>7 DEF CacheWithin
  <2>1. cache[a] \in 0 .. Second * CacheTtl /\ waited[a] \in 0 .. MaxWait
    BY <1>1 DEF OAuthTypeOK
  <2>2. cache[a] > 0 /\ cache'[a] = cache[a] - 1
    BY <1>2, <2>1, TicksAre
  <2>3. /\ a \in Opened
        /\ cache[a] <= access[a].left + Second + waited[a]
        /\ cache[a] + access[a].gone <= Second * CacheTtl + waited[a]
    BY <2>2 DEF OAuthInv, CacheWithin
  <2>4. access[a].left # -Far
    BY <1>8, <2>1, <2>2, <2>3, TicksAre, TimesAssumption
  <2> QED BY <1>8, <2>1, <2>2, <2>3, <2>4, TicksAre, TimesAssumption
<1>11. WaitingWasGood'
  <2> SUFFICES ASSUME NEW d \in Req, Introspected(d)'
               PROVE  /\ access'[oauthCalls'[d].token].left + oauthCalls'[d].age >= 0
                      /\ access'[oauthCalls'[d].token].gone <= oauthCalls'[d].age
                      /\ oauthCalls'[d].at = "setex" =>
                           oauthCalls'[d].ttl
                             <= access'[oauthCalls'[d].token].left + oauthCalls'[d].age + Second
    BY DEF WaitingWasGood
  <2> DEFINE a == oauthCalls[d].token
  <2>1. Introspected(d)
    BY <1>5 DEF Introspected
  <2>2. a \in Opened /\ oauthCalls[d].age \in 0 .. MaxWait
    BY <1>1, <2>1, OAuthFields DEF Introspected, OAuthInv, ValidatedOpened
  <2>3. /\ access[a].left + oauthCalls[d].age >= 0
        /\ access[a].gone <= oauthCalls[d].age
        /\ oauthCalls[d].at = "setex" =>
             oauthCalls[d].ttl <= access[a].left + oauthCalls[d].age + Second
    BY <2>1 DEF OAuthInv, WaitingWasGood
  <2>4. access[a].left # -Far /\ access[a].left \in Int /\ access[a].gone \in Int
    BY <1>8, <2>2, <2>3, TicksAre, TimesAssumption
  <2>5. /\ access'[a].left = access[a].left - 1
        /\ access'[a].gone \in {access[a].gone, access[a].gone + 1}
    BY <1>8, <2>2, <2>4
  <2>6. /\ oauthCalls'[d].token = a /\ oauthCalls'[d].age = oauthCalls[d].age + 1
        /\ oauthCalls'[d].at = oauthCalls[d].at
        /\ oauthCalls[d].at = "setex" => oauthCalls'[d].ttl = oauthCalls[d].ttl
    BY <1>5, <2>1
  <2>7. access[a].left - 1 + (oauthCalls[d].age + 1) = access[a].left + oauthCalls[d].age
    BY <2>2, <2>4, TimesAssumption
  <2>8. access'[a].left + oauthCalls'[d].age = access[a].left + oauthCalls[d].age
    BY <2>5, <2>6, <2>7
  <2>9. access'[a].gone <= oauthCalls'[d].age
    BY <2>2, <2>3, <2>4, <2>5, <2>6, TimesAssumption
  <2> QED BY <2>3, <2>6, <2>8, <2>9
<1> QED BY <1>2, <1>5, <1>6, <1>7, <1>8, <1>9, <1>10, <1>11, AccessChangesInv

LEMMA OAuthStepInv == OAuthInv /\ [OAuthNext]_oauthVars => OAuthInv'
BY OAuthStartInv, OAuthQuietInv, ExchangeMarkInv, ExchangeGrantInv, CreateAccessInv,
   RevokeInv, RevokeGrantsInv, IntrospectInv, ComputeTtlInv, CacheFillInv, TickInv
   DEF OAuthNext, OAuthHandle

LEMMA OAuthInvImplies == OAuthInv => CodeCountsOnce /\ CacheForgets
<1> SUFFICES ASSUME OAuthInv PROVE CodeCountsOnce /\ CacheForgets
  OBVIOUS
<1>1. CodeCountsOnce
  BY DEF OAuthInv, CodeCountsOnce, ExchangesApart, NothingReissued
<1>2. ASSUME NEW a \in Opened, cache[a] > 0
      PROVE  /\ access[a].left > -(Second + waited[a])
             /\ access[a].gone < Second * CacheTtl + waited[a]
  <2>1. a \in Access /\ access[a].left \in Int /\ access[a].gone \in Int
    BY AccessFields, TicksAre, TimesAssumption DEF OAuthInv
  <2>2. cache[a] \in Int /\ waited[a] \in Int
    BY <2>1, TicksAre, TimesAssumption DEF OAuthInv, OAuthTypeOK
  <2>3. cache[a] <= access[a].left + Second + waited[a]
        /\ cache[a] + access[a].gone <= Second * CacheTtl + waited[a]
    BY <1>2, <2>1 DEF OAuthInv, CacheWithin
  <2> QED BY <1>2, <2>1, <2>2, <2>3, TicksAre, TimesAssumption
<1> QED BY <1>1, <1>2 DEF CacheForgets

\* The invariant.
THEOREM OAuthInductive == OAuthSpec => []OAuthInv
BY OAuthInitInv, OAuthStepInv, PTL DEF OAuthSpec

\* For any codes, tokens and requests: a code makes one grant, and nothing of
\* a code that came again is good (exchangeCodeForToken, refreshAccessToken).
THEOREM CodesCountOnce == OAuthSpec => []CodeCountsOnce
BY OAuthInductive, OAuthInvImplies, PTL

\* For any lifetimes of tokens and copies and any rounding: the MCP server takes
\* an expired token for less than a second, and a revoked one for less than a
\* copy's lifetime, after what the copy waited for (validateToken).
THEOREM CacheIsForgetful == OAuthSpec => []CacheForgets
BY OAuthInductive, OAuthInvImplies, PTL
=============================================================================
