--------------------------- MODULE PasswordLogin ----------------------------
(***************************************************************************)
(* Logging in to one account with its password (apps/api                   *)
(* user-password-auth.service.ts): failed attempts are counted and lock    *)
(* the account for a while.  A login reads the row, decides from what it   *)
(* read, compares the password, which takes long, and writes.              *)
(***************************************************************************)
EXTENDS Requests

CONSTANT MaxFailedAttempts

ASSUME AttemptsAssumption == MaxFailedAttempts \in Nat \ {0}
ASSUME RequestsAssumption == IsFiniteSet(Req) /\ Req # {}

VARIABLES failed,      \* failedAttempts
          lock,        \* lockedUntil: null, in the future or in the past
          wrong,       \* history: wrong passwords since the counter was last
                       \* due to start again
          loginCalls,  \* loginCalls[r]: the login in slot r
          unlockedLate \* history: an unlocking came after another

loginVars == <<failed, lock, wrong, loginCalls, unlockedLate>>

-----------------------------------------------------------------------------
\* `dirty`: the row it read asks for a reset of the counter.
LoginCall == {Idle} \cup [op : {"login"}, at : {"unlock", "compare", "reset"}, dirty : BOOLEAN]

\* One type invariant for the component.
LoginTypeOK == /\ failed \in Nat /\ wrong \in Nat
               /\ lock \in {"none", "locked", "expired"}
               /\ loginCalls \in [Req -> LoginCall]
               /\ unlockedLate \in BOOLEAN

LoginInit == /\ failed = 0 /\ wrong = 0 /\ lock = "none"
             /\ loginCalls = [r \in Req |-> Idle]
             /\ unlockedLate = FALSE

LoginAt(r, at) == loginCalls[r].op = "login" /\ loginCalls[r].at = at
LoginLeave(r) == loginCalls' = End(loginCalls, r)
LoginEnter(r, call) == /\ loginCalls[r] = Idle
                       /\ loginCalls' = [loginCalls EXCEPT ![r] = call]
                       /\ UNCHANGED <<failed, lock, wrong, unlockedLate>>

\* Mutant: the lock is not looked at.
LoginFindAny(r) ==
  LoginEnter(r, [op |-> "login", at |-> "compare", dirty |-> failed # 0])

\* The row is read; an account whose lock is over is unlocked first.
LoginFind(r) ==
  \/ lock = "none" /\ LoginEnter(r, [op |-> "login", at |-> "compare", dirty |-> failed # 0])
  \/ lock = "expired" /\ LoginEnter(r, [op |-> "login", at |-> "unlock", dirty |-> FALSE])

LoginUnlock(r) ==
  /\ LoginAt(r, "unlock")
  /\ failed' = 0 /\ lock' = "none"
  /\ unlockedLate' = (unlockedLate \/ lock # "expired")
  /\ loginCalls' = [loginCalls EXCEPT ![r].at = "compare"]
  /\ UNCHANGED wrong

\* One transaction counts and locks.
WrongPassword(r) ==
  /\ LoginAt(r, "compare")
  /\ failed' = failed + 1 /\ wrong' = wrong + 1
  /\ lock' = IF failed + 1 >= MaxFailedAttempts THEN "locked" ELSE lock
  /\ LoginLeave(r)
  /\ UNCHANGED unlockedLate

StartAgain == failed' = 0 /\ wrong' = 0 /\ lock' = "none"

\* One transaction resets the counter and makes the session; with a second
\* factor the reset comes on its own, after the token for it was stored.
RightPassword(r) ==
  /\ LoginAt(r, "compare")
  /\ \/ /\ IF loginCalls[r].dirty THEN StartAgain ELSE UNCHANGED <<failed, lock, wrong>>
        /\ LoginLeave(r)
     \/ /\ loginCalls[r].dirty
        /\ loginCalls' = [loginCalls EXCEPT ![r].at = "reset"]
        /\ UNCHANGED <<failed, lock, wrong>>
  /\ UNCHANGED unlockedLate

SecondFactorReset(r) == /\ LoginAt(r, "reset")
                        /\ StartAgain
                        /\ LoginLeave(r)
                        /\ UNCHANGED unlockedLate

\* An error (an address not yet confirmed) or a crash.
LoginAbort(r) == /\ loginCalls[r] # Idle
                 /\ LoginLeave(r)
                 /\ UNCHANGED <<failed, lock, wrong, unlockedLate>>

\* The transaction of resetPassword.
PasswordReset == StartAgain /\ UNCHANGED <<loginCalls, unlockedLate>>

LockExpires == /\ lock = "locked"
               /\ lock' = "expired" /\ wrong' = 0
               /\ UNCHANGED <<failed, loginCalls, unlockedLate>>

LoginNext == \/ \E r \in Req : \/ LoginFind(r) \/ LoginUnlock(r) \/ WrongPassword(r)
                               \/ RightPassword(r) \/ SecondFactorReset(r) \/ LoginAbort(r)
             \/ PasswordReset \/ LockExpires

LoginSpec == LoginInit /\ [][LoginNext]_loginVars

-----------------------------------------------------------------------------
\* Before the lock is over nobody tries more passwords than the limit and
\* one for every other login that was past the check of the lock when it
\* fell; unless an unlocking came so late that it undid a new lock.
AttemptsBounded ==
  ~unlockedLate => wrong <= MaxFailedAttempts - 1 + Cardinality(Req)

-----------------------------------------------------------------------------
\* Why: until a lock falls the counter is below the limit and has counted
\* every wrong password; from then on only the logins that are comparing can
\* add one, each takes itself out, and nobody joins them.
Comparing == {r \in Req : LoginAt(r, "compare")}

CounterCounts == lock = "none" => failed < MaxFailedAttempts /\ wrong <= failed
LockedIsFull == lock # "none" => failed >= MaxFailedAttempts
ExpiredIsFresh == lock = "expired" => wrong = 0
FewJoin == lock = "locked" =>
  wrong + Cardinality(Comparing) <= MaxFailedAttempts - 1 + Cardinality(Req)

LoginInv ==
  LoginTypeOK /\ (~unlockedLate => CounterCounts /\ LockedIsFull /\ ExpiredIsFresh /\ FewJoin)
=============================================================================
