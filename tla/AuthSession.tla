---------------------------- MODULE AuthSession -----------------------------
(***************************************************************************)
(* The logins of one user (apps/api auth.controller.ts, config/auth.ts,    *)
(* session.service.ts, user-password-auth.service.ts).  A login is a chain *)
(* of refresh tokens, each exchanged for the next.  For every token there  *)
(* are two rows with its hash, in refresh_tokens and in sessions: the      *)
(* first is what a refresh asks for, the second is what the user sees.     *)
(*                                                                         *)
(* A refresh is a transaction of several statements: from the first on it  *)
(* locks the row of the token (`claim`), and what it inserts is seen by    *)
(* others after its commit.  The other transactions are one step each.     *)
(***************************************************************************)
EXTENDS Requests

CONSTANTS Login, Token  \* ids; they bound how many there ever are

VARIABLES tokens,      \* tokens[k]: the two rows with the hash of k, or NoToken
          ended,       \* history: logins that were logged out or reset
          authCalls,   \* authCalls[r]: the request in slot r
          authOverlap  \* history: the kinds of requests that overlapped

authVars == <<tokens, ended, authCalls, authOverlap>>

-----------------------------------------------------------------------------
NoToken == [login |-> "none"]
\* `ref` and `ses`: revokedAt is null in the row of that table.
TokenRows == [login : Login, ref : BOOLEAN, ses : BOOLEAN]
AuthCall == {Idle}
  \* `old`: the password was changed since it was compared.
  \cup [op : {"login"}, at : {"persist"}, old : BOOLEAN]
  \cup [op : {"refresh"}, at : {"claim", "commit"}, tok : Token]
  \* `at`: the tables still to be written
  \cup [op : {"logout"}, at : {"both", "ref", "ses"}, tok : Token]
  \cup [op : {"reset"}, at : {"write"}]
  \cup [op : {"change", "revoke"}, at : {"write"}, tok : Token]

\* One type invariant for the component.
AuthTypeOK == /\ tokens \in [Token -> TokenRows \cup {NoToken}]
              /\ ended \subseteq Login
              /\ authCalls \in [Req -> AuthCall]
              /\ authOverlap \subseteq {"refresh", "login"}

AuthInit == /\ tokens = [k \in Token |-> NoToken]
            /\ ended = {}
            /\ authCalls = [r \in Req |-> Idle]
            /\ authOverlap = {}

Issued == {k \in Token : tokens[k] # NoToken}
Renewable(k) == k \in Issued /\ tokens[k].ref
Logins == {tokens[k].login : k \in Issued}
\* Ids are random: the next one is any that nobody has seen.
NewToken == CHOOSE k \in Token : k \notin Issued
NewLogin == CHOOSE l \in Login : l \notin Logins
Claimed(k) == \E r \in Req : /\ authCalls[r].op = "refresh" /\ authCalls[r].at = "commit"
                             /\ authCalls[r].tok = k

AuthAt(r, op, at) == authCalls[r].op = op /\ authCalls[r].at = at
AuthTo(r, at) == authCalls' = [authCalls EXCEPT ![r].at = at]
AuthLeave(r) == authCalls' = End(authCalls, r)
AuthStart(r, call) == /\ authCalls[r] = Idle
                      /\ authCalls' = [authCalls EXCEPT ![r] = call]
                      /\ UNCHANGED <<tokens, ended, authOverlap>>

-----------------------------------------------------------------------------
(***************************************************************************)
(* Logging in: by password, with or without a second factor, by OAuth      *)
(* callback or by registering.                                             *)
(***************************************************************************)
LoginCheck(r) == AuthStart(r, [op |-> "login", at |-> "persist", old |-> FALSE])

\* persistAuthSession, for a token nobody has seen.
Persist(l, k) == tokens' = [tokens EXCEPT ![k] = [login |-> l, ref |-> TRUE, ses |-> TRUE]]

LoginPersist(r) ==
  /\ AuthAt(r, "login", "persist")
  /\ Login # Logins /\ Token # Issued
  /\ Persist(NewLogin, NewToken)
  /\ ended' = IF authCalls[r].old THEN ended \cup {NewLogin} ELSE ended
  /\ AuthLeave(r)
  /\ UNCHANGED authOverlap

-----------------------------------------------------------------------------
(***************************************************************************)
(* Refreshing                                                              *)
(***************************************************************************)
\* The token's signature and the user are looked at first.
RefreshStart(r) == \E k \in Issued :
  AuthStart(r, [op |-> "refresh", at |-> "claim", tok |-> k])

\* Mutant: the token is looked up, not claimed.
RefreshClaimAny(r) ==
  /\ AuthAt(r, "refresh", "claim")
  /\ AuthTo(r, "commit")
  /\ UNCHANGED <<tokens, ended, authOverlap>>

\* updateMany of the unrevoked row, which waits for whoever has it locked.
RefreshClaim(r) ==
  /\ AuthAt(r, "refresh", "claim")
  /\ LET k == authCalls[r].tok
     IN /\ ~Claimed(k)
        /\ IF Renewable(k) THEN AuthTo(r, "commit") ELSE AuthLeave(r)
  /\ UNCHANGED <<tokens, ended, authOverlap>>

RefreshCommit(r) ==
  /\ AuthAt(r, "refresh", "commit")
  /\ Token # Issued
  /\ LET k == authCalls[r].tok
     IN tokens' = [tokens EXCEPT ![k].ref = FALSE, ![k].ses = FALSE,
                     ![NewToken] = [login |-> tokens[k].login, ref |-> TRUE, ses |-> TRUE]]
  /\ AuthLeave(r)
  /\ UNCHANGED <<ended, authOverlap>>

-----------------------------------------------------------------------------
(***************************************************************************)
(* Ending logins                                                           *)
(***************************************************************************)
\* The browser sends the cookie it has.
LogoutStart(r) == \E k \in Issued :
  AuthStart(r, [op |-> "logout", at |-> "both", tok |-> k])

\* Two statements, each on its own and in any order.  The login goes on if
\* it was refreshed before the first of them.
LogoutRef(r) ==
  /\ \E a \in {"both", "ref"} : AuthAt(r, "logout", a)
  /\ LET k == authCalls[r].tok
         l == tokens[k].login
     IN /\ ~Claimed(k)
        /\ tokens' = [tokens EXCEPT ![k].ref = FALSE]
        /\ ended' = ended \cup {l}
        /\ authOverlap' = authOverlap \cup
             {"refresh" : n \in {n \in Issued \ {k} : /\ tokens[n].login = l
                                                      /\ Renewable(n)}}
  /\ IF authCalls[r].at = "both" THEN AuthTo(r, "ses") ELSE AuthLeave(r)

LogoutSes(r) ==
  /\ \E a \in {"both", "ses"} : AuthAt(r, "logout", a)
  /\ ~Claimed(authCalls[r].tok)
  /\ tokens' = [tokens EXCEPT ![authCalls[r].tok].ses = FALSE]
  /\ IF authCalls[r].at = "both" THEN AuthTo(r, "ref") ELSE AuthLeave(r)
  /\ UNCHANGED <<ended, authOverlap>>

\* Revokes the committed rows of both tables but those of `kept`.  A refresh
\* that has claimed a token commits the next one all the same: the statement
\* that waits for it does not see what it inserted.  A login that has
\* compared the old password goes on as well.
RevokeRows(r, kept, keptLogins) ==
  /\ tokens' = [k \in Token |-> IF k \in Issued \ kept
                                THEN [tokens[k] EXCEPT !.ref = FALSE, !.ses = FALSE]
                                ELSE tokens[k]]
  /\ ended' = ended \cup (Logins \ keptLogins)
  /\ authOverlap' = authOverlap
       \cup {"refresh" : d \in {d \in Issued : Claimed(d)}}
       \cup {"login" : d \in {d \in Req : authCalls[d].op = "login"}}
  /\ authCalls' = [d \in Req |-> IF d = r THEN Idle
                                 ELSE IF authCalls[d].op = "login"
                                      THEN [authCalls[d] EXCEPT !.old = TRUE]
                                      ELSE authCalls[d]]

\* The token of the reset mail is found valid; hashing takes its time.
ResetFind(r) == AuthStart(r, [op |-> "reset", at |-> "write"])

\* Mutant: only the sessions are revoked.
ResetWriteSessions(r) ==
  /\ AuthAt(r, "reset", "write")
  /\ tokens' = [k \in Token |-> IF k \in Issued THEN [tokens[k] EXCEPT !.ses = FALSE]
                                ELSE tokens[k]]
  /\ ended' = ended \cup Logins
  /\ AuthLeave(r)
  /\ UNCHANGED authOverlap

ResetWrite(r) == AuthAt(r, "reset", "write") /\ RevokeRows(r, {}, {})

\* changePassword keeps the login whose cookie came with the request.
ChangeFind(r) == \E k \in Issued : AuthStart(r, [op |-> "change", at |-> "write", tok |-> k])
ChangeWrite(r) == /\ AuthAt(r, "change", "write")
                  /\ RevokeRows(r, {authCalls[r].tok}, {tokens[authCalls[r].tok].login})

\* revokeSession ends the session row and leaves the token's.
RevokeFind(r) == \E k \in Issued :
  /\ tokens[k].ses
  /\ AuthStart(r, [op |-> "revoke", at |-> "write", tok |-> k])
RevokeWrite(r) == /\ AuthAt(r, "revoke", "write")
                  /\ tokens' = [tokens EXCEPT ![authCalls[r].tok].ses = FALSE]
                  /\ AuthLeave(r)
                  /\ UNCHANGED <<ended, authOverlap>>

\* revokeOtherSessions, in one statement.
RevokeOthers == \E k \in Issued :
  /\ tokens' = [n \in Token |-> IF n \in Issued \ {k} THEN [tokens[n] EXCEPT !.ses = FALSE]
                                ELSE tokens[n]]
  /\ UNCHANGED <<ended, authCalls, authOverlap>>

\* An error or a crash; a transaction in progress is rolled back.
AuthAbort(r) == /\ authCalls[r] # Idle
                /\ AuthLeave(r)
                /\ UNCHANGED <<tokens, ended, authOverlap>>

AuthHandle(r) ==
  \/ LoginCheck(r) \/ LoginPersist(r) \/ RefreshStart(r) \/ RefreshClaim(r)
  \/ RefreshCommit(r) \/ LogoutStart(r) \/ LogoutRef(r) \/ LogoutSes(r)
  \/ ResetFind(r) \/ ResetWrite(r) \/ ChangeFind(r) \/ ChangeWrite(r)
  \/ RevokeFind(r) \/ RevokeWrite(r) \/ AuthAbort(r)

AuthNext == (\E r \in Req : AuthHandle(r)) \/ RevokeOthers

AuthSpec == AuthInit /\ [][AuthNext]_authVars

-----------------------------------------------------------------------------
\* Rotation is linear: of the tokens of a login at most one can be
\* exchanged, also when several requests bring the same one, when requests
\* fail half-way and while others revoke.
RotationLinear ==
  \A k, n \in Issued : Renewable(k) /\ Renewable(n) /\ tokens[k].login = tokens[n].login
                         => k = n

\* A login that was logged out, or made before the password was reset or
\* changed, is not renewed: unless a refresh of it had claimed its token or
\* already answered with the next one, or a login had compared the old
\* password.  (Ending a session does not end the login: see RevokeWrite.)
EndedLoginsStayEnded ==
  authOverlap = {} => \A k \in Issued : Renewable(k) => tokens[k].login \notin ended

-----------------------------------------------------------------------------
\* Why: a token lives while it is renewable or a refresh has claimed it.  A
\* refresh hands its token's life over to the next one.
LivingToken(k) == Renewable(k) \/ Claimed(k)

RequestsBringTokens == \A r \in Req :
  authCalls[r].op \in {"refresh", "logout", "change", "revoke"} => authCalls[r].tok \in Issued
OneClaimer == \A r, d \in Req :
  AuthAt(r, "refresh", "commit") /\ AuthAt(d, "refresh", "commit")
    /\ authCalls[r].tok = authCalls[d].tok => r = d
OneLivingToken == \A k, n \in Issued :
  LivingToken(k) /\ LivingToken(n) /\ tokens[k].login = tokens[n].login => k = n
\* While nothing overlapped: no claimed token was revoked, no login goes on
\* with an old password, and only logins there were have ended.
ClaimedIsRenewable == \A k \in Issued : Claimed(k) => Renewable(k)
NoOldLogins == \A r \in Req : authCalls[r].op = "login" => ~authCalls[r].old

AuthInv ==
  /\ AuthTypeOK /\ RequestsBringTokens /\ OneClaimer /\ OneLivingToken
  /\ ended \subseteq Logins
  /\ authOverlap = {} => ClaimedIsRenewable /\ NoOldLogins /\ EndedLoginsStayEnded
=============================================================================
