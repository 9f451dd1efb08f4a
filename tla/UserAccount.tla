---------------------------- MODULE UserAccount -----------------------------
(***************************************************************************)
(* How people get at their accounts (apps/api user-password-auth.service,   *)
(* account.service, auth.controller and the OAuth callback in app.ts): a   *)
(* password, the links of OAuth providers, and the tokens mailed to        *)
(* confirm an address or to set a new password.  An address has one user.  *)
(*                                                                         *)
(* A request finds, decides, perhaps hashes a password, and writes.  The   *)
(* callback of a provider makes the user and the link in two statements,   *)
(* and adding a link to an account goes through the same callback first.   *)
(* Registering is that of the default, REQUIRE_EMAIL_VERIFICATION on.      *)
(***************************************************************************)
EXTENDS Requests

CONSTANTS Email, Provider,
          Mail  \* ids of mailed tokens: bounds the rows that matter at any time

\* What stands for no user is not the address of one.
ASSUME AccountAssumption == "nobody" \notin Email

VARIABLES users,          \* users[e]: the user with address e, or NoUser
          owner,          \* owner[i]: whose link the identity i is, or "nobody"
          mails,          \* mails[t]: the row of the token, or NoMail
          accountCalls,   \* accountCalls[r]: the request in slot r
          accountOverlap, \* history: the kinds of overlaps and failures
          strayed         \* history: adding a link to an account was answered
                          \* with the identity elsewhere, which had been free

accountVars == <<users, owner, mails, accountCalls, accountOverlap, strayed>>

-----------------------------------------------------------------------------
\* An account at a provider, with the address it reports.
Identity == [provider : Provider, email : Email]
NoUser == [deleted |-> TRUE]
UserRow == [password : BOOLEAN, verified : BOOLEAN, deleted : BOOLEAN]
NoMail == [to |-> "nobody"]
Kind == {"confirm", "reset"}
\* `open`: neither used nor expired.  `uses` counts how often it took effect,
\* where the row has the last time.
MailRow == [to : Email, kind : Kind, open : BOOLEAN, uses : Nat]
AccountCall == {Idle}
  \cup [op : {"register", "password"}, at : {"write"}, user : Email]
  \* `by`: who adds the link to their account; `free`: they could have it
  \cup [op : {"callback"}, at : {"user", "create", "verify", "link", "check", "add"},
        id : Identity, by : Email \cup {"nobody"}, free : BOOLEAN]
  \* `there`: the row it has found is still the one
  \cup [op : {"unlink"}, at : {"count", "delete"}, user : Email, id : Identity, there : BOOLEAN]
  \cup [op : {"ask"}, at : {"write"}, user : Email, kind : Kind]
  \cup [op : {"use"}, at : {"write"}, mail : Mail]

\* One type invariant for the component.
AccountTypeOK == /\ users \in [Email -> UserRow \cup {NoUser}]
                 /\ owner \in [Identity -> Email \cup {"nobody"}]
                 /\ mails \in [Mail -> MailRow \cup {NoMail}]
                 /\ accountCalls \in [Req -> AccountCall]
                 /\ accountOverlap \subseteq {"unlink", "callback", "use", "ask"}
                 /\ strayed \in BOOLEAN

AccountInit == /\ users = [e \in Email |-> NoUser]
               /\ owner = [i \in Identity |-> "nobody"]
               /\ mails = [t \in Mail |-> NoMail]
               /\ accountCalls = [r \in Req |-> Idle]
               /\ accountOverlap = {} /\ strayed = FALSE

Registered(e) == users[e] # NoUser
LiveUser(e) == ~users[e].deleted
\* May be: nobody gets a session before the address is confirmed, and
\* requireAuth refuses the deleted.
LoggedIn(e) == LiveUser(e) /\ users[e].verified
Links(e) == {i \in Identity : owner[i] = e}
LinkAt(e, p) == {i \in Links(e) : i.provider = p}
Usable(t) == mails[t] # NoMail /\ mails[t].open

AccountAt(r, op, at) == accountCalls[r].op = op /\ accountCalls[r].at = at
AccountTo(r, at) == accountCalls' = [accountCalls EXCEPT ![r].at = at]
AccountLeave(r) == accountCalls' = End(accountCalls, r)
AccountStart(r, call) == /\ accountCalls[r] = Idle
                         /\ accountCalls' = [accountCalls EXCEPT ![r] = call]
                         /\ UNCHANGED <<users, owner, mails, accountOverlap, strayed>>

\* An id of the model stands for a new row once the old one does not count.
Spare(t) == ~Usable(t) /\ \A r \in Req : accountCalls[r].op = "use" => accountCalls[r].mail # t

\* The table with the open tokens of a kind used up.
Superseded(e, kind) ==
  [t \in Mail |-> IF mails[t] # NoMail /\ mails[t].to = e /\ mails[t].kind = kind
                    THEN [mails[t] EXCEPT !.open = FALSE] ELSE mails[t]]
NewMail(e, kind) == [to |-> e, kind |-> kind, open |-> TRUE, uses |-> 0]

-----------------------------------------------------------------------------
(***************************************************************************)
(* register, setPassword and the deletion of the account                   *)
(***************************************************************************)
RegisterFind(r, e) == /\ ~LiveUser(e)
                      /\ AccountStart(r, [op |-> "register", at |-> "write", user |-> e])

\* The address is unique, also among deleted users.
RegisterWrite(r) ==
  LET e == accountCalls[r].user
  IN /\ AccountAt(r, "register", "write")
     /\ \/ /\ ~Registered(e)
           /\ \E t \in Mail : Spare(t) /\ mails' = [mails EXCEPT ![t] = NewMail(e, "confirm")]
           /\ users' = [users EXCEPT ![e] = [password |-> TRUE, verified |-> FALSE,
                                             deleted |-> FALSE]]
        \/ Registered(e) /\ UNCHANGED <<users, mails>>
     /\ AccountLeave(r)
     /\ UNCHANGED <<owner, accountOverlap, strayed>>

PasswordFind(r, e) == /\ LoggedIn(e) /\ ~users[e].password
                      /\ AccountStart(r, [op |-> "password", at |-> "write", user |-> e])
PasswordWrite(r) == /\ AccountAt(r, "password", "write")
                    /\ users' = [users EXCEPT ![accountCalls[r].user].password = TRUE]
                    /\ AccountLeave(r)
                    /\ UNCHANGED <<owner, mails, accountOverlap, strayed>>

\* What softDelete finds before it writes changes nothing: one step.
DeleteAccount(e) == /\ LoggedIn(e)
                    /\ users' = [users EXCEPT ![e].deleted = TRUE]
                    /\ UNCHANGED <<owner, mails, accountCalls, accountOverlap, strayed>>

-----------------------------------------------------------------------------
(***************************************************************************)
(* The callback of a provider: somebody logs in with identity i, or, as    *)
(* user `by`, wants it added to the account.  The strategy's callback runs *)
(* first in both cases.                                                    *)
(***************************************************************************)
CallbackFind(r, i, by) ==
  LET free == /\ owner[i] = "nobody"
              /\ by # "nobody" => LinkAt(by, i.provider) = {}
      call(at) == [op |-> "callback", at |-> at, id |-> i, by |-> by, free |-> free]
  IN /\ by # "nobody" => LoggedIn(by)
     /\ AccountStart(r, IF owner[i] = "nobody" THEN call("user")
                        ELSE IF by = "nobody" THEN Idle ELSE call("check"))

\* findUnique also finds deleted users.
CallbackUser(r) ==
  LET e == accountCalls[r].id.email
  IN /\ AccountAt(r, "callback", "user")
     /\ AccountTo(r, IF ~Registered(e) THEN "create"
                     ELSE IF users[e].verified THEN "link" ELSE "verify")
     /\ UNCHANGED <<users, owner, mails, accountOverlap, strayed>>

CallbackCreate(r) ==
  LET e == accountCalls[r].id.email
  IN /\ AccountAt(r, "callback", "create")
     /\ IF Registered(e) THEN AccountLeave(r) /\ UNCHANGED users
        ELSE /\ users' = [users EXCEPT ![e] = [password |-> FALSE, verified |-> TRUE,
                                               deleted |-> FALSE]]
             /\ AccountTo(r, "link")
     /\ UNCHANGED <<owner, mails, accountOverlap, strayed>>

CallbackVerify(r) ==
  LET e == accountCalls[r].id.email
  IN /\ AccountAt(r, "callback", "verify")
     /\ users' = [users EXCEPT ![e].verified = TRUE]
     /\ mails' = Superseded(e, "confirm")
     /\ AccountTo(r, "link")
     /\ UNCHANGED <<owner, accountOverlap, strayed>>

\* Both unique keys of accounts.
CanLink(i, e) == owner[i] = "nobody" /\ LinkAt(e, i.provider) = {}

\* A failure ends the request with an error, also that of somebody who wants
\* to add a link.
CallbackLink(r) ==
  LET c == accountCalls[r]
  IN /\ AccountAt(r, "callback", "link")
     /\ IF CanLink(c.id, c.id.email)
        THEN /\ owner' = [owner EXCEPT ![c.id] = c.id.email]
             /\ IF c.by = "nobody" THEN AccountLeave(r) ELSE AccountTo(r, "check")
        ELSE AccountLeave(r) /\ UNCHANGED owner
     /\ UNCHANGED <<users, mails, accountOverlap, strayed>>

\* The answer to somebody who wants to add a link.
LinkAnswer(r, owners) ==
  LET c == accountCalls[r]
  IN /\ AccountLeave(r)
     /\ strayed' = (strayed \/ (c.free /\ owners[c.id] # c.by))

\* handleOAuthLink: both rows are looked up again.
LinkCheck(r) ==
  LET c == accountCalls[r]
  IN /\ AccountAt(r, "callback", "check")
     /\ IF CanLink(c.id, c.by) THEN AccountTo(r, "add") /\ UNCHANGED strayed
        ELSE LinkAnswer(r, owner)
     /\ UNCHANGED <<users, owner, mails, accountOverlap>>

LinkAdd(r) ==
  LET c == accountCalls[r]
  IN /\ AccountAt(r, "callback", "add")
     /\ owner' = IF CanLink(c.id, c.by) THEN [owner EXCEPT ![c.id] = c.by] ELSE owner
     /\ LinkAnswer(r, owner')
     /\ UNCHANGED <<users, mails, accountOverlap>>

-----------------------------------------------------------------------------
(***************************************************************************)
(* unlinkAccount                                                           *)
(***************************************************************************)
UnlinkFind(r, i) ==
  /\ owner[i] # "nobody" /\ LoggedIn(owner[i])
  /\ AccountStart(r, [op |-> "unlink", at |-> "count", user |-> owner[i], id |-> i,
                      there |-> TRUE])

\* Mutant: the last link may go.
UnlinkCountNone(r) ==
  /\ AccountAt(r, "unlink", "count")
  /\ IF Links(accountCalls[r].user) # {} THEN AccountTo(r, "delete") ELSE AccountLeave(r)
  /\ UNCHANGED <<users, owner, mails, accountOverlap, strayed>>

UnlinkCount(r) ==
  /\ AccountAt(r, "unlink", "count")
  /\ IF Cardinality(Links(accountCalls[r].user)) > 1
     THEN AccountTo(r, "delete") ELSE AccountLeave(r)
  /\ UNCHANGED <<users, owner, mails, accountOverlap, strayed>>

\* Deletes by id; a row that is gone fails the request.
UnlinkDelete(r) ==
  LET c == accountCalls[r]
      others == {d \in Req \ {r} : accountCalls[d].op = "unlink" /\ accountCalls[d].user = c.user}
      same == {d \in others : accountCalls[d].id = c.id}
  IN /\ AccountAt(r, "unlink", "delete")
     /\ IF c.there
        THEN /\ owner' = [owner EXCEPT ![c.id] = "nobody"]
             /\ accountOverlap' = accountOverlap \cup
                  {"unlink" : d \in {d \in others \ same : accountCalls[d].at = "delete"}}
        ELSE UNCHANGED <<owner, accountOverlap>>
     /\ accountCalls' = [d \in Req |->
          IF d = r THEN Idle
          ELSE IF d \in same THEN [accountCalls[d] EXCEPT !.there = FALSE] ELSE accountCalls[d]]
     /\ UNCHANGED <<users, mails, strayed>>

-----------------------------------------------------------------------------
(***************************************************************************)
(* Mailed tokens: requestPasswordReset and resendVerification ask for one, *)
(* resetPassword and verifyEmail use it.                                   *)
(***************************************************************************)
AskFind(r, e, kind) ==
  /\ LiveUser(e) /\ users[e].password
  /\ kind = "confirm" => ~users[e].verified
  /\ AccountStart(r, [op |-> "ask", at |-> "write", user |-> e, kind |-> kind])

\* Mutant: the tokens sent before stay good.
AskWriteMore(r) ==
  LET c == accountCalls[r]
  IN /\ AccountAt(r, "ask", "write")
     /\ \E t \in Mail : Spare(t) /\ mails' = [mails EXCEPT ![t] = NewMail(c.user, c.kind)]
     /\ AccountLeave(r)
     /\ UNCHANGED <<users, owner, accountOverlap, strayed>>

\* One transaction; two at once need not see the tokens of each other.
AskWrite(r) ==
  LET c == accountCalls[r]
  IN /\ AccountAt(r, "ask", "write")
     /\ \E t \in Mail :
          /\ Spare(t) \/ (mails[t] # NoMail /\ mails[t].to = c.user /\ mails[t].kind = c.kind)
          /\ \A d \in Req : accountCalls[d].op = "use" => accountCalls[d].mail # t
          /\ \E seen \in {Superseded(c.user, c.kind)} \cup {mails : o \in {"ask"} \cap accountOverlap} :
               mails' = [seen EXCEPT ![t] = NewMail(c.user, c.kind)]
     /\ accountOverlap' = accountOverlap \cup {"ask" : d \in {d \in Req \ {r} : accountCalls[d] = c}}
     /\ AccountLeave(r)
     /\ UNCHANGED <<users, owner, strayed>>

UseFind(r, t) == /\ Usable(t)
                 /\ AccountStart(r, [op |-> "use", at |-> "write", mail |-> t])

\* The sessions that a reset ends are those of AuthSession.
UseWrite(r) ==
  LET t == accountCalls[r].mail
      e == mails[t].to
  IN /\ AccountAt(r, "use", "write")
     /\ mails' = [mails EXCEPT ![t].open = FALSE, ![t].uses = @ + 1]
     /\ users' = IF mails[t].kind = "reset" THEN [users EXCEPT ![e].password = TRUE]
                 ELSE [users EXCEPT ![e].verified = TRUE]
     /\ accountOverlap' = accountOverlap \cup
          {"use" : d \in {d \in Req \ {r} : accountCalls[d] = accountCalls[r]}}
     /\ AccountLeave(r)
     /\ UNCHANGED <<owner, strayed>>

MailExpires(t) == /\ Usable(t)
                  /\ mails' = [mails EXCEPT ![t].open = FALSE]
                  /\ UNCHANGED <<users, owner, accountCalls, accountOverlap, strayed>>

\* The database or the process fails between two statements.
AccountAbort(r) ==
  /\ accountCalls[r] # Idle
  /\ accountOverlap' = accountOverlap \cup
       IF /\ AccountAt(r, "callback", "link")
          /\ ~users[accountCalls[r].id.email].password /\ Links(accountCalls[r].id.email) = {}
       THEN {"callback"} ELSE {}
  /\ AccountLeave(r)
  /\ UNCHANGED <<users, owner, mails, strayed>>

AccountRequest(r) ==
  \/ \E e \in Email : RegisterFind(r, e) \/ PasswordFind(r, e)
  \/ \E i \in Identity, by \in Email \cup {"nobody"} : CallbackFind(r, i, by)
  \/ \E i \in Identity : UnlinkFind(r, i)
  \/ \E e \in Email, kind \in Kind : AskFind(r, e, kind)
  \/ \E t \in Mail : UseFind(r, t)

AccountHandle(r) ==
  \/ RegisterWrite(r) \/ PasswordWrite(r)
  \/ CallbackUser(r) \/ CallbackCreate(r) \/ CallbackVerify(r) \/ CallbackLink(r)
  \/ LinkCheck(r) \/ LinkAdd(r)
  \/ UnlinkCount(r) \/ UnlinkDelete(r)
  \/ AskWrite(r) \/ UseWrite(r) \/ AccountAbort(r)

AccountNext == \/ \E r \in Req : AccountRequest(r) \/ AccountHandle(r)
               \/ \E e \in Email : DeleteAccount(e)
               \/ \E t \in Mail : MailExpires(t)

AccountSpec == AccountInit /\ [][AccountNext]_accountVars

-----------------------------------------------------------------------------
\* Whoever has an account can log in to it, with a password or by a link, or
\* the callback that made the account is about to link it: unless two
\* requests to remove different links had both counted two, or a callback
\* failed between making the account and the link.
WayInRemains ==
  {"unlink", "callback"} \cap accountOverlap = {} =>
    \A e \in Email : LiveUser(e) =>
      \/ users[e].password
      \/ Links(e) # {}
      \/ \E r \in Req : AccountAt(r, "callback", "link") /\ accountCalls[r].id.email = e

\* A mailed token takes effect once, and only the last one sent is good:
\* unless two requests with it had both found it unused, or two requests for
\* one were both about to make it.
MailedOnce ==
  /\ "use" \notin accountOverlap => \A t \in Mail : mails[t] # NoMail => mails[t].uses <= 1
  /\ "ask" \notin accountOverlap =>
       \A s, t \in {t \in Mail : Usable(t)} :
         mails[s].to = mails[t].to /\ mails[s].kind = mails[t].kind => s = t

\* Adding a provider's link to an account ends with the link at that account
\* (docs/api/accounts.md:97, :124), if it could have it when the callback
\* began.  It fails: the strategy's callback has by then given the link to
\* the user with the provider's address, whom it may even have made.
LinkReachesUser == ~strayed

-----------------------------------------------------------------------------
\* Why: rows of users stay, so what has a link, a token or a request of theirs
\* finds one.  Who unlinks has another link still, as the next to delete one
\* would have been an overlap.  An account with no way in is one whose first
\* link is under way: nobody had its address's identities yet, so nothing
\* keeps the callback from linking.  And a token that is about to be used has
\* not been, for the same reason as with links.
AccountRows ==
  /\ \A i \in Identity : owner[i] # "nobody" => Registered(i.email)
  /\ \A t \in Mail : mails[t] # NoMail =>
       Registered(mails[t].to) /\ (mails[t].open => mails[t].uses = 0)
Known(c) ==
  /\ c.op \in {"password", "ask"} => Registered(c.user)
  /\ c.op = "callback" /\ c.at \in {"verify", "link", "check", "add"} => Registered(c.id.email)
  /\ c.op = "unlink" /\ c.there => owner[c.id] = c.user
  /\ c.op = "use" => mails[c.mail] # NoMail
CallsKnown == \A r \in Req : Known(accountCalls[r])
UnlinksCounted == \A r \in Req :
  AccountAt(r, "unlink", "delete") /\ accountCalls[r].there
    => Links(accountCalls[r].user) # {accountCalls[r].id}
Bare(e) == LiveUser(e) /\ ~users[e].password /\ Links(e) = {}
FirstLinkUnderWay == \A e \in Email : Bare(e) =>
  /\ \E r \in Req : AccountAt(r, "callback", "link") /\ accountCalls[r].id.email = e
  /\ \A i \in Identity : i.email = e => owner[i] = "nobody"
  /\ \A r \in Req : accountCalls[r].op = "callback" /\ accountCalls[r].id.email = e
                      => accountCalls[r].at \notin {"check", "add"}
UsedAtMostOnce ==
  /\ \A t \in Mail : mails[t] # NoMail => mails[t].uses <= 1
  /\ \A r \in Req : accountCalls[r].op = "use" => mails[accountCalls[r].mail].uses = 0
OneOpen == \A s, t \in {t \in Mail : Usable(t)} :
  mails[s].to = mails[t].to /\ mails[s].kind = mails[t].kind => s = t

AccountInv == /\ AccountTypeOK /\ AccountRows /\ CallsKnown
              /\ "unlink" \notin accountOverlap => UnlinksCounted
              /\ {"unlink", "callback"} \cap accountOverlap = {} => FirstLinkUnderWay
              /\ "use" \notin accountOverlap => UsedAtMostOnce
              /\ "ask" \notin accountOverlap => OneOpen
=============================================================================
