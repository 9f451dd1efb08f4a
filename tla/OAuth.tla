------------------------------- MODULE OAuth --------------------------------
(***************************************************************************)
(* What one user lets one MCP client do (apps/api oauth.service.ts), and   *)
(* the copy of that which the MCP server keeps (apps/mcp-server            *)
(* token-introspection.service.ts): authorization codes, the refresh token *)
(* each gives, access tokens, and the cache of validated access tokens.    *)
(* Every statement is one step; a request holds no transaction.            *)
(***************************************************************************)
EXTENDS Requests

CONSTANTS AuthCode, Grant, Access,  \* ids; they bound how many there ever are
          Second,                   \* ticks of the clock in a second
          Life,                     \* for how many ticks an access token is good
          CacheTtl,                 \* for how many seconds it may be cached
          MaxWait                   \* bound: ticks from an introspection to its caching

ASSUME TimesAssumption == /\ Second \in Nat \ {0} /\ Life \in Nat \ {0}
                          /\ CacheTtl \in Nat \ {0} /\ MaxWait \in Nat

VARIABLES codes,        \* codes[c]: of the authorization code
          stale,        \* codes past their expiry
          grants,       \* grants[g]: the refresh token's row, or NoGrant
          access,       \* access[a]: the access token's row, or NoGrant
          cache,        \* cache[a]: ticks left of its entry in Redis, 0: none
          waited,       \* history: ticks the entry has waited for, see MaxWait
          frac,         \* ticks since the clock's last full second
          replayed,     \* history: codes found used, and their tokens revoked
          oauthCalls,   \* oauthCalls[r]: the request in slot r
          oauthOverlap  \* history: the kinds of requests that overlapped

ofCodes == <<codes, stale>>
ofCache == <<cache, waited, frac>>
oauthVars == <<ofCodes, grants, access, ofCache, replayed, oauthCalls, oauthOverlap>>

-----------------------------------------------------------------------------
NoGrant == [code |-> "none"]
GrantRow == [code : AuthCode, live : BOOLEAN]
\* How far back the end of a token matters: a copy lives no longer.
Far == Second * CacheTtl + MaxWait + 1
\* `left`: ticks to its expiry, below 0 when it has expired; `gone`: ticks since
\* it was revoked.
AccessRow == [code : AuthCode, left : -Far .. Life, revoked : BOOLEAN, gone : 0 .. Far]
OAuthCall == {Idle}
  \cup [op : {"exchange"}, at : {"mark", "grant", "access"}, code : AuthCode]
  \cup [op : {"replay"}, at : {"access", "grants"}, code : AuthCode]
  \cup [op : {"refresh"}, at : {"access"}, code : AuthCode]
  \cup [op : {"validate"}, at : {"introspect"}, token : Access]
  \cup [op : {"validate"}, at : {"ttl"}, token : Access, age : 0 .. MaxWait]
  \cup [op : {"validate"}, at : {"setex"}, token : Access, age : 0 .. MaxWait,
        ttl : 1 .. Second * CacheTtl]

\* One type invariant for the component.
OAuthTypeOK == /\ codes \in [AuthCode -> {"new", "issued", "used"}]
               /\ stale \subseteq AuthCode
               /\ grants \in [Grant -> GrantRow \cup {NoGrant}]
               /\ access \in [Access -> AccessRow \cup {NoGrant}]
               /\ cache \in [Access -> 0 .. Second * CacheTtl]
               /\ waited \in [Access -> 0 .. MaxWait]
               /\ frac \in 0 .. Second - 1
               /\ replayed \subseteq AuthCode
               /\ oauthCalls \in [Req -> OAuthCall]
               /\ oauthOverlap \subseteq {"code", "issue"}

OAuthInit == /\ codes = [c \in AuthCode |-> "new"]
             /\ stale = {}
             /\ grants = [g \in Grant |-> NoGrant]
             /\ access = [a \in Access |-> NoGrant]
             /\ cache = [a \in Access |-> 0]
             /\ waited = [a \in Access |-> 0]
             /\ frac = 0
             /\ replayed = {}
             /\ oauthCalls = [r \in Req |-> Idle]
             /\ oauthOverlap = {}

Granted == {g \in Grant : grants[g] # NoGrant}
Opened == {a \in Access : access[a] # NoGrant}
Good(a) == a \in Opened /\ ~access[a].revoked /\ access[a].left >= 0

OAuthAt(r, op, at) == oauthCalls[r].op = op /\ oauthCalls[r].at = at
OAuthTo(r, at) == oauthCalls' = [oauthCalls EXCEPT ![r].at = at]
OAuthLeave(r) == oauthCalls' = End(oauthCalls, r)
OAuthStart(r, call) == /\ oauthCalls[r] = Idle
                       /\ oauthCalls' = [oauthCalls EXCEPT ![r] = call]
                       /\ UNCHANGED <<ofCodes, grants, access, ofCache, replayed, oauthOverlap>>

-----------------------------------------------------------------------------
(***************************************************************************)
(* Codes and what they are exchanged for                                   *)
(***************************************************************************)
IssueCode(c) == /\ codes[c] = "new"
                /\ codes' = [codes EXCEPT ![c] = "issued"]
                /\ UNCHANGED <<stale, grants, access, ofCache, replayed, oauthCalls, oauthOverlap>>

\* Whether it has been used or not.
CodeExpires(c) == /\ codes[c] # "new"
                  /\ stale' = stale \cup {c}
                  /\ UNCHANGED <<codes, grants, access, ofCache, replayed, oauthCalls, oauthOverlap>>

ExchangeFind(r) == \E c \in AuthCode \ stale :
  /\ codes[c] = "issued"
  /\ OAuthStart(r, [op |-> "exchange", at |-> "mark", code |-> c])

ExchangeMark(r) ==
  /\ OAuthAt(r, "exchange", "mark")
  /\ LET c == oauthCalls[r].code
     IN /\ codes' = [codes EXCEPT ![c] = "used"]
        /\ oauthOverlap' = oauthOverlap \cup
             {"code" : d \in {d \in Req \ {r} : /\ OAuthAt(d, "exchange", "mark")
                                                /\ oauthCalls[d].code = c}}
  /\ OAuthTo(r, "grant")
  /\ UNCHANGED <<stale, grants, access, ofCache, replayed>>

ExchangeGrant(r) ==
  /\ OAuthAt(r, "exchange", "grant")
  /\ \E g \in Grant \ Granted :
       grants' = [grants EXCEPT ![g] = [code |-> oauthCalls[r].code, live |-> TRUE]]
  /\ OAuthTo(r, "access")
  /\ UNCHANGED <<ofCodes, access, ofCache, replayed, oauthOverlap>>

\* refreshAccessToken: the refresh token is found live; it is not rotated.
RefreshFind(r) == \E g \in Granted :
  /\ grants[g].live
  /\ OAuthStart(r, [op |-> "refresh", at |-> "access", code |-> grants[g].code])

\* createAccessToken, after an exchange and after a refresh.
CreateAccess(r) ==
  /\ OAuthAt(r, "exchange", "access") \/ OAuthAt(r, "refresh", "access")
  /\ \E a \in Access \ Opened :
       access' = [access EXCEPT ![a] = [code |-> oauthCalls[r].code, left |-> Life,
                                        revoked |-> FALSE, gone |-> 0]]
  /\ OAuthLeave(r)
  /\ UNCHANGED <<ofCodes, grants, ofCache, replayed, oauthOverlap>>

-----------------------------------------------------------------------------
(***************************************************************************)
(* Revocation                                                              *)
(***************************************************************************)
\* A used code comes again before its expiry: all tokens of the user and the
\* client go.  Later it is only refused: the expiry is looked at first.
ReplayFind(r) == \E c \in AuthCode \ stale :
  /\ codes[c] = "used"
  /\ OAuthStart(r, [op |-> "replay", at |-> "access", code |-> c])

ReplayRevokeAccess(r) ==
  /\ OAuthAt(r, "replay", "access")
  /\ access' = [a \in Access |-> IF a \in Opened THEN [access[a] EXCEPT !.revoked = TRUE]
                                 ELSE access[a]]
  /\ OAuthTo(r, "grants")
  /\ UNCHANGED <<ofCodes, grants, ofCache, replayed, oauthOverlap>>

\* Mutant: the refresh tokens stay.
ReplayRevokeNothing(r) ==
  /\ OAuthAt(r, "replay", "grants")
  /\ replayed' = replayed \cup {oauthCalls[r].code}
  /\ OAuthLeave(r)
  /\ UNCHANGED <<ofCodes, grants, access, ofCache, oauthOverlap>>

\* Whoever was about to issue a token issues it all the same.
ReplayRevokeGrants(r) ==
  /\ OAuthAt(r, "replay", "grants")
  /\ grants' = [g \in Grant |-> IF g \in Granted THEN [grants[g] EXCEPT !.live = FALSE]
                                ELSE grants[g]]
  /\ replayed' = replayed \cup {oauthCalls[r].code}
  /\ oauthOverlap' = oauthOverlap
       \cup {"issue" : d \in {d \in Req : oauthCalls[d].op \in {"exchange", "refresh"}}}
       \cup {"issue" : a \in {a \in Opened : ~access[a].revoked}}
  /\ OAuthLeave(r)
  /\ UNCHANGED <<ofCodes, access, ofCache>>

\* revokeToken: an access token, or a refresh token without its access tokens.
RevokeAccess(a) == /\ a \in Opened /\ ~access[a].revoked
                   /\ access' = [access EXCEPT ![a].revoked = TRUE]
                   /\ UNCHANGED <<ofCodes, grants, ofCache, replayed, oauthCalls, oauthOverlap>>
RevokeGrant(g) == /\ g \in Granted /\ grants[g].live
                  /\ grants' = [grants EXCEPT ![g].live = FALSE]
                  /\ UNCHANGED <<ofCodes, access, ofCache, replayed, oauthCalls, oauthOverlap>>

-----------------------------------------------------------------------------
(***************************************************************************)
(* The MCP server: what is not in the cache is introspected, and cached    *)
(* when it is good.  Redis and the API answer between the steps.           *)
(***************************************************************************)
ValidateMiss(r) == \E a \in Opened :
  /\ cache[a] = 0
  /\ OAuthStart(r, [op |-> "validate", at |-> "introspect", token |-> a])

\* introspectToken reads the row.
Introspect(r) ==
  /\ OAuthAt(r, "validate", "introspect")
  /\ Good(oauthCalls[r].token)
  /\ oauthCalls' = [oauthCalls EXCEPT ![r] =
       [op |-> "validate", at |-> "ttl", token |-> oauthCalls[r].token, age |-> 0]]
  /\ UNCHANGED <<ofCodes, grants, access, ofCache, replayed, oauthOverlap>>

\* The seconds between now and the expiry, each rounded down to a second.
SecondsLeft(a) == (frac + access[a].left) \div Second

Least(m, n) == IF m < n THEN m ELSE n

\* Mutant: always for the longest time.
TtlFull(seconds) == CacheTtl

\* Mutant: for as long as the token is good.
TtlLife(seconds) == IF seconds < 1 THEN 1 ELSE seconds

\* At least one second and at most the limit.
Ttl(seconds) == Least(CacheTtl, IF seconds < 1 THEN 1 ELSE seconds)

\* validateToken has the answer and computes for how long to keep it.
ComputeTtl(r) ==
  /\ OAuthAt(r, "validate", "ttl")
  /\ oauthCalls' = [oauthCalls EXCEPT ![r] =
       [op |-> "validate", at |-> "setex", token |-> oauthCalls[r].token,
        age |-> oauthCalls[r].age, ttl |-> Second * Ttl(SecondsLeft(oauthCalls[r].token))]]
  /\ UNCHANGED <<ofCodes, grants, access, ofCache, replayed, oauthOverlap>>

\* SETEX reaches Redis.
CacheFill(r) ==
  /\ OAuthAt(r, "validate", "setex")
  /\ cache' = [cache EXCEPT ![oauthCalls[r].token] = oauthCalls[r].ttl]
  /\ waited' = [waited EXCEPT ![oauthCalls[r].token] = oauthCalls[r].age]
  /\ OAuthLeave(r)
  /\ UNCHANGED <<ofCodes, grants, access, frac, replayed, oauthOverlap>>

\* A mismatch, an error or a crash.
OAuthAbort(r) == /\ oauthCalls[r] # Idle
                 /\ OAuthLeave(r)
                 /\ UNCHANGED <<ofCodes, grants, access, ofCache, replayed, oauthOverlap>>

\* Introspected, and not cached yet.
Introspected(r) == oauthCalls[r].op = "validate" /\ oauthCalls[r].at # "introspect"

\* The token a tick later.
Aged(row) ==
  [row EXCEPT !.left = IF @ = -Far THEN @ ELSE @ - 1,
              !.gone = IF row.revoked /\ @ < Far THEN @ + 1 ELSE @]

Tick ==
  /\ \A r \in Req : Introspected(r) => oauthCalls[r].age < MaxWait
  /\ frac' = IF frac = Second - 1 THEN 0 ELSE frac + 1
  /\ cache' = [a \in Access |-> IF cache[a] = 0 THEN 0 ELSE cache[a] - 1]
  /\ access' = [a \in Access |-> IF a \in Opened THEN Aged(access[a]) ELSE access[a]]
  /\ oauthCalls' = [r \in Req |-> IF Introspected(r) THEN [oauthCalls[r] EXCEPT !.age = @ + 1]
                                  ELSE oauthCalls[r]]
  /\ UNCHANGED <<ofCodes, grants, waited, replayed, oauthOverlap>>

OAuthHandle(r) ==
  \/ ExchangeFind(r) \/ ExchangeMark(r) \/ ExchangeGrant(r) \/ RefreshFind(r)
  \/ CreateAccess(r) \/ ReplayFind(r) \/ ReplayRevokeAccess(r) \/ ReplayRevokeGrants(r)
  \/ ValidateMiss(r) \/ Introspect(r) \/ ComputeTtl(r) \/ CacheFill(r) \/ OAuthAbort(r)

OAuthNext == \/ \E r \in Req : OAuthHandle(r)
             \/ \E c \in AuthCode : IssueCode(c) \/ CodeExpires(c)
             \/ \E a \in Access : RevokeAccess(a)
             \/ \E g \in Grant : RevokeGrant(g)
             \/ Tick

OAuthSpec == OAuthInit /\ [][OAuthNext]_oauthVars

-----------------------------------------------------------------------------
\* A code gives one grant, unless two requests had both found it unused; and
\* when it has come a second time before its expiry nothing it gave is good any
\* more, unless tokens were being issued meanwhile.
CodeCountsOnce ==
  /\ "code" \notin oauthOverlap =>
       \A g, h \in Granted : grants[g].code = grants[h].code => g = h
  /\ "issue" \notin oauthOverlap =>
       /\ \A g \in Granted : grants[g].live => grants[g].code \notin replayed
       /\ \A a \in Opened : ~access[a].revoked => access[a].code \notin replayed

\* The MCP server accepts what is cached.  An expired token is cached for less
\* than the second that rounding may add, and a revoked one for less than the
\* longest life of a copy, each but for the time the copy waited to be written.
CacheForgets ==
  \A a \in Opened : cache[a] > 0 =>
    /\ access[a].left > -(Second + waited[a])
    /\ access[a].gone < Second * CacheTtl + waited[a]

-----------------------------------------------------------------------------
\* Why.  A code is used before anything is made of it, and for good; whoever
\* is about to make its grant is the only one and there is none yet.  What
\* issues a token does not do so of a code that came again.  A token that was
\* introspected was good as long ago as that is, and its copy is to live no
\* longer than it, but for that time and the second of rounding.
Issues(r) == oauthCalls[r].op \in {"exchange", "refresh"}

CodesSpent ==
  /\ \A r \in Req : \/ oauthCalls[r].op = "exchange" /\ oauthCalls[r].at \in {"grant", "access"}
                   \/ oauthCalls[r].op = "replay"
                => codes[oauthCalls[r].code] = "used"
  /\ \A g \in Granted : codes[grants[g].code] = "used"
  /\ \A c \in replayed : codes[c] = "used"
ValidatedOpened == \A r \in Req : oauthCalls[r].op = "validate" => oauthCalls[r].token \in Opened
GoneRevoked == \A a \in Opened : access[a].gone > 0 => access[a].revoked

ExchangesApart ==
  /\ \A r \in Req : OAuthAt(r, "exchange", "mark") => codes[oauthCalls[r].code] # "used"
  /\ \A r \in Req : OAuthAt(r, "exchange", "grant") =>
       /\ \A d \in Req : OAuthAt(d, "exchange", "grant") /\ oauthCalls[d].code = oauthCalls[r].code
                          => d = r
       /\ \A g \in Granted : grants[g].code # oauthCalls[r].code
  /\ \A g, h \in Granted : grants[g].code = grants[h].code => g = h
NothingReissued ==
  /\ \A r \in Req : Issues(r) => oauthCalls[r].code \notin replayed
  /\ \A g \in Granted : grants[g].live => grants[g].code \notin replayed
  /\ \A a \in Opened : ~access[a].revoked => access[a].code \notin replayed
WaitingWasGood == \A r \in Req : Introspected(r) =>
  LET row == access[oauthCalls[r].token]
  IN  /\ row.left + oauthCalls[r].age >= 0
      /\ row.gone <= oauthCalls[r].age
      /\ oauthCalls[r].at = "setex" =>
           oauthCalls[r].ttl <= row.left + oauthCalls[r].age + Second
CacheWithin == \A a \in Access : cache[a] > 0 =>
  /\ a \in Opened
  /\ cache[a] <= access[a].left + Second + waited[a]
  /\ cache[a] + access[a].gone <= Second * CacheTtl + waited[a]

OAuthInv == /\ OAuthTypeOK /\ CodesSpent /\ ValidatedOpened /\ GoneRevoked
            /\ WaitingWasGood /\ CacheWithin
            /\ "code" \notin oauthOverlap => ExchangesApart
            /\ "issue" \notin oauthOverlap => NothingReissued
=============================================================================
