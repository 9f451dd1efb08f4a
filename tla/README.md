# A verification project for Agentest

Agentest is a test management tool: people, and AI agents through MCP, write
test suites and test cases, review them, execute them and attach evidence. This
directory holds TLA+ specifications of the parts of it where several actors
meet, the TLC configurations that check them on small instances, and proofs for
TLAPS. Paths below are relative to the repository's root.

* `tlc -workers 2 -config X.cfg M` checks a run (the table in "Runs").
* `tlapm M.tla` checks the proofs of a module whose name ends in `Proofs`.
* `PROJECT.json` maps every definition that models code to its lines, and lists
  the runs, a mutation of the code for each checked property that TLC must
  catch, the findings, the hazards and the theorems.

## 1. Inventory

### The processes and what they share

| process | what it does | state of its own |
|---|---|---|
| `apps/api` | Express routes over services over Prisma | none but timers: everything is in PostgreSQL, Redis, S3/MinIO |
| `apps/ws` | WebSocket server, fed by Redis Pub/Sub | sockets, channel subscribers, presence |
| `apps/mcp-server` | MCP tools and sessions for agents; each tool is a request to the API's internal routes | heartbeat timers; a token cache in Redis |
| `apps/jobs` | batch deletion of old history and deleted projects | none |
| `apps/web`, `apps/admin` | browser clients | query cache, socket |

All server code is asynchronous JavaScript: what runs between two `await`s is
atomic within a process, what lies on both sides of one is not, and the API may
run as several processes. Almost every service is "read, decide, write", with
the read outside the transaction that writes; PostgreSQL runs at READ
COMMITTED. This is where the hard behaviour is. A process may die between two
statements, and nothing resumes what it was doing.

### Components

| component | state | operations | hard behaviour | correct when |
|---|---|---|---|---|
| edit locks (`edit-lock.service.ts`, `lock-cleanup.job.ts`, `mcp-server/clients/api-client.ts`) | table of leases, unique per target | acquire, heartbeat, release, forced release, clean-up, an agent's check before a write | check-then-act across awaits, expiry in between | one holder per target; a granted lease lasts; abandoned locks end |
| ordered collections (`test-case-*.service.ts`, `test-suite.service.ts`) | rows with an order key, soft deletion | add, delete, reorder, sync, soft delete, restore | overlapping transactions that renumber the same rows | distinct keys; the collection behaves like a list |
| WebSocket server (`ws/src/server.ts`, `handlers/presence.ts`) | subscribers and presence per channel, Redis subscriptions | connect, authenticate, subscribe, unsubscribe, close | handlers suspended on Redis while others change the maps | subscribers are served; presence is who is there; closed sockets leave |
| judging (`execution.service.ts`) | status per expected result | update, completion notice | two last judgements at once, failure after the write | the executor is told the verdict that holds |
| evidence (`execution.service.ts`) | rows, files, presigned URLs | upload, URL, confirm, delete | no transaction over database and storage, limits checked early, time-outs | a recorded file exists; the limit holds |
| organizations (`organization.service.ts`) | members with roles, invitations | invite, accept, decline, cancel, change role, remove, transfer, delete, restore | transfer against removal or another transfer; two answers at once | one owner; an invitation is settled once |
| administration (`admin/system-admin.service.ts`, `setup.controller.ts`) | administrators, their invitations, a cached detail | set up, change, remove, invite, accept, view | counting before writing; a cache filled after its invalidation | a super administrator remains; the detail is current |
| authentication (`auth.controller.ts`, `session.service.ts`, `user-password-auth.service.ts`) | sessions, refresh tokens, failed attempts and their lock | login, refresh, logout, revocation, change and reset of the password | rotation racing itself, two tables for one login, a comparison that takes long | a revoked login is not renewed; a used token is used up; attempts are bounded |
| two-factor (`user-totp.service.ts`) | secret, set-up, login tokens and used codes in Redis | set up, turn on and off, verify | verify-then-mark; Redis failing | a token and a code count once |
| OAuth (`oauth.service.ts`) and the MCP token cache (`token-introspection.service.ts`) | codes, refresh and access tokens, cache | exchange, refresh, introspect, revoke | replay of codes while tokens are issued, or after their expiry; a lifetime rounded to seconds and written later than it was computed | a code gives one grant; staleness is bounded |
| agent sessions (`mcp-server`) | status, last heartbeat | find or create, heartbeat, end, time out | heartbeat against the time-out job; restarts | one active session; only silent ones time out; silent ones do |
| reviews (`review.service.ts`) | drafts, verdicts, comments, replies | start, comment, submit, change, delete | double start, deletion against submission | what is submitted stays |
| histories (`test-suite.service.ts`, `test-case.service.ts`) | rows and history entries of suites and cases | update, delete, restore, clean-up by age | the entry holds what was read before the transaction | what is left of the entries replays to the row |
| projects (`project.service.ts`, `jobs/project-cleanup.ts`) | deletion, environments | delete, restore, clean-up, environments with default and order | clean-up against restore; two defaults | a live project stays, a deleted one goes; one default |
| live view (`web/hooks/useExecutionRealtime.ts`, `lib/ws.ts`, `pages/Execution.tsx`) | query cache | optimistic update, rollback, patch by event, refetch | events, answers and refetches in any order; lost events, publishing that fails unnoticed | at rest the view shows the database |
| users and accounts (`user-password-auth.service.ts`, `account.service.ts`, `app.ts`) | users by address, links to providers, mailed tokens | register, set a password, delete, log in through a provider, link, unlink, mail and use tokens | user and link made in two statements; links counted before one goes; tokens read before a slow hash | everyone has a way in; a mailed token counts once; a link goes to who asked for it |
| labels, members, API tokens, notifications, e-mail | tables | mostly single statements | - | - |
| rate limits, CSRF, roles | none of their own | one read, one decision | - | - |

How they interact: services publish events to Redis; the WebSocket server
forwards them to subscribers; the web client patches its cache. The MCP server
calls the API over HTTP and asks the lock table before updating a suite or a
case. The MCP server also asks the API whether a token is good and remembers the
answer in Redis. `startExecution` copies the ordered collections into an
execution, whose results are then judged; a completed execution creates a notification, which is
published on the `user:<id>` channel. Everything persistent is in PostgreSQL
but for the evidence files.

`PROJECT.json` lists the components with their sources and, under `hazards`,
the places in the code where an order of steps nobody tests can do harm, with
the properties that watch them.

## 2. What is modelled

### EditLock

One table `locks`, and `calls`: for each request between two awaited database
statements a record naming the statement it executes next with the ids and
expiry it has already computed. `AcquireFind`, `AcquireTest`, `AcquireDelete`,
`AcquireNew`, `AcquireCreate` are `acquireLock` cut at its awaits: the row is
read before one, and its expiry compared with the clock after it; `HeartbeatStart`/`HeartbeatFind` and
`HeartbeatUpdate` are `updateHeartbeat` called by the route and by
`acquireLock`; `ReleaseFind`, `ForceCheck`, `ForceFind`, `DeleteLock` are the
two releases; `DeleteExpired` is the job; `AgentCheck` reads for an MCP update tool, `AgentRefused` and
`AgentWrite` are what the tool does with the answer. A failed insert (unique key) or update
(row gone) ends the call, as P2002 and P2025 do. Time is relative: `ttl` is
`expiresAt - now`, and `Tick` ages every row. Expiry times that have been
computed but not written age too: the code reads the clock before the await.
`grants` records what users were last told; `revived` and `raced` mark the rows
that a heartbeat has extended after their expiry, or between the reading and the
test of an acquire. For these two the lock does not keep its promise, as the run
`edit_lock_heartbeats` shows: either alone is enough.

### OrderKeys and OrderedList

`OrderKeys` models a request as a plan of row writes made when it reads, then
executed statement by statement. A written row is locked until the commit; the
writes are seen by others only then; an update of a row that is gone fails the
transaction. It covers both variants in the code: children of a test case
(deleted for good, the rest renumbered; a suite's preconditions work the same
way) and test cases of a suite (hidden by `deletedAt`, restorable, not
renumbered). `updateWithChildren` is `SyncStart`; `TestCaseRepository.restore`
uses a connection of its own and so takes effect at once (`Restore`). The routes
that add a child take an order key from the client and insert it unseen
(`AddOwnKey`); no client in the repository sends one, and nothing is promised of
keys once one has. `Abort`
is any failure of a transaction, deadlocks between two reorders among them.

`OrderedList` is the abstract specification: a list and the last answer. Adding
appends, deleting removes, reordering takes the order named, and so on
(`InOrderOf` says that what remains keeps its order). It allows anything once
two requests have collided, or a client has named a key. `OrderKeys` implements it
under the mapping "rows in order of their keys": nothing goes wrong outside the
overlaps that `Collide` and `Restore` name, which are two inserts; a sync and anything; a reorder and a delete or restore; two
reorders of different sets of rows; and a test case restored after a reorder.

### WsServer

The state of `server.ts` and `presence.ts` by its names: `ws.channels` is
`chans`, `channelSubscribers` is `subs`, `channelPresence` is `presence`; a map
without an entry is the empty set. `tasks` are handlers that await the reply to
SUBSCRIBE. Redis executes the commands of one connection in order, so `redis`
changes when a command is issued, while the handler goes on when the reply
comes. A command may fail. `Close` may happen at any moment, also before the
close handler is attached. `late` and `raced` are history: sockets closed while
one of their handlers was suspended, channels with two SUBSCRIBEs awaited at
once. A message for several channels is a sequence of messages for one.

Who a socket is, `user`, is not known beforehand and is not fixed either:
`handleAuthenticate` refuses only a socket that has a user already, counts the
attempt, and awaits the check of the token, so several may wait (`verifying`),
and each that is accepted overwrites `ws.user`. A second user finds the socket in
the channels of the first, whose presence nobody takes back: those channels are
`mixed`, and `PresenceMatches` says nothing of them.

Not modelled: `userConnections`, which is written and never read; the second
call of `cleanupConnection` by the ping timer or the error handler, which finds
nothing left to do; interleavings of handlers that resume in the same turn of
the event loop, at the awaits of the presence functions (which wait for
nothing); the shutdown.

### Execution

`updateExpectedResult` cut at its awaits: write the row (`UpdateResult`), read
all results (`CheckCompletion`), store the notice (`SendNotification`); `JudgeAbort`
is a crash or an error, which the code logs and does not retry. `notices` holds
what was sent since the last write. An execution without an executor sends no
notice, and steps and preconditions trigger no check; both are left out.
SKIPPED behaves like PASS.

### Evidence

Rows, those with a size, files, live URLs and requests cut at their awaits.
Upload stores the file, then inserts the row; a URL request signs, then inserts
a row of size 0; confirmation reads the metadata, then writes the size; deletion
removes the file, then the row; `EvidenceAbort` is a failure between the two. `RowAges` is the ten-minute limit of
`createEvidenceUploadUrl`, `UrlExpires` the five-minute limit of the URL; a row
ages after its URL has expired. Empty files are possible (`full = FALSE`).
`MCResults` checks `Execution` and `Evidence` in one run.

### Requests and the request components

`Requests` is the shape that the remaining components share: `Req` slots, a
slot holding either `Idle` or a record that names the statement the request
executes next and what it remembers of those before. A request is cut wherever
the code awaits the database, Redis or a slow comparison; where the code opens
a transaction whose statements depend on nothing read inside it, the
transaction is one step, as row locks keep two of them apart. Every component
has a set-valued history variable (`overlapped`, `adminOverlap`, ...) that
collects the kinds of overlaps its promises do not survive; the properties name
the kinds they exempt, so that they say at once what holds and when the code
does not provide it.

**OrgMembership.** `role`, `invitations`, the deletion of the organization.
`find` is the check a request makes after the middleware's, `write` its
transaction; a transfer looks for its successor in between. `uses` counts what
the code keeps as the time of the last acceptance, so that a second one shows.
`GraceEnds` and `Expire` are the clock.

**AdminAccess.** First set-up, change, removal, invitation and its acceptance
in four steps (`lookup`, `update` or `create`, `mark`: no transaction holds
them together); `detail` is the copy in Redis, filled by a request that read
the row earlier and removed by those that change it. `AdminAbort` is a failure
or crash between two steps.

**AuthSession.** For each refresh token its row in `refresh_tokens` and its row
in `sessions`, each revoked or not. A refresh claims its token, which locks the
row until the commit, and others that want the row wait; login, logout, reset,
change of password and revocation are cut at their awaits, logout between its two
tables. `ended` remembers which logins were meant to be over.

**PasswordLogin.** The counter and the lock of one account: read, unlock if the
lock is over, compare, count or reset. `wrong` counts what was really tried
since the counter was last due to start again; `unlockedLate` an unlocking
that undid a newer lock.

**TwoFactor.** A token of the login's first step, the secret and the code, with
the order of the code: take the token, look whether the code is used, read the
secret, mark the code, persist. A code is a secret and a period. Redis may fail where
the code catches that and goes on.

**OAuth.** Codes, refresh tokens and access tokens of one user and client, each
statement a step, since no transaction is used: a code is read, marked, then
gives its two tokens. Codes expire, used or not (`stale`), and the exchange
looks at that first: a used code that comes again in time has all tokens
revoked, table by table (`ReplayFind`, ...), one that comes late is only refused,
and then its tokens stay good. `cache` is the
MCP server's copy with the ticks it has left. A miss, the introspection, the
computation of the time to live and SETEX are steps of their own, between which
the clock may go on (`age`, remembered in `waited`). Both the expiry and the
present are rounded down to seconds before they are subtracted; `frac` is what
the present loses by it. `left` counts the ticks to a token's expiry, on below
zero after it, and `gone` those since it was revoked.

**UserAccount.** `users` by address, `owner` of each account at a provider, and
the rows of `mails`, both of password resets and of confirmations. A provider's
callback finds the link, finds the user, makes or confirms one, and makes the
link, a statement each; somebody who adds a link to an account (`by`) takes the
same way and then `LinkCheck` and `LinkAdd` of `handleOAuthLink`. Unlinking
finds, counts and deletes. A request that asks for a token or uses one finds,
and then writes in one transaction, which sees no row that a transaction beside
it makes. `strayed` remembers a request to add a link that was answered while
somebody else had got it.

**Review.** One suite's reviews and comments: one read with its checks, one
write.

**LiveView.** The composition of `execution.service.ts`, the event channel and
the browser: an edit writes the row, publishes, answers; a window patches its
copy by its own edit, by answers, by events, restores a snapshot on failure,
refetches, loses its connection and the events meanwhile. Agents edit without a
window. A failure to publish is caught, and without Redis nothing is
published: `EditPublish` reaches any set of the connected windows, and goes on
the same way. `doubts` records what befell a window since its last sound
refetch, an event it was not sent (`"missed"`) among the rest.

**History.** Suite and case with their entries; an entry holds the row as the
request had read it and the fields sent. The restoring of a case writes the row
on a connection of its own, while the transaction that holds the entry is open;
when that fails the case is restored and no entry says so, which
`historyOverlap` remembers.
A suite is restored at any time, a case within thirty days and while its suite
is there. `HistoryCleanup` is the daily job, which removes the entries older
than its limit, the first ones; `start` is the row as the last entry removed
left it, and `made` counts the entries there have ever been.

**Project.** The life of a deleted project in days (`fresh`, `late`, `over`,
`gone`), the job as a search and a deletion by id which may fail, and the environments with
default mark and order.

**AgentSession.** Finding, creating and touching a session by the calls of a
client, the end by a user, the timer in its two statements (`TimerFind`,
`TimerMark`), and restarts, which lose the timer's batch and all requests in
flight.

`MCServices` checks those that only requests drive, and `MCTimers` those with a
job or a timer. The components share no
state here, so a behaviour is one of a single component, which `focus` chooses
initially: the state spaces add up.

## 3. Runs

| run | checks | shows |
|---|---|---|
| `edit_lock` | `LeaseHonoured`, `MutualExclusion`, `IndInv`, `AbandonedLocksEnd` | a lease somebody was told of holds until it expires or is released, one holder per target; locks whose heartbeats stop do end |
| `edit_lock_heartbeats` (violated) | `UnexpiredLockExcludes` | a heartbeat written between another acquire's reading and its deletion gives two holders |
| `edit_lock_agent` (violated) | `AgentRespectsLock` | an agent's write may land on a target locked after its check |
| `order_keys` | `KeysDistinctUnlessCollided`, `KeysInv`, `ReorderTakesEffect`, `ImplementsList` | but for the named overlaps the rows are a list; an answered reorder took effect even then |
| `order_keys_restore` (violated) | `OrderKeysDistinct` | delete, reorder, restore, one after the other, give two test cases one key |
| `ws_server` | `IndInv`, `ServedUnlessRaced`, `PresenceMatches`, `ClosedSocketsLeave` | nobody's leaving or failing takes a subscription from somebody else; presence is exact; closed sockets leave |
| `ws_server_raced` (violated) | `SubscribersAreServed` | two first subscribers at once: one of them is dropped |
| `results` | `ResultsInv`, `ExecutorIsTold`, `SizedHasFile`, `OvershootBounded` | the executor has the verdict that holds when everything is at rest; recorded files exist; the limit is passed only by requests in flight and rows once too old to count; both components are where their proofs say they stay |
| `evidence_limit` (violated) | `EvidenceLimit` | an old pending row, not counted and confirmed later, passes the limit without any concurrency |
| `user_account_link` (violated) | `LinkReachesUser` | a link that somebody adds to an account goes to another user, because the callback of a login runs first |
| `services` | `TypesOK`, `SingleOwner`, `InvitationsSettleOnce`, `OnePendingInvitation`, `SuperAdminRemains`, `DetailIsCurrent`, `RotationLinear`, `EndedLoginsStayEnded`, `AttemptsBounded`, `SecondFactorOnce`, `CodeCountsOnce`, `CacheForgets`, `QuietViewsAgree`, `HistoryReplays`, `WayInRemains`, `MailedOnce`, `SubmittedStays` | ten components that check, wait and write keep their promises but for the overlaps each property names |
| `timers` | `TypesOK`, `OneDefault`, `OneActiveSession`, `LiveProjectStays`, `DeletedProjectGoes`, `TimeoutsJustified`, `SilentSessionsEnd` | what is due goes in the end, across failures and restarts, and nothing else does unless it changed after it was found |

The violated runs state what the documentation says and are explained, with the
quotation, under `findings`. The history flags in the passing properties
(`revived`, `raced`, `late`, `mixed`, `collided`, `torn`, `stale` of `Evidence`)
are exactly the conditions under which the code does not keep the promise, so
that the passing runs say how far it reaches; the violated runs show what
happens beyond for those that contradict a document most plainly. The overlaps
of `services` and `timers` are meant the same way: each kind is one in which the
code gives the promise up.

### Bounds

* `edit_lock`: one target (rows of different targets never meet), two users, so
  that there is somebody to compete with; two calls in flight (`Req`), the
  smallest number for which one can run between the check and the act of
  another; a lease of two ticks, so that a lock can be young, about to expire,
  expired and cleanable; four ids, for rows, calls and answers: with five the
  number of states stays the same. No symmetry, as it is unsound for liveness.
  `AgentsAlone` explores the check and the write of an MCP tool, which only
  read, while nothing else is in flight.
* `order_keys`: three rows, two requests in flight; keys up to `MaxKey` = 4,
  which is one above what three rows number, so that gaps and collisions
  appear; a sync brings at most one new row. Three rows are enough for every kind of
  overlap but not for every reason: without the row locks, or with updates that
  pass over a row that is gone, TLC finds equal keys only with five rows
  (adds and deletes of children alone, 2 million states). The proofs hold for
  any number of rows, and `KeysInv` already fails on three.
* `ws_server`: three sockets, two users, the two user channels and a shared one;
  two authenticate messages per socket (`MaxAttempts`, five in the code), the
  least with which one can overtake another. `Few` stops the search where a
  channel has been raced for (channels do not influence each other, and the
  properties exempt it); with three sockets it follows one authenticate message
  or one socket closed too early, with two sockets two messages, or a message
  and such a socket. The proofs do without these bounds. `Alike` is a symmetry: the sockets
  are interchangeable, and so are the users together with their channels.
* `results`: two results, two judges, two updates in flight, or three ids of
  evidence, a limit of one, two requests in flight. The limit is a parameter;
  at one the overshoot is soonest reached.
* `user_account_link`: one request, two addresses and one provider, the least
  with which an account can be somebody else's.
* `services`: two requests in flight everywhere, since every hazard here is one
  request between the check and the write of another; `AttemptsBounded`, where
  their number matters, has a proof for any. Three people (owner, successor,
  outsider), two invitations (so that one address can be invited twice), roles
  given are `MEMBER`; two administrators and one invitation; two logins and
  three tokens (a chain of two and a bystander); two wrong passwords lock; two
  challenges and secrets in two periods; one code with two grants and two
  access tokens, two ticks to a second so that rounding loses something, tokens
  good for five ticks, cached for two seconds at most and after a wait of one
  tick at most (`MaxWait`; nothing in the code bounds it), so that a cache entry
  can outlive its token and the limit matters too; two reviewers, one review, one
  comment; one window,
  one result, two edits; one field and three history entries ever made, so that
  some can be removed while others stay and are added to; one
  address, two providers and two mailed tokens, so that there are two links to
  count and an old token beside a new one.
  `Symmetry` permutes ids and people nothing tells apart; sets of different
  components are given the same values, which is harmless as they never meet
  and saves permutations. `Bound` ends the search after the first overlap where
  no property says anything afterwards, stops counting wrong passwords beyond
  the limit, follows the clock of `OAuth` while there is one access token (a second one
  ages like the first), and sessions after an overlap while there are tokens
  left. With larger bounds the components were also checked one at
  a time: organizations with the whole invariant of their proof (15.8 million
  states), accounts of two addresses at two providers with one
  token (2.5 million).
* `timers`: two environments at two places, one failure of the job; two
  sessions, a time-out of two ticks, one restart. No symmetry, as it is unsound
  for liveness.

Deadlock is checked in the runs of `EditLock`, `OrderKeys` and `UserAccount`. In the
`ws_server` runs every socket is used once, so the system ends when all are
closed; in `results` and `evidence_limit` the ids run out, as files whose row
was never inserted keep theirs; in `services` and `timers` tokens, edits, history entries and
sessions run out.

### Fairness

`EditLock` assumes weak fairness of `Tick`,
time goes on, and of `DeleteExpired`, which `setInterval` repeats every thirty
seconds for as long as the server runs, errors included (they are caught). No
request is assumed fair: a crashed call may stay suspended forever, and
`AbandonedLocksEnd` must hold all the same. Its premise is that from some time
on no heartbeat is being written.

`Project` assumes that days pass and that the clean-up job, which the
deployment schedules daily, gets to search and to delete: a deletion that fails
is found again the next day, and failures are finitely many (`MaxFailures`).
Then `DeletedProjectGoes`. `AgentSession` assumes that the timer, an interval of
the MCP server which is started again with it, gets its two statements done;
restarts are finitely many (`MaxRestarts`). Then `SilentSessionsEnd`, although a
restart loses the batch the timer had found. Users, clients and their requests
are fair to nobody.

## 4. Proofs

All proofs are for every value of the constants and have the same shape: the
inductive invariant of the component (`IndInv`, `JudgeInv`, `AuthInv`,
`OAuthInv`, ...), stated in the component's module with the reason why it
holds, is true initially, every action preserves it (one step per action, one
below it per conjunct the action can disturb), and the property is one of its
conjuncts or follows from them. TLC checked every invariant on small instances
before: those of `EditLock`, `OrderKeys`, `WsServer`, `Execution` and
`Evidence` in the runs above, the others with their component alone.

Nearly every component has the same hazard, a request between its check and its
write, and so nearly every invariant has the same core: what a request found
still holds when it acts, unless one of the overlaps was seen that the history
variable collects. The property alone is never inductive: it says nothing
about requests in flight.

* `EditLockProofs`: `Invariance`, `TypeCorrect`, `LeasesHonoured`, `Exclusion`.
  `LeaseHonoured` alone is not inductive: the invariant adds that ids and
  targets are keys, that a row to be inserted has an id nobody else refers to,
  that what an acquire has read of a row is what the row says unless a heartbeat
  came in between, that a row some acquire is about to delete is expired unless
  disturbed in one of the two ways, that a
  heartbeat in flight is for the caller's own row, and that an answer agrees
  with its row. From `DurationAssumption`. Exclusion follows from
  `LeaseHonoured` and the keys.
* `WsServerProofs`: `Invariance`, `TypeCorrect`, `SubscribersServed`,
  `PresenceCorrect`, `ClosedLeave`. The invariant says what handlers must leave
  alone for a suspended one: while SUBSCRIBE is awaited the channel is empty
  and has one waiter, every subscription is known to the clean-up that will have
  to end it, only a socket with a user is in a channel. From `NobodyAssumption`,
  `OwnAssumption` and `AttemptsAssumption`; nothing is assumed of who
  authenticates on which socket, or how often.
* `ResultsProofs`, about `Execution`, `Evidence` and both together.
  `JudgeInductive`, `ExecutorTold`: the update that wrote last has yet to check,
  is about to send the verdict that holds, or has sent it. `EvidenceInductive`,
  `FilesKept`, `LimitOvershoot`: a counting argument, as rows that count plus
  requests about to insert stay below the limit plus the number of slots, and
  each insert trades one for the other; from `MaxAssumption` and the finiteness
  of `Req`. `ResultsCorrect`: the conjunction in `MCResults`.
* `LoginProofs`, about the ways to be let in.
  `AuthInductive`, `AuthTypeCorrect`, `RotationIsLinear`, `LoginsStayEnded`: a
  refresh between claim and commit has a token that is neither renewable nor
  replaced, so the invariant calls a token living while it is renewable or
  claimed, claimed by one request only; a login has at most one living token,
  and the commit hands its life on to the next.
  `LoginInductive`, `LoginTypeCorrect`, `AttemptsAreBounded`: a counting
  argument. While the account is not locked, the wrong passwords are at most
  what the counter holds, below the limit; once it is locked nobody joins those
  past the check, and each of them can try one more. From `AttemptsAssumption`
  and `RequestsAssumption`.
  `CodeInductive`, `FactorCountsOnce`: whoever is past the deletion of a token
  has it for itself, whoever has looked at an unused code and not marked it
  finds it unused, and an entry of the log is settled: its token gone, its code
  used, no request in flight with either. From `PeriodAssumption`.
  `OAuthInductive`, `CodesCountOnce`, `CacheIsForgetful`: a code is used before
  anything is made of it, and for good; the exchange about to grant is the only
  one for its code and there is no grant yet; nothing good belongs to a code
  that came again in time; a token that is introspected was good as long ago as
  that is, so that its copy outlives it by less than the second that rounding
  may add and the time it waited for SETEX, and has been revoked for less than
  the longest time to live and that wait. From `TimesAssumption`.
* `AccessProofs`, about who has access.
  `OrgInductive`, `OrgTypeCorrect`, `OneOwner`, `SettledOnce`, `OnePending`: a
  transfer still comes from the owner and goes to another member, an answer is
  to an invitation that is still unanswered, a new invitation is for an address
  without one. From `FounderAssumption` and `GivenRoleAssumption`.
  `AdminInductive`, `SomeSuperAdmin`, `CopiesAreCurrent`: a request that has
  counted another super administrator still has one; a row read on the way to
  Redis is still the row; a cached detail is the row, or a request is about to
  invalidate it. Anything at all in the tables means that somebody was set up,
  and from then on a super administrator stays.
  `AccountInductive`, `AlwaysAWayIn`, `TokensCountOnce`: an unlinking past its
  count leaves another link; an account with neither password nor link is one
  whose first link is under way, with every identity of its address still
  nobody's, so that nothing keeps the callback from linking; a mailed token
  about to be used has not been used. From `AccountAssumption`: `nobody` is no
  address.
* `TimerProofs`, about what the clock drives, without any fairness.
  `SessionInductive`, `OneSession`, `TimeoutsAreJustified`: who found no active
  session still finds none; what the timer's first statement found is silent
  until its second. `ProjectInductive`, `OneDefaultAtMost`, `LiveProjectsStay`:
  a project in the job's batch stays deleted, a default that was read stays as
  it is. The two about steps (`TimeoutsJustified`, `LiveProjectStays`) follow
  from the invariant before the step. From `SessionAssumption` and
  `ProjectBounds`. `TimersTyped`: types in the composition `MCTimers`.
* `ServicesProofs`, about what people write and see, and the composition.
  `ReviewInductive`, `SubmittedReviewsStay`: a review about to be deleted is a
  draft. `HistoryInductive`, `HistoriesReplay`: a request that nothing has
  overlapped holds the row as it is, and the restoring of a case between its
  two writes the row the history ends with; what the job removes ends where the
  rest begins. `ViewInductive`,
  `QuietWindowsAgree`: the largest, over the edits, events and refetches on
  their way to a window. A copy without doubts agrees with a row, or an edit
  will still be published as the row is now, or an event for it is queued, or
  a write is pending whose failure restores a copy that agrees. A window that a
  publication did not reach has a doubt, and no event or refetch on its way to
  it clears that any more. The property
  itself says only what holds once nothing is on its way, so that all the rest
  is needed. From `EntriesAssumption`, `EditsAssumption` and `AgentAssumption`:
  agents are no windows. `ServicesTyped`: types in the composition
  `MCServices`. A step of the composition is one of a single component and
  leaves the others alone, so a behaviour of it is a behaviour of each, and
  each component's theorem applies.
* `OrderKeysProofs`, about ordered collections, in three layers.
  `CallsInductive`, `OrderKeysTyped`, `ReordersTakeEffect`: whatever overlaps, a
  request writes each row once, what it inserts is nowhere yet, and a row it has
  written stays there and is nobody else's until the commit (`CallsInv`). So an
  answered reorder has written all its rows.
  `KeysInductive`, `KeysStayDistinct`: as long as nothing has collided
  (`KeysInv`), a request is doomed, as a row it has yet to update is gone, or
  its keys lie below those of all rows it does not know of; an add lies above
  everything, planned keys included; of two deletes that have read each other's
  rows one waits for the row of the other, and then fails. A key planned for the
  n-th row exceeds no key in use because n rows are there with keys of their
  own, a pigeonhole argument (`PlanBelow`); that is what lets an add compare
  itself with the rows alone. Distinct keys say nothing about plans and are far
  from inductive.
  `OrderKeysImplementList`: the refinement of `OrderedList`. A list of rows
  sorted by keys exists (count the rows up to each) and is unique (take the
  first place where two differ), so that `ShownList` is any list one can show to
  be sorted; then each commit is one action of `OrderedList` and every other
  step a stutter or an answer to nobody. A delete keeps the order of the others
  because its plan names them in their order (`DeletesInOrder`), although it
  may have read them before others committed. From `IdAssumption`, rows are
  no more than keys, `KindsAssumption` and `MaxKeyAssumption`.
  TLC checks `KeysInv` on `order_keys`, and checked it with three requests in
  flight until the first collision (341 thousand states).

Only model-checked:

* `AbandonedLocksEnd`, `DeletedProjectGoes`, `SilentSessionsEnd`: liveness under
  fairness is out of the prover's reach.
* The properties that the code violates.

## 5. Plan

Done, in order of importance of the behaviour to users: `EditLock`,
`OrderedList`/`OrderKeys`, `WsServer`, `Execution`, `Evidence`,
`OrgMembership`, `AuthSession`, `PasswordLogin`, `TwoFactor`, `OAuth`,
`AdminAccess`, `Review`, `LiveView`, `History`, `Project`, `AgentSession`,
`UserAccount`; the proofs above.

Next:

1. An abstract specification of the edit locks, as `OrderedList` is of
   `OrderKeys`: a lease that only its holder's renewals, a release asked for and
   the clock change, with the refinement proved from `IndInv`.
2. The snapshot of `startExecution` against edits of the suite it copies, and
   the histories of the children that `updateWithChildren` changes.
3. `UserAccount` together with `AuthSession`: what a deleted user's sessions and
   refresh tokens are still good for.

## 6. Not modelled

* The contents of the snapshot taken by `startExecution`: it would need suites,
  cases and all their children in one state, and an edit in between gives a
  mixture that no document excludes.
* History entries of the children of a case, their grouping and listing.
* Registering with REQUIRE_EMAIL_VERIFICATION off, one transaction that also
  logs in; administrators' logins and sessions, which repeat the users' ones.
* OAuth client registration, consent and metadata documents; API keys of the
  MCP server, validated by one request.
* Notification preferences, read marks, e-mail; labels, project members, profiles
  and API tokens: single statements.
* Dashboards, searches and listings: reads. Rate limits and CSRF: library state
  or single decisions. Permissions are constants or guards where they matter.
* The web pages other than the execution, the renewal of tokens in the API
  client, the administrators' front end: presentation of what the services
  decide.
* Validators, types, schema, Docker and Terraform: declarations.

Measured in lines, most of the repository is of the last four kinds: two front
ends, validators and types, read-only queries. The map therefore covers a small
share of all lines, and most of those in which something is read, decided and
written with a wait in between. The status and reason of every component is in
`PROJECT.json`.
