------------------------------ MODULE WsServer ------------------------------
(***************************************************************************)
(* One WebSocket server process (apps/ws/src/server.ts and                 *)
(* handlers/presence.ts): sockets, the map from channels to subscribers,   *)
(* who is present in a channel, and the Redis subscriptions that feed it.  *)
(*                                                                         *)
(* Handlers are async functions of one event loop: what they do between    *)
(* two awaits is atomic.  The awaits modelled are those on the network:    *)
(* the check of a cookie or token, the reply of Redis to SUBSCRIBE and, in *)
(* cleanupConnection, the one to UNSUBSCRIBE between two channels.  Redis  *)
(* executes the commands of the subscriber connection in the order they    *)
(* are issued, so a command takes effect when it is issued.                *)
(* `await handlePresenceJoin/Leave` never waits for anything and is part   *)
(* of the step around it.  A message for several channels is a sequence of *)
(* messages for one.                                                       *)
(***************************************************************************)
EXTENDS Integers, FiniteSets

CONSTANTS Socket,       \* connections, each used once
          User,
          Nobody,       \* `ws.user` of a socket not authenticated
          Channel,      \* channel names
          Own,          \* the user:<id> channel of each user
          MaxAttempts   \* MAX_AUTH_ATTEMPTS

ASSUME NobodyAssumption == Nobody \notin User
ASSUME OwnAssumption == Own \in [User -> Channel]
ASSUME AttemptsAssumption == MaxAttempts \in Nat

VARIABLES
  phase,     \* how far handleConnection has come with a socket
  user,      \* ws.user
  attempts,  \* ws.authAttempts
  verifying, \* calls of handleAuthenticate waiting for their token's check
  closed,    \* sockets whose peer is gone
  chans,     \* ws.channels
  subs,      \* channelSubscribers; no entry is the empty set
  presence,  \* channelPresence; no entry is the empty set
  redis,     \* channels subscribed on the Redis connection
  tasks,     \* handlers waiting for the reply to SUBSCRIBE
  cleaning,  \* sockets whose cleanupConnection is running
  todo,      \* the channels its loop has not come to yet
  raced,     \* history: channels with two SUBSCRIBEs awaited at once
  mixed,     \* history: channels with a socket whose user became another
  late       \* history: sockets closed before a handler of theirs had ended

accounts == <<user, attempts, verifying, mixed>>
rooms == <<chans, subs, presence, redis, tasks, raced>>
ending == <<closed, cleaning, late>>
vars == <<phase, accounts, rooms, todo, ending>>

-----------------------------------------------------------------------------
\* "checking": the cookie is being verified; "greeting": authenticated, the
\* user channel awaited, but no message or close handler attached yet;
\* "open": the handlers are attached.
Phase == {"new", "checking", "greeting", "open"}
Task == [sock : Socket, chan : Channel, ok : BOOLEAN, auto : BOOLEAN]

Attached(s) == phase[s] = "open"

\* No handler of the socket waits for anything.
Idle(s) == Attached(s) /\ verifying[s] = 0 /\ \A t \in tasks : t.sock # s

\* isAuthorizedForChannel: of the user channels only one's own.
Allowed(s, c) == \A u \in User : c = Own[u] => u = user[s]

Awaiting(c) == \E t \in tasks : t.chan = c

\* Mutant: `ws.channels.add(channel)` is missing.
JoinUntracked(s, c, others) ==
  /\ subs' = [subs EXCEPT ![c] = others \cup {s}]
  /\ UNCHANGED <<todo, chans>>

\* Add the socket to `others`, the current entry of the channel.  A clean-up
\* that iterates over ws.channels comes to the new element too.
Join(s, c, others) ==
  /\ subs' = [subs EXCEPT ![c] = others \cup {s}]
  /\ todo' = IF s \in cleaning /\ c \notin chans[s]
             THEN [todo EXCEPT ![s] = @ \cup {c}] ELSE todo
  /\ chans' = [chans EXCEPT ![s] = @ \cup {c}]

\* handlePresenceJoin for the present user of the socket; the automatic
\* subscription does not call it.
Enter(s, c, auto) ==
  presence' = IF auto THEN presence
              ELSE [presence EXCEPT ![c] = @ \cup ({user[s]} \ {Nobody})]

\* The part of handleSubscribe and autoSubscribeUserChannel up to the reply
\* of Redis, which may be that it failed.
Subscribe(s, c, auto) ==
  \/ /\ subs[c] # {}
     /\ Join(s, c, subs[c]) /\ Enter(s, c, auto)
     /\ UNCHANGED <<redis, tasks, raced>>
  \/ /\ subs[c] = {}
     /\ \E ok \in BOOLEAN :
          LET t == [sock |-> s, chan |-> c, ok |-> ok, auto |-> auto]
          IN  /\ t \notin tasks
              /\ tasks' = tasks \cup {t}
              /\ redis' = IF ok THEN redis \cup {c} ELSE redis
     /\ raced' = IF Awaiting(c) THEN raced \cup {c} ELSE raced
     /\ UNCHANGED <<subs, chans, presence, todo>>

\* Mutant: handlePresenceLeave without the look for other connections.
StaysAlways(u, others) == FALSE

\* Another connection of the user is still in the channel.
Stays(u, others) == \E o \in others : user[o] = u

\* Mutant: the Redis subscription ends while one subscriber is left.
EmptiedEarly(s, c) == subs[c] # {} /\ Cardinality(subs[c] \ {s}) <= 1

\* The channel loses its last subscriber.
Emptied(s, c) == subs[c] # {} /\ subs[c] \ {s} = {}

\* Take a socket out of a channel: the body of the loops of handleUnsubscribe
\* and cleanupConnection.  A failed UNSUBSCRIBE is logged and forgotten.
Leave(s, c) ==
  /\ subs' = [subs EXCEPT ![c] = @ \ {s}]
  /\ presence' = IF subs[c] # {} /\ ~Stays(user[s], subs[c] \ {s})
                 THEN [presence EXCEPT ![c] = @ \ {user[s]}] ELSE presence
  /\ \/ redis' = IF Emptied(s, c) THEN redis \ {c} ELSE redis
     \/ Emptied(s, c) /\ redis' = redis

-----------------------------------------------------------------------------
Init == /\ phase = [s \in Socket |-> "new"]
        /\ user = [s \in Socket |-> Nobody]
        /\ attempts = [s \in Socket |-> 0]
        /\ verifying = [s \in Socket |-> 0]
        /\ closed = {}
        /\ chans = [s \in Socket |-> {}]
        /\ subs = [c \in Channel |-> {}]
        /\ presence = [c \in Channel |-> {}]
        /\ redis = {}
        /\ tasks = {}
        /\ cleaning = {}
        /\ todo = [s \in Socket |-> {}]
        /\ raced = {}
        /\ mixed = {}
        /\ late = {}

\* handleConnection up to `await authenticateFromCookie`.
Connect(s) ==
  /\ phase[s] = "new"
  /\ phase' = [phase EXCEPT ![s] = "checking"]
  /\ UNCHANGED <<accounts, rooms, todo, ending>>

\* The socket becomes u's, whoever's it has been.
Identify(s, u) ==
  /\ user' = [user EXCEPT ![s] = u]
  /\ mixed' = IF user[s] \in {Nobody, u} THEN mixed
              ELSE mixed \cup {c \in Channel : s \in subs[c]}

\* The cookie is good: say so, then subscribe to the user channel; the
\* handlers are attached after that.
CookieAccepted(s, u) ==
  /\ phase[s] = "checking"
  /\ Identify(s, u)
  /\ Subscribe(s, Own[u], TRUE)
  /\ phase' = [phase EXCEPT ![s] = IF subs[Own[u]] # {} THEN "open" ELSE "greeting"]
  /\ UNCHANGED <<attempts, verifying, ending>>

CookieRejected(s) ==
  /\ phase[s] = "checking"
  /\ phase' = [phase EXCEPT ![s] = "open"]
  /\ UNCHANGED <<accounts, rooms, todo, ending>>

\* handleAuthenticate up to `await authenticateToken`.  Only a socket whose
\* user is known is refused: several calls may wait at once.  The attempt over
\* the limit only sends an error and asks for the connection's end (Close).
Authenticate(s) ==
  /\ Attached(s) /\ s \notin closed
  /\ user[s] = Nobody
  /\ attempts[s] < MaxAttempts
  /\ attempts' = [attempts EXCEPT ![s] = @ + 1]
  /\ verifying' = [verifying EXCEPT ![s] = @ + 1]
  /\ UNCHANGED <<phase, user, mixed, rooms, todo, ending>>

\* The token is u's: the socket is u's from now on, though it may be closed by
\* now, or may be another user's since an earlier token was accepted.
TokenAccepted(s, u) ==
  /\ verifying[s] > 0
  /\ verifying' = [verifying EXCEPT ![s] = @ - 1]
  /\ Identify(s, u)
  /\ Subscribe(s, Own[u], TRUE)
  /\ UNCHANGED <<phase, attempts, ending>>

TokenRejected(s) ==
  /\ verifying[s] > 0
  /\ verifying' = [verifying EXCEPT ![s] = @ - 1]
  /\ UNCHANGED <<phase, user, attempts, mixed, rooms, todo, ending>>

\* handleSubscribe for one channel of the message.  The handler of a message
\* with several channels goes on when the socket has been closed meanwhile.
SubscribeMessage(s, c) ==
  /\ Attached(s) /\ user[s] # Nobody
  /\ s \in closed => \E t \in tasks : t.sock = s /\ ~t.auto
  /\ Allowed(s, c)
  /\ Subscribe(s, c, FALSE)
  /\ UNCHANGED <<phase, accounts, ending>>

\* `channelSubscribers.set(channel, new Set())` after the await, whatever
\* entry the channel has got meanwhile.
EntryOf(c) == {}

\* Redis has replied to SUBSCRIBE; the handler goes on even if the socket is
\* closed by now.
Reply(t) ==
  /\ tasks' = tasks \ {t}
  /\ IF t.ok THEN Join(t.sock, t.chan, EntryOf(t.chan)) /\ Enter(t.sock, t.chan, t.auto)
             ELSE UNCHANGED <<subs, chans, presence, todo>>
  /\ phase' = [phase EXCEPT ![t.sock] = "open"]
  /\ UNCHANGED <<accounts, redis, raced, ending>>

\* handleUnsubscribe for one channel of the message.
UnsubscribeMessage(s, c) ==
  /\ Attached(s) /\ s \notin closed /\ user[s] # Nobody
  /\ Leave(s, c)
  /\ chans' = [chans EXCEPT ![s] = IF subs[c] # {} THEN @ \ {c} ELSE @]
  /\ UNCHANGED <<phase, accounts, tasks, raced, todo, ending>>

\* Mutant: the close handler does not start cleanupConnection.
CloseUncleaned(s) ==
  /\ phase[s] # "new" /\ s \notin closed
  /\ closed' = closed \cup {s}
  /\ late' = IF Idle(s) THEN late ELSE late \cup {s}
  /\ UNCHANGED <<phase, accounts, rooms, cleaning, todo>>

\* The peer closes, fails, misses a ping or the authentication timeout.
\* cleanupConnection starts if the close handler is attached already.
Close(s) ==
  /\ phase[s] # "new" /\ s \notin closed
  /\ closed' = closed \cup {s}
  /\ IF Attached(s)
     THEN cleaning' = cleaning \cup {s} /\ todo' = [todo EXCEPT ![s] = chans[s]]
     ELSE UNCHANGED <<cleaning, todo>>
  /\ late' = IF Idle(s) THEN late ELSE late \cup {s}
  /\ UNCHANGED <<phase, accounts, rooms>>

\* One round of the loop of cleanupConnection.
CleanUp(s, c) ==
  /\ s \in cleaning /\ c \in todo[s]
  /\ todo' = [todo EXCEPT ![s] = @ \ {c}]
  /\ Leave(s, c)
  /\ UNCHANGED <<phase, accounts, chans, tasks, raced, ending>>

\* `ws.channels.clear()`.
CleanUpEnds(s) ==
  /\ s \in cleaning /\ todo[s] = {}
  /\ cleaning' = cleaning \ {s}
  /\ chans' = [chans EXCEPT ![s] = {}]
  /\ UNCHANGED <<phase, accounts, closed, subs, presence, redis, tasks, todo, raced, late>>

-----------------------------------------------------------------------------
Next == \/ \E s \in Socket : \/ Connect(s)
                             \/ CookieRejected(s)
                             \/ Authenticate(s) \/ TokenRejected(s)
                             \/ \E u \in User : \/ CookieAccepted(s, u)
                                                \/ TokenAccepted(s, u)
                             \/ Close(s) \/ CleanUpEnds(s)
                             \/ \E c \in Channel : \/ SubscribeMessage(s, c)
                                                   \/ UnsubscribeMessage(s, c)
                                                   \/ CleanUp(s, c)
        \/ \E t \in tasks : Reply(t)

Spec == Init /\ [][Next]_vars

-----------------------------------------------------------------------------
\* Type invariant.
TypeOK == /\ phase \in [Socket -> Phase]
          /\ user \in [Socket -> User \cup {Nobody}]
          /\ attempts \in [Socket -> 0..MaxAttempts]
          /\ verifying \in [Socket -> 0..MaxAttempts]
          /\ closed \subseteq Socket
          /\ chans \in [Socket -> SUBSET Channel]
          /\ subs \in [Channel -> SUBSET Socket]
          /\ presence \in [Channel -> SUBSET User]
          /\ redis \subseteq Channel
          /\ tasks \subseteq Task
          /\ cleaning \subseteq Socket
          /\ todo \in [Socket -> SUBSET Channel]
          /\ raced \subseteq Channel
          /\ mixed \subseteq Channel
          /\ late \subseteq Socket

Delivers(s, c) == s \in subs[c] /\ c \in redis

\* A connected client that has been subscribed (ws.channels) gets the events
\* of the channel: docs/architecture/features/test-case-management.md:328,
\* the server delivers to the subscribers.
SubscribersAreServed ==
  \A s \in Socket \ closed : \A c \in chans[s] : Delivers(s, c)

\* It does get them when no two sockets were waiting for Redis to subscribe
\* the same channel at once: nobody else's unsubscribe, close or failed
\* SUBSCRIBE takes the entry or the Redis subscription away.
ServedUnlessRaced ==
  \A s \in Socket \ closed : \A c \in chans[s] \ raced : Delivers(s, c)

\* The presence list of a channel names exactly the users with a socket in
\* it, however many sockets a user has and in whatever order they come and
\* go (handlePresenceJoin, handlePresenceLeave), unless the channel has been
\* raced for, or a second token accepted has made one of its sockets
\* another's (handleAuthenticate overwrites ws.user and tells no channel).
PresenceMatches ==
  \A c \in Channel \ (raced \cup mixed) : (\A u \in User : c # Own[u]) =>
    presence[c] = {user[s] : s \in subs[c]}

\* A closed socket stays in no channel once its clean-up is through, so that
\* its user does not stay present for good, unless it was closed while one
\* of its handlers was waiting (cleanupConnection against handleSubscribe,
\* handleAuthenticate and handleConnection).
ClosedSocketsLeave ==
  \A s \in closed \ (late \cup cleaning) : \A c \in Channel : s \notin subs[c]

-----------------------------------------------------------------------------
\* Only a socket with a user is in a channel or waits to be.
UserFirst ==
  /\ \A c \in Channel : \A s \in subs[c] : user[s] # Nobody
  /\ \A t \in tasks : user[t.sock] # Nobody

AttemptsCounted == \A s \in Socket : verifying[s] <= attempts[s]

OneSubscriberFirst ==
  \A t1, t2 \in tasks : t1.chan = t2.chan /\ t1.chan \notin raced => t1 = t2

\* While a handler awaits SUBSCRIBE nobody is in the channel.
AwaitedIsEmpty ==
  \A t \in tasks : /\ t.chan \notin raced => subs[t.chan] = {}
                   /\ t.chan \notin raced /\ t.ok => t.chan \in redis
                   /\ t.auto => \E u \in User : t.chan = Own[u]

SubscribedInRedis == \A c \in Channel \ raced : subs[c] # {} => c \in redis

PromiseKept ==
  \A s \in Socket \ closed : \A c \in chans[s] \ raced : s \in subs[c]

\* Every subscription is known to the clean-up that has to end it.
CleanUpSees ==
  \A s \in Socket \ late, c \in Channel : s \in subs[c] =>
    \/ s \notin closed /\ c \in chans[s]
    \/ s \in cleaning /\ c \in todo[s]

ClosedAreIdle ==
  \A s \in closed \ late : Idle(s)

CleanedAreClosed == cleaning \subseteq closed

\* The inductive invariant: what the handlers of different sockets must
\* leave alone for each other while they wait for Redis.
IndInv == /\ TypeOK
          /\ UserFirst
          /\ AttemptsCounted
          /\ OneSubscriberFirst
          /\ AwaitedIsEmpty
          /\ SubscribedInRedis
          /\ PromiseKept
          /\ CleanUpSees
          /\ ClosedAreIdle
          /\ CleanedAreClosed
          /\ PresenceMatches
=============================================================================
