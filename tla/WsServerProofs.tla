--------------------------- MODULE WsServerProofs ---------------------------
(***************************************************************************)
(* Proofs about WsServer, for any sets of sockets, users and channels:     *)
(* IndInv is inductive, and ServedUnlessRaced, PresenceMatches and         *)
(* ClosedSocketsLeave follow from it.                                      *)
(***************************************************************************)
EXTENDS WsServer, TLAPS

LEMMA InitInv == Init => IndInv
BY AttemptsAssumption
   DEF Init, IndInv, TypeOK, Phase, Task, UserFirst, AttemptsCounted, OneSubscriberFirst, AwaitedIsEmpty,
       SubscribedInRedis, PromiseKept, CleanUpSees, ClosedAreIdle, CleanedAreClosed,
       PresenceMatches

\* What a handler of s that subscribes may do to the accounts: make s another
\* user's, if it is the automatic subscription, and mix the channels s is in.
Identified(s, auto) ==
  /\ TypeOK => /\ user' \in [Socket -> User \cup {Nobody}]
               /\ attempts' \in [Socket -> 0..MaxAttempts]
               /\ verifying' \in [Socket -> 0..MaxAttempts]
               /\ mixed' \subseteq Channel
               /\ phase' \in [Socket -> Phase]
  /\ AttemptsCounted'
  /\ mixed \subseteq mixed'
  /\ user'[s] # Nobody
  /\ \A z \in Socket \ {s} : user'[z] = user[z]
  /\ user'[s] = user[s] \/ auto
  /\ user'[s] = user[s] \/ \A d \in Channel : s \in subs[d] => d \in mixed'
  /\ \A z \in closed \ late : phase'[z] = phase[z] /\ verifying'[z] = verifying[z]

\* What every step that leaves the accounts alone keeps of them.
LEMMA AccountsKept ==
  ASSUME IndInv, UNCHANGED accounts,
         \A z \in closed' \ late' : z \notin closed \ late => Idle(z),
         \A z \in closed' \ late' : phase'[z] = phase[z],
         tasks' \subseteq tasks
  PROVE  AttemptsCounted' /\ ClosedAreIdle'
<1>1. AttemptsCounted'
  BY DEF IndInv, AttemptsCounted, accounts
<1>2. ASSUME NEW z \in closed' \ late' PROVE Idle(z)'
  <2>1. Idle(z)
    BY <1>2 DEF IndInv, ClosedAreIdle
  <2> QED BY <1>2, <2>1 DEF Idle, Attached, accounts
<1> QED BY <1>1, <1>2 DEF ClosedAreIdle

-----------------------------------------------------------------------------
(***************************************************************************)
(* What the parts of a handler preserve.                                   *)
(***************************************************************************)

\* A socket joins a channel, alone or beside the present subscribers, after
\* SUBSCRIBE has been replied to or without the need for one.
LEMMA JoinInv ==
  ASSUME IndInv, NEW s \in Socket, NEW c \in Channel, NEW auto \in BOOLEAN,
         NEW others, others = subs[c] \/ (others = {} /\ (c \in raced \/ subs[c] = {})),
         Identified(s, auto),
         Join(s, c, others), Enter(s, c, auto),
         c \notin raced => c \in redis,
         s \in closed => s \in late,
         auto => \E u \in User : c = Own[u],
         tasks' \subseteq tasks,
         c \notin raced => \A t \in tasks' : t.chan # c,
         UNCHANGED <<closed, redis, cleaning, raced, late>>
  PROVE  IndInv'
<1> USE DEF IndInv
<1>1. TypeOK'
  <2>1. presence' \in [Channel -> SUBSET User]
    BY DEF TypeOK, Enter
  <2> QED BY <2>1 DEF TypeOK, Join, Identified
<1>2. OneSubscriberFirst'
  BY DEF OneSubscriberFirst
<1>3. AwaitedIsEmpty'
  BY DEF AwaitedIsEmpty, Join, TypeOK, Task
<1>4. SubscribedInRedis'
  BY DEF SubscribedInRedis, Join, TypeOK
<1>5. PromiseKept'
  BY DEF PromiseKept, Join, TypeOK
<1>6. CleanUpSees'
  BY DEF CleanUpSees, Join, TypeOK
<1>7. ClosedAreIdle' /\ CleanedAreClosed' /\ AttemptsCounted'
  BY DEF ClosedAreIdle, CleanedAreClosed, Idle, Attached, Identified
<1>8. UserFirst'
  <2>1. ASSUME NEW d \in Channel, NEW z \in subs'[d] PROVE user'[z] # Nobody
    <3>1. z = s \/ (z \in subs[d] /\ z \in Socket \ {s})
      BY <2>1 DEF Join, TypeOK
    <3> QED BY <3>1 DEF UserFirst, Identified
  <2>2. ASSUME NEW t \in tasks' PROVE user'[t.sock] # Nobody
    <3>1. t.sock \in Socket /\ user[t.sock] # Nobody
      BY DEF UserFirst, TypeOK, Task
    <3> QED BY <3>1 DEF Identified
  <2> QED BY <2>1, <2>2 DEF UserFirst
<1>9. PresenceMatches'
  <2> SUFFICES ASSUME NEW d \in Channel \ (raced \cup mixed'), \A u \in User : d # Own[u]
               PROVE  presence'[d] = {user'[z] : z \in subs'[d]}
    BY DEF PresenceMatches
  <2>1. presence[d] = {user[z] : z \in subs[d]}
    BY DEF PresenceMatches, Identified
  <2>2. \A z \in subs[d] : user'[z] = user[z]
    BY DEF Identified, TypeOK
  <2>3. CASE d # c
    BY <2>1, <2>2, <2>3 DEF Join, Enter, TypeOK
  <2>4. CASE d = c
    <3>1. ~auto /\ user'[s] = user[s]
      BY <2>4 DEF Identified
    <3>2. others = subs[c]
      BY <2>4
    <3>3. presence'[c] = presence[c] \cup {user[s]}
      BY <2>4, <3>1 DEF Enter, TypeOK, Identified
    <3>4. subs'[c] = subs[c] \cup {s}
      BY <3>2 DEF Join, TypeOK
    <3> QED BY <2>1, <2>2, <2>4, <3>1, <3>3, <3>4
  <2> QED BY <2>3, <2>4
<1> QED BY <1>1, <1>2, <1>3, <1>4, <1>5, <1>6, <1>7, <1>8, <1>9

\* A handler subscribes, at once or by asking Redis first.
LEMMA SubscribeInv ==
  ASSUME IndInv, NEW s \in Socket, NEW c \in Channel, NEW auto \in BOOLEAN,
         Subscribe(s, c, auto),
         s \in closed => s \in late,
         auto => \E u \in User : c = Own[u],
         Identified(s, auto),
         UNCHANGED <<closed, cleaning, late>>
  PROVE  IndInv'
<1> USE DEF IndInv
<1>1. CASE /\ subs[c] # {}
           /\ Join(s, c, subs[c]) /\ Enter(s, c, auto)
           /\ UNCHANGED <<redis, tasks, raced>>
  <2>1. c \notin raced => c \in redis /\ \A t \in tasks : t.chan # c
    BY <1>1 DEF SubscribedInRedis, AwaitedIsEmpty
  <2> QED BY <1>1, <2>1, JoinInv
<1>2. CASE /\ subs[c] = {}
           /\ \E ok \in BOOLEAN :
                LET t == [sock |-> s, chan |-> c, ok |-> ok, auto |-> auto]
                IN  /\ t \notin tasks
                    /\ tasks' = tasks \cup {t}
                    /\ redis' = IF ok THEN redis \cup {c} ELSE redis
           /\ raced' = IF Awaiting(c) THEN raced \cup {c} ELSE raced
           /\ UNCHANGED <<subs, chans, presence, todo>>
  <2>1. PICK ok \in BOOLEAN :
          /\ tasks' = tasks \cup {[sock |-> s, chan |-> c, ok |-> ok, auto |-> auto]}
          /\ redis' = IF ok THEN redis \cup {c} ELSE redis
    BY <1>2
  <2>2. c \in raced' \/ \A t \in tasks : t.chan # c
    BY <1>2 DEF Awaiting
  <2>3. raced \subseteq raced' /\ raced' \subseteq raced \cup {c}
    BY <1>2
  <2>4. TypeOK'
    BY <1>2, <2>1, <2>3 DEF TypeOK, Task, Identified
  <2>5. OneSubscriberFirst'
    BY <2>1, <2>2, <2>3 DEF OneSubscriberFirst
  <2>6. AwaitedIsEmpty'
    BY <1>2, <2>1, <2>3 DEF AwaitedIsEmpty
  <2>7. SubscribedInRedis' /\ PromiseKept' /\ CleanUpSees'
    BY <1>2, <2>1, <2>3 DEF SubscribedInRedis, PromiseKept, CleanUpSees
  <2>8. ClosedAreIdle' /\ CleanedAreClosed' /\ AttemptsCounted'
    BY <2>1 DEF ClosedAreIdle, CleanedAreClosed, Idle, Attached, Identified
  <2>9. UserFirst'
    <3>1. ASSUME NEW d \in Channel, NEW z \in subs[d] PROVE user'[z] # Nobody
      <4>1. z = s \/ z \in Socket \ {s}
        BY DEF TypeOK
      <4> QED BY <4>1 DEF UserFirst, Identified
    <3>2. ASSUME NEW t \in tasks' PROVE user'[t.sock] # Nobody
      <4>1. t.sock = s \/ (t \in tasks /\ t.sock \in Socket \ {s})
        BY <2>1, <3>2 DEF TypeOK, Task
      <4> QED BY <4>1 DEF UserFirst, Identified
    <3> QED BY <1>2, <3>1, <3>2 DEF UserFirst
  <2>10. PresenceMatches'
    <3> SUFFICES ASSUME NEW d \in Channel \ (raced' \cup mixed'), \A u \in User : d # Own[u]
                 PROVE  presence[d] = {user'[z] : z \in subs[d]}
      BY <1>2 DEF PresenceMatches
    <3>1. presence[d] = {user[z] : z \in subs[d]}
      BY <2>3 DEF PresenceMatches, Identified
    <3>2. \A z \in subs[d] : user'[z] = user[z]
      BY DEF Identified, TypeOK
    <3> QED BY <3>1, <3>2
  <2> QED BY <2>4, <2>5, <2>6, <2>7, <2>8, <2>9, <2>10
<1> QED BY <1>1, <1>2 DEF Subscribe

\* A socket leaves a channel, because it asks to or because it is cleaned up.
LEMMA LeaveInv ==
  ASSUME IndInv, NEW s \in Socket, NEW c \in Channel, Leave(s, c),
         chans' \in [Socket -> SUBSET Channel], todo' \in [Socket -> SUBSET Channel],
         \A z \in Socket, d \in Channel : z # s \/ d # c =>
           (d \in chans'[z] <=> d \in chans[z]) /\ (d \in todo'[z] <=> d \in todo[z]),
         s \in closed \/ c \notin chans'[s] \/ c \in raced,
         UNCHANGED <<phase, accounts, closed, tasks, cleaning, raced, late>>
  PROVE  IndInv'
<1> USE DEF IndInv
<1>1. subs' \in [Channel -> SUBSET Socket]
  BY DEF Leave, TypeOK
<1>2. \A d \in Channel : subs'[d] = IF d = c THEN subs[d] \ {s} ELSE subs[d]
  BY DEF Leave, TypeOK
<1>3. redis' \subseteq redis /\ \A d \in redis : (d = c /\ subs'[c] = {}) \/ d \in redis'
  BY <1>2 DEF Leave, Emptied
<1>4. TypeOK'
  BY <1>1, <1>3 DEF TypeOK, Leave, accounts
<1>5. OneSubscriberFirst' /\ ClosedAreIdle' /\ CleanedAreClosed' /\ AttemptsCounted' /\ UserFirst'
  <2>1. OneSubscriberFirst' /\ CleanedAreClosed'
    BY DEF OneSubscriberFirst, CleanedAreClosed
  <2>2. UserFirst'
    BY <1>2 DEF UserFirst, accounts
  <2> QED BY <2>1, <2>2, AccountsKept
<1>6. AwaitedIsEmpty'
  <2>1. ASSUME NEW t \in tasks, t.chan \notin raced
        PROVE  subs'[t.chan] = {} /\ (t.ok => t.chan \in redis')
    <3>1. t.chan \in Channel /\ subs[t.chan] = {}
      BY <2>1 DEF AwaitedIsEmpty, TypeOK, Task
    <3>2. redis' = redis \/ subs[c] # {}
      BY DEF Leave, Emptied
    <3>3. t.ok => t.chan \in redis'
      BY <2>1, <3>1, <3>2, <1>3 DEF AwaitedIsEmpty
    <3> QED BY <3>1, <3>3, <1>2
  <2> QED BY <2>1 DEF AwaitedIsEmpty
<1>7. SubscribedInRedis'
  BY <1>2, <1>3 DEF SubscribedInRedis
<1>8. PromiseKept'
  BY <1>2 DEF PromiseKept
<1>9. CleanUpSees'
  <2> SUFFICES ASSUME NEW z \in Socket \ late, NEW d \in Channel, z \in subs'[d]
               PROVE  \/ z \notin closed /\ d \in chans'[z]
                      \/ z \in cleaning /\ d \in todo'[z]
    BY DEF CleanUpSees
  <2>1. z \in subs[d] /\ (z # s \/ d # c)
    BY <1>2
  <2> QED BY <2>1 DEF CleanUpSees
<1>10. PresenceMatches'
  <2> SUFFICES ASSUME NEW d \in Channel \ (raced \cup mixed), \A u \in User : d # Own[u]
               PROVE  presence'[d] = {user[z] : z \in subs'[d]}
    BY DEF PresenceMatches, accounts
  <2>1. presence[d] = {user[z] : z \in subs[d]}
    BY DEF PresenceMatches
  <2>2. CASE d # c
    BY <2>1, <2>2, <1>2 DEF Leave, TypeOK
  <2>3. CASE d = c
    BY <2>1, <2>3, <1>2 DEF Leave, TypeOK, Stays
  <2> QED BY <2>2, <2>3
<1> QED BY <1>4, <1>5, <1>6, <1>7, <1>8, <1>9, <1>10

-----------------------------------------------------------------------------
\* Every step preserves the invariant.
LEMMA StepInv == IndInv /\ [Next]_vars => IndInv'
<1> SUFFICES ASSUME IndInv, [Next]_vars PROVE IndInv'
  OBVIOUS
<1> USE DEF IndInv
<1>1. ASSUME NEW s \in Socket,
             Connect(s) \/ CookieRejected(s) \/ Authenticate(s) \/ TokenRejected(s)
      PROVE  IndInv'
  <2>1. /\ phase' \in [Socket -> Phase]
        /\ attempts' \in [Socket -> 0..MaxAttempts]
        /\ verifying' \in [Socket -> 0..MaxAttempts]
        /\ AttemptsCounted'
    BY <1>1, AttemptsAssumption
       DEF TypeOK, AttemptsCounted, Phase, Connect, CookieRejected, Authenticate,
           TokenRejected, accounts
  <2>2. UNCHANGED <<user, mixed, rooms, todo, ending>>
    BY <1>1 DEF Connect, CookieRejected, Authenticate, TokenRejected, accounts
  <2>3. \A z \in closed \ late : phase'[z] = phase[z] /\ verifying'[z] = verifying[z]
    BY <1>1, <2>1
       DEF ClosedAreIdle, Idle, Attached, TypeOK, Connect, CookieRejected, Authenticate,
           TokenRejected, accounts
  <2>4. TypeOK' /\ UserFirst' /\ OneSubscriberFirst' /\ AwaitedIsEmpty' /\ SubscribedInRedis'
    BY <2>1, <2>2
       DEF TypeOK, UserFirst, OneSubscriberFirst, AwaitedIsEmpty, SubscribedInRedis, rooms,
           ending
  <2>5. PromiseKept' /\ CleanUpSees' /\ PresenceMatches'
    BY <2>2 DEF PromiseKept, CleanUpSees, PresenceMatches, rooms, ending
  <2>6. ClosedAreIdle' /\ CleanedAreClosed'
    BY <2>2, <2>3 DEF ClosedAreIdle, Idle, Attached, CleanedAreClosed, rooms, ending
  <2> QED BY <2>1, <2>4, <2>5, <2>6
<1>2. ASSUME NEW s \in Socket, NEW u \in User, CookieAccepted(s, u) \/ TokenAccepted(s, u)
      PROVE  IndInv'
  <2>1. ~Idle(s) /\ (s \in closed => s \in late)
    <3>1. phase[s] = "checking" \/ verifying[s] > 0
      BY <1>2 DEF CookieAccepted, TokenAccepted
    <3>2. ~Idle(s)
      BY <3>1 DEF Idle, Attached
    <3> QED BY <3>2 DEF ClosedAreIdle
  <2>2. /\ phase' \in [Socket -> Phase]
        /\ verifying' \in [Socket -> 0..MaxAttempts]
        /\ AttemptsCounted'
        /\ UNCHANGED attempts
    <3>1. CASE CookieAccepted(s, u)
      BY <3>1 DEF TypeOK, Phase, AttemptsCounted, CookieAccepted
    <3>2. CASE TokenAccepted(s, u)
      <4>1. verifying[s] \in 0..MaxAttempts /\ verifying[s] > 0
        BY <3>2 DEF TypeOK, TokenAccepted
      <4>2. /\ verifying' = [verifying EXCEPT ![s] = @ - 1]
            /\ UNCHANGED <<phase, attempts>>
        BY <3>2 DEF TokenAccepted
      <4>3. verifying[s] - 1 \in 0..MaxAttempts
        BY <4>1, AttemptsAssumption
      <4>4. AttemptsCounted'
        BY <4>1, <4>2 DEF AttemptsCounted, TypeOK
      <4> QED BY <4>2, <4>3, <4>4 DEF TypeOK
    <3> QED BY <1>2, <3>1, <3>2
  <2>3. Identify(s, u) /\ Subscribe(s, Own[u], TRUE) /\ UNCHANGED <<closed, cleaning, late>>
    BY <1>2 DEF CookieAccepted, TokenAccepted, ending
  <2>4. \A z \in closed \ late : phase'[z] = phase[z] /\ verifying'[z] = verifying[z]
    BY <1>2, <2>1 DEF CookieAccepted, TokenAccepted, TypeOK
  <2>5. /\ user' \in [Socket -> User \cup {Nobody}]
        /\ user'[s] # Nobody
        /\ \A z \in Socket \ {s} : user'[z] = user[z]
    BY <2>3, NobodyAssumption DEF Identify, TypeOK
  <2>6. /\ mixed' \subseteq Channel /\ mixed \subseteq mixed'
        /\ user'[s] = user[s] \/ \A d \in Channel : s \in subs[d] => d \in mixed'
    BY <2>3 DEF Identify, TypeOK, UserFirst
  <2>7. Identified(s, TRUE)
    BY <2>2, <2>4, <2>5, <2>6 DEF Identified, TypeOK
  <2> QED BY <2>1, <2>3, <2>7, OwnAssumption, SubscribeInv
<1>3. ASSUME NEW s \in Socket, NEW c \in Channel, SubscribeMessage(s, c)
      PROVE  IndInv'
  <2>1. s \in closed => s \in late
    BY <1>3 DEF SubscribeMessage, ClosedAreIdle, Idle
  <2>2. Subscribe(s, c, FALSE) /\ UNCHANGED <<closed, cleaning, late>>
    BY <1>3 DEF SubscribeMessage, ending
  <2>3. Identified(s, FALSE)
    BY <1>3 DEF SubscribeMessage, Identified, accounts, TypeOK, AttemptsCounted
  <2> QED BY <2>1, <2>2, <2>3, SubscribeInv
<1>4. ASSUME NEW t \in tasks, Reply(t)
      PROVE  IndInv'
  <2>1. t \in Task /\ t.sock \in Socket /\ t.chan \in Channel /\ t.auto \in BOOLEAN
    BY DEF TypeOK, Task
  <2>2. t.sock \in closed => t.sock \in late
    BY DEF ClosedAreIdle, Idle
  <2>3. /\ phase' \in [Socket -> Phase] /\ \A z \in closed \ late : phase'[z] = phase[z]
        /\ UNCHANGED accounts
    BY <1>4, <2>1, <2>2 DEF Reply, TypeOK, Phase
  <2>7. Identified(t.sock, t.auto)
    BY <2>1, <2>3 DEF Identified, accounts, TypeOK, AttemptsCounted, UserFirst
  <2>4. t.chan \notin raced => subs[t.chan] = {} /\ \A o \in tasks' : o.chan # t.chan
    BY <1>4 DEF Reply, AwaitedIsEmpty, OneSubscriberFirst
  <2>5. CASE t.ok
    <3>1. /\ Join(t.sock, t.chan, {}) /\ Enter(t.sock, t.chan, t.auto)
          /\ tasks' \subseteq tasks
          /\ UNCHANGED <<closed, redis, cleaning, raced, late>>
      BY <1>4, <2>5 DEF Reply, EntryOf, ending
    <3>2. t.chan \notin raced => t.chan \in redis
      BY <2>5 DEF AwaitedIsEmpty
    <3>3. t.auto => \E u \in User : t.chan = Own[u]
      BY DEF AwaitedIsEmpty
    <3> QED BY <2>1, <2>2, <2>4, <2>7, <3>1, <3>2, <3>3, JoinInv
  <2>6. CASE ~t.ok
    <3>1. /\ tasks' \subseteq tasks
          /\ UNCHANGED <<subs, chans, presence, todo, closed, redis, cleaning, raced, late>>
      BY <1>4, <2>6 DEF Reply, ending
    <3>2. TypeOK' /\ UserFirst' /\ OneSubscriberFirst' /\ AwaitedIsEmpty' /\ SubscribedInRedis'
      BY <3>1, <2>3
         DEF TypeOK, UserFirst, OneSubscriberFirst, AwaitedIsEmpty, SubscribedInRedis, accounts
    <3>3. PromiseKept' /\ CleanUpSees' /\ PresenceMatches'
      BY <3>1, <2>3 DEF PromiseKept, CleanUpSees, PresenceMatches, accounts
    <3>4. CleanedAreClosed' /\ AttemptsCounted' /\ ClosedAreIdle'
      BY <3>1, <2>3, AccountsKept DEF CleanedAreClosed
    <3> QED BY <3>2, <3>3, <3>4
  <2> QED BY <2>5, <2>6
<1>5. ASSUME NEW s \in Socket, NEW c \in Channel, UnsubscribeMessage(s, c)
      PROVE  IndInv'
  <2>1. c \in chans'[s] => c \in raced
    BY <1>5 DEF UnsubscribeMessage, PromiseKept, TypeOK
  <2>2. /\ Leave(s, c)
        /\ UNCHANGED <<phase, accounts, closed, tasks, cleaning, todo, raced, late>>
        /\ chans' \in [Socket -> SUBSET Channel]
    BY <1>5 DEF UnsubscribeMessage, TypeOK, ending
  <2>3. \A z \in Socket, d \in Channel : z # s \/ d # c =>
          (d \in chans'[z] <=> d \in chans[z]) /\ (d \in todo'[z] <=> d \in todo[z])
    BY <1>5 DEF UnsubscribeMessage, TypeOK
  <2>4. todo' \in [Socket -> SUBSET Channel]
    BY <2>2 DEF TypeOK
  <2> QED BY <2>1, <2>2, <2>3, <2>4, LeaveInv
<1>6. ASSUME NEW s \in Socket, NEW c \in Channel, CleanUp(s, c)
      PROVE  IndInv'
  <2>1. s \in closed
    BY <1>6 DEF CleanUp, CleanedAreClosed
  <2>2. /\ Leave(s, c)
        /\ UNCHANGED <<phase, accounts, closed, chans, tasks, cleaning, raced, late>>
    BY <1>6 DEF CleanUp, ending
  <2>3. /\ chans' \in [Socket -> SUBSET Channel]
        /\ todo' \in [Socket -> SUBSET Channel]
    BY <1>6 DEF CleanUp, TypeOK
  <2>4. \A z \in Socket, d \in Channel : z # s \/ d # c =>
          (d \in chans'[z] <=> d \in chans[z]) /\ (d \in todo'[z] <=> d \in todo[z])
    BY <1>6 DEF CleanUp, TypeOK
  <2> QED BY <2>1, <2>2, <2>3, <2>4, LeaveInv
<1>7. ASSUME NEW s \in Socket, Close(s)
      PROVE  IndInv'
  <2>1. UNCHANGED <<phase, accounts, chans, subs, presence, redis, tasks, raced>>
    BY <1>7 DEF Close, rooms
  <2>2. closed' = closed \cup {s} /\ late \subseteq late' /\ late' \subseteq late \cup {s}
    BY <1>7 DEF Close
  <2>3. TypeOK'
    BY <1>7, <2>1, <2>2 DEF Close, TypeOK, accounts
  <2>4. /\ UserFirst' /\ OneSubscriberFirst' /\ AwaitedIsEmpty'
        /\ SubscribedInRedis' /\ PresenceMatches'
    BY <2>1
       DEF UserFirst, OneSubscriberFirst, AwaitedIsEmpty, SubscribedInRedis, PresenceMatches,
           accounts
  <2>5. PromiseKept'
    BY <2>1, <2>2 DEF PromiseKept
  <2>6. CleanUpSees'
    <3> SUFFICES ASSUME NEW z \in Socket \ late', NEW d \in Channel, z \in subs[d]
                 PROVE  \/ z \notin closed' /\ d \in chans[z]
                        \/ z \in cleaning' /\ d \in todo'[z]
      BY <2>1 DEF CleanUpSees
    <3>1. \/ z \notin closed /\ d \in chans[z]
          \/ z \in cleaning /\ d \in todo[z]
      BY <2>2 DEF CleanUpSees
    <3>2. CASE z # s
      BY <1>7, <2>2, <3>1, <3>2 DEF Close, TypeOK
    <3>3. CASE z = s
      <4>1. Attached(s) /\ s \notin closed
        BY <1>7, <3>3 DEF Close, Idle
      <4>2. s \in cleaning' /\ todo'[s] = chans[s]
        BY <1>7, <4>1 DEF Close, TypeOK
      <4> QED BY <3>1, <3>3, <4>1, <4>2 DEF CleanedAreClosed
    <3> QED BY <3>2, <3>3
  <2>7. AttemptsCounted' /\ ClosedAreIdle'
    <3>1. \A z \in closed' \ late' : z \notin closed \ late => Idle(z)
      BY <1>7, <2>2 DEF Close
    <3> QED BY <2>1, <3>1, AccountsKept
  <2>8. CleanedAreClosed'
    BY <1>7 DEF Close, CleanedAreClosed
  <2> QED BY <2>3, <2>4, <2>5, <2>6, <2>7, <2>8
<1>8. ASSUME NEW s \in Socket, CleanUpEnds(s)
      PROVE  IndInv'
  <2>1. UNCHANGED <<phase, accounts, closed, subs, presence, redis, tasks, todo, raced, late>>
    BY <1>8 DEF CleanUpEnds
  <2>2. s \in closed
    BY <1>8 DEF CleanUpEnds, CleanedAreClosed
  <2>3. TypeOK'
    BY <1>8, <2>1 DEF CleanUpEnds, TypeOK, accounts
  <2>4. /\ UserFirst' /\ OneSubscriberFirst' /\ AwaitedIsEmpty'
        /\ SubscribedInRedis' /\ PresenceMatches'
    BY <2>1
       DEF UserFirst, OneSubscriberFirst, AwaitedIsEmpty, SubscribedInRedis, PresenceMatches,
           accounts
  <2>5. PromiseKept'
    BY <1>8, <2>1, <2>2 DEF CleanUpEnds, PromiseKept, TypeOK
  <2>6. CleanUpSees'
    BY <1>8, <2>1, <2>2 DEF CleanUpEnds, CleanUpSees, TypeOK
  <2>7. AttemptsCounted' /\ ClosedAreIdle' /\ CleanedAreClosed'
    BY <1>8, <2>1, AccountsKept DEF CleanUpEnds, CleanedAreClosed
  <2> QED BY <2>3, <2>4, <2>5, <2>6, <2>7
<1>9. CASE UNCHANGED vars
  <2>1. UNCHANGED <<phase, accounts, rooms, todo, ending>>
    BY <1>9 DEF vars
  <2>2. TypeOK' /\ UserFirst' /\ OneSubscriberFirst' /\ AwaitedIsEmpty' /\ SubscribedInRedis'
    BY <2>1
       DEF TypeOK, UserFirst, OneSubscriberFirst, AwaitedIsEmpty, SubscribedInRedis,
           accounts, rooms, ending
  <2>3. PromiseKept' /\ CleanUpSees' /\ PresenceMatches'
    BY <2>1 DEF PromiseKept, CleanUpSees, PresenceMatches, accounts, rooms, ending
  <2>4. AttemptsCounted' /\ ClosedAreIdle' /\ CleanedAreClosed'
    BY <2>1, AccountsKept DEF CleanedAreClosed, rooms, ending
  <2> QED BY <2>2, <2>3, <2>4
<1> QED BY <1>1, <1>2, <1>3, <1>4, <1>5, <1>6, <1>7, <1>8, <1>9 DEF Next

-----------------------------------------------------------------------------
\* The invariant holds in every reachable state.
THEOREM Invariance == Spec => []IndInv
BY InitInv, StepInv, PTL DEF Spec

\* The state of the server is always well formed.
THEOREM TypeCorrect == Spec => []TypeOK
<1>1. IndInv => TypeOK
  BY DEF IndInv
<1> QED BY <1>1, Invariance, PTL

\* Nobody takes the subscription of a connected client away, for any number
\* of clients and channels, unless two of them raced to create it
\* (handleSubscribe, handleUnsubscribe, cleanupConnection).
THEOREM SubscribersServed == Spec => []ServedUnlessRaced
<1>1. IndInv => ServedUnlessRaced
  BY DEF IndInv, TypeOK, ServedUnlessRaced, Delivers, PromiseKept, SubscribedInRedis
<1> QED BY <1>1, Invariance, PTL

\* The presence lists agree with the subscriptions (handlePresenceJoin,
\* handlePresenceLeave).
THEOREM PresenceCorrect == Spec => []PresenceMatches
<1>1. IndInv => PresenceMatches
  BY DEF IndInv
<1> QED BY <1>1, Invariance, PTL

\* The clean-up of a closed socket finds all its subscriptions
\* (cleanupConnection).
THEOREM ClosedLeave == Spec => []ClosedSocketsLeave
<1>1. IndInv => ClosedSocketsLeave
  BY DEF IndInv, TypeOK, ClosedSocketsLeave, CleanUpSees
<1> QED BY <1>1, Invariance, PTL
=============================================================================
