------------------------------ MODULE EditLock ------------------------------
(***************************************************************************)
(* The edit lock of test suites and test cases: EditLockService and its    *)
(* repository (apps/api/src/services/edit-lock.service.ts), the forced     *)
(* release of EditLockController, the clean-up job, and the lock check an  *)
(* MCP tool makes before it writes.                                        *)
(*                                                                         *)
(* Every handler is a sequence of awaited database calls, and any other    *)
(* handler may run between two of them.  A call between two awaits is a    *)
(* record of `calls` that says which statement it has yet to execute.      *)
(*                                                                         *)
(* Time is relative: `ttl` is expiresAt - now in units of the clock Tick,  *)
(* so a row with ttl > 0 is in force, one with ttl <= 0 has expired        *)
(* (`expiresAt > now` fails) and one with ttl = -1 satisfies the clean-up  *)
(* job's `expiresAt < now`.  Ageing stops at -1: no test in the code tells *)
(* older rows apart.                                                       *)
(***************************************************************************)
EXTENDS Integers

CONSTANTS User,       \* human users
          Admin,      \* those checkAdminAccess lets through
          Target,     \* (targetType, targetId) pairs
          LockId,     \* EditLock ids (UUIDs)
          NoLock,     \* in place of the id a call has none of yet
          Req,        \* slots for calls in flight: bounds the concurrency
          Duration    \* LOCK_DURATION_SECONDS in clock units

ASSUME DurationAssumption == Duration \in Nat \ {0}
ASSUME AdminAssumption == Admin \subseteq User
ASSUME NoLockAssumption == NoLock \notin LockId

VARIABLES locks,      \* the EditLock table
          calls,      \* calls between two database statements
          agentChecks,\* lock checks of MCP tools that have yet to write
          grants      \* the lock each user was last answered for each target

vars == <<locks, calls, agentChecks, grants>>

-----------------------------------------------------------------------------
Ttl == -1 .. Duration

\* An EditLock row.  `revived` and `raced` are history flags: a heartbeat
\* has extended the row after it had expired, or while an acquire that had
\* read its expiry had yet to compare that with the clock.
Row == [id : LockId, target : Target, owner : User, ttl : Ttl,
        revived : BOOLEAN, raced : BOOLEAN]

\* What a suspended call does next.  `id` is the row it has read, or will
\* look up, change, delete or insert; `ttl` the expiry it has read or
\* computed.
Statement == {"testOwn", "testOther", "acquireDelete", "acquireNew", "create",
              "heartbeatFind", "heartbeatUpdate",
              "releaseDelete", "forceFind", "forceDelete"}
Call == [req : Req, stmt : Statement, user : User, target : Target,
         id : LockId \cup {NoLock}, ttl : Ttl]

\* What the check of an MCP tool has read: the expiry of the target's row, in
\* the past when there is none.
AgentRead == [target : Target, ttl : Ttl]

Idle(r) == \A c \in calls : c.req # r

Live(k) == k.ttl > 0

\* A UUID nobody has seen.  Ids that nothing refers to any more stand for
\* new ones, which keeps LockId finite; as ids are only ever compared, which
\* of the fresh ones an insert gets does not matter.
Fresh(i) == /\ \A k \in locks : k.id # i
            /\ \A c \in calls : c.id # i
            /\ \A g \in grants : g.id # i
NewId(i) == Fresh(i) /\ i = CHOOSE j \in LockId : Fresh(j)

Suspend(r, s, u, t, i, d) ==
  [req |-> r, stmt |-> s, user |-> u, target |-> t, id |-> i, ttl |-> d]

\* What the answer to a successful acquire or heartbeat tells its caller; it
\* replaces what the caller knew about the same target.
Answer(u, k) ==
  grants' = {g \in grants : ~(g.owner = u /\ g.target = k.target)}
              \cup {[k EXCEPT !.owner = u]}

Forget(i) == grants' = {g \in grants : g.id # i}

-----------------------------------------------------------------------------
Init == /\ locks = {}
        /\ calls = {}
        /\ agentChecks = {}
        /\ grants = {}

(***************************************************************************)
(* acquireLock                                                             *)
(***************************************************************************)
\* findByTarget.  The row, or that there is none, is what the call will go
\* by when the await is over.
AcquireFind(r, u, t) ==
  /\ Idle(r)
  /\ \/ \E k \in locks :
          /\ k.target = t
          /\ calls' = calls \cup
               {Suspend(r, IF k.owner = u THEN "testOwn" ELSE "testOther", u, t, k.id, k.ttl)}
     \/ /\ \A k \in locks : k.target # t
        /\ calls' = calls \cup {Suspend(r, "acquireNew", u, t, NoLock, 0)}
  /\ UNCHANGED <<locks, agentChecks, grants>>

\* The expiry that was read is compared with the clock.  One's own row gets a
\* heartbeat, an unexpired row of somebody else is a 409, which changes
\* nothing.
AcquireTest(c) ==
  /\ \/ /\ c.stmt = "testOwn" /\ Live(c)
        /\ calls' = (calls \ {c}) \cup {[c EXCEPT !.stmt = "heartbeatFind", !.ttl = 0]}
     \/ /\ c.stmt = "testOther" /\ Live(c)
        /\ calls' = calls \ {c}
     \/ /\ c.stmt \in {"testOwn", "testOther"} /\ ~Live(c)
        /\ calls' = (calls \ {c}) \cup {[c EXCEPT !.stmt = "acquireDelete", !.ttl = 0]}
  /\ UNCHANGED <<locks, agentChecks, grants>>

\* Mutant: deletes whatever row the target has by now.
AcquireDeleteByTarget(c) ==
  /\ c.stmt = "acquireDelete"
  /\ locks' = {k \in locks : k.target # c.target}
  /\ calls' = (calls \ {c}) \cup {[c EXCEPT !.stmt = "acquireNew", !.id = NoLock]}
  /\ UNCHANGED <<agentChecks, grants>>

\* Delete the expired row by id; the call fails if it is gone already.
AcquireDelete(c) ==
  /\ c.stmt = "acquireDelete"
  /\ locks' = {k \in locks : k.id # c.id}
  /\ calls' = (calls \ {c}) \cup
       {[d EXCEPT !.stmt = "acquireNew", !.id = NoLock] :
          d \in {d \in {c} : \E k \in locks : k.id = d.id}}
  /\ UNCHANGED <<agentChecks, grants>>

\* Compute the expiry of the row to insert.
AcquireNew(c) ==
  /\ c.stmt = "acquireNew"
  /\ \E i \in LockId :
       /\ NewId(i)
       /\ calls' = (calls \ {c}) \cup
            {[c EXCEPT !.stmt = "create", !.id = i, !.ttl = Duration]}
  /\ UNCHANGED <<locks, agentChecks, grants>>

\* Mutant: no unique key on the target.
AcquireCreateUnchecked(c) ==
  /\ c.stmt = "create"
  /\ calls' = calls \ {c}
  /\ LET row == [id |-> c.id, target |-> c.target, owner |-> c.user,
                 ttl |-> c.ttl, revived |-> FALSE, raced |-> FALSE]
     IN  locks' = locks \cup {row} /\ Answer(c.user, row)
  /\ UNCHANGED agentChecks

\* Insert the row; the unique key (targetType, targetId) may refuse it.
AcquireCreate(c) ==
  /\ c.stmt = "create"
  /\ calls' = calls \ {c}
  /\ \/ /\ \A k \in locks : k.target # c.target
        /\ LET row == [id |-> c.id, target |-> c.target, owner |-> c.user,
                       ttl |-> c.ttl, revived |-> FALSE, raced |-> FALSE]
           IN  locks' = locks \cup {row} /\ Answer(c.user, row)
     \/ /\ \E k \in locks : k.target = c.target
        /\ UNCHANGED <<locks, grants>>
  /\ UNCHANGED agentChecks

(***************************************************************************)
(* updateHeartbeat, called by the heartbeat route and by acquireLock       *)
(***************************************************************************)
\* Mutant: no owner check.
HeartbeatAllowedToAll(u, i) == \E k \in locks : k.id = i

HeartbeatAllowed(u, i) == \E k \in locks : k.id = i /\ k.owner = u

HeartbeatStart(r, u, k) ==
  /\ Idle(r)
  /\ HeartbeatAllowed(u, k.id)
  /\ calls' = calls \cup
       {Suspend(r, "heartbeatUpdate", u, k.target, k.id, Duration)}
  /\ UNCHANGED <<locks, agentChecks, grants>>

HeartbeatFind(c) ==
  /\ c.stmt = "heartbeatFind"
  /\ \/ /\ HeartbeatAllowed(c.user, c.id)
        /\ calls' = (calls \ {c}) \cup
             {Suspend(c.req, "heartbeatUpdate", c.user, c.target, c.id, Duration)}
     \/ /\ ~HeartbeatAllowed(c.user, c.id)
        /\ calls' = calls \ {c}
  /\ UNCHANGED <<locks, agentChecks, grants>>

\* An acquire has read the row and not compared its expiry yet.
BeingRead(i) == \E c \in calls : c.stmt \in {"testOwn", "testOther"} /\ c.id = i

Extended(k, d) == [k EXCEPT !.ttl = d, !.revived = @ \/ ~Live(k),
                            !.raced = @ \/ BeingRead(k.id)]

\* The update is by id alone: it neither re-reads the owner nor asks whether
\* the row has expired.
HeartbeatUpdate(c) ==
  /\ c.stmt = "heartbeatUpdate"
  /\ calls' = calls \ {c}
  /\ \/ \E k \in locks :
          /\ k.id = c.id
          /\ locks' = (locks \ {k}) \cup {Extended(k, c.ttl)}
          /\ Answer(c.user, Extended(k, c.ttl))
     \/ /\ \A k \in locks : k.id # c.id
        /\ UNCHANGED <<locks, grants>>
  /\ UNCHANGED agentChecks

(***************************************************************************)
(* releaseLock and the forced release                                      *)
(***************************************************************************)
ReleaseFind(r, u, k) ==
  /\ Idle(r)
  /\ k.owner = u
  /\ calls' = calls \cup {Suspend(r, "releaseDelete", u, k.target, k.id, 0)}
  /\ UNCHANGED <<locks, agentChecks, grants>>

\* EditLockController.forceRelease: findUnique and checkAdminAccess ...
ForceCheck(r, u, k) ==
  /\ Idle(r)
  /\ u \in Admin
  /\ calls' = calls \cup {Suspend(r, "forceFind", u, k.target, k.id, 0)}
  /\ UNCHANGED <<locks, agentChecks, grants>>

\* ... then EditLockService.forceRelease, which reads the row again ...
ForceFind(c) ==
  /\ c.stmt = "forceFind"
  /\ \/ /\ \E k \in locks : k.id = c.id
        /\ calls' = (calls \ {c}) \cup
             {Suspend(c.req, "forceDelete", c.user, c.target, c.id, 0)}
     \/ /\ \A k \in locks : k.id # c.id
        /\ calls' = calls \ {c}
  /\ UNCHANGED <<locks, agentChecks, grants>>

\* ... and, like releaseLock, deletes it.  The holder's grant ends with it:
\* these two are the ways a lock is meant to end before it expires.
DeleteLock(c) ==
  /\ c.stmt \in {"releaseDelete", "forceDelete"}
  /\ locks' = {k \in locks : k.id # c.id}
  /\ calls' = calls \ {c}
  /\ Forget(c.id)
  /\ UNCHANGED agentChecks

(***************************************************************************)
(* The clean-up job.  The list findExpired returns is only for a callback  *)
(* the server never installs (index.ts calls startLockCleanupJob with no   *)
(* argument), so deleteExpired is the job's whole effect.                  *)
(***************************************************************************)
\* Mutant: the comparison is the wrong way round.
DeleteUnexpired ==
  /\ locks' = {k \in locks : ~Live(k)}
  /\ UNCHANGED <<calls, agentChecks, grants>>

DeleteExpired ==
  /\ locks' = {k \in locks : k.ttl >= 0}
  /\ UNCHANGED <<calls, agentChecks, grants>>

(***************************************************************************)
(* An MCP tool asks whether the target is locked, then sends the update as *)
(* a second request.  The update route does not look at locks.  At most    *)
(* one tool at a time is about a target.                                   *)
(***************************************************************************)
\* getLockStatus reads the row ...
AgentCheck(t) ==
  /\ \A a \in agentChecks : a.target # t
  /\ \E d \in Ttl :
       /\ \/ \E k \in locks : k.target = t /\ d = k.ttl
          \/ (\A k \in locks : k.target # t) /\ d = -1
       /\ agentChecks' = agentChecks \cup {[target |-> t, ttl |-> d]}
  /\ UNCHANGED <<locks, calls, grants>>

\* ... and compares its expiry with the clock when the await is over: the tool
\* gives up.
AgentRefused(t) ==
  /\ \E a \in agentChecks :
       a.target = t /\ Live(a) /\ agentChecks' = agentChecks \ {a}
  /\ UNCHANGED <<locks, calls, grants>>

\* An expiry in the past stays there, so that the comparison is made with the
\* write is no loss.
AgentWrite(t) ==
  /\ \E a \in agentChecks :
       a.target = t /\ ~Live(a) /\ agentChecks' = agentChecks \ {a}
  /\ UNCHANGED <<locks, calls, grants>>

(***************************************************************************)
(* The clock                                                               *)
(***************************************************************************)
Older(d) == IF d > -1 THEN d - 1 ELSE -1

\* An answer that has expired promises nothing and is dropped.  An expiry
\* that has been read, or computed and not written yet, ages like any other.
AgedCall(c) == IF c.stmt \in {"testOwn", "testOther", "create", "heartbeatUpdate"}
               THEN [c EXCEPT !.ttl = Older(@)] ELSE c

Tick ==
  /\ locks'  = {[k EXCEPT !.ttl = Older(@)] : k \in locks}
  /\ grants' = {[g EXCEPT !.ttl = Older(@)] : g \in {h \in grants : Live(h)}}
  /\ calls'  = {AgedCall(c) : c \in calls}
  /\ agentChecks' = {[a EXCEPT !.ttl = Older(@)] : a \in agentChecks}

-----------------------------------------------------------------------------
Resume(c) == \/ AcquireTest(c)   \/ AcquireDelete(c)
             \/ AcquireNew(c)    \/ AcquireCreate(c)
             \/ HeartbeatFind(c) \/ HeartbeatUpdate(c)
             \/ ForceFind(c)     \/ DeleteLock(c)

Arrive(r, u) == \/ \E t \in Target : AcquireFind(r, u, t)
                \/ \E k \in locks : \/ HeartbeatStart(r, u, k)
                                    \/ ReleaseFind(r, u, k)
                                    \/ ForceCheck(r, u, k)

Next == \/ \E r \in Req, u \in User : Arrive(r, u)
        \/ \E c \in calls : Resume(c)
        \/ DeleteExpired
        \/ \E t \in Target : AgentCheck(t) \/ AgentRefused(t) \/ AgentWrite(t)
        \/ Tick

\* The clock runs on and setInterval keeps calling the clean-up job.
Spec == Init /\ [][Next]_vars /\ WF_vars(Tick) /\ WF_vars(DeleteExpired)

-----------------------------------------------------------------------------
\* Type invariant.
TypeOK == /\ locks \subseteq Row
          /\ calls \subseteq Call
          /\ agentChecks \subseteq AgentRead
          /\ grants \subseteq Row

\* No heartbeat for the row came late or overtook the test of an acquire.
Undisturbed(k) == ~k.revived /\ ~k.raced

\* A user who was answered that a lock is theirs until some time does have
\* that row until then, unless it was extended after it had expired, or while
\* an acquire had read it and not yet compared the expiry: whatever else is in
\* flight, no other acquire, clean-up or heartbeat takes away a lock in force
\* (acquireLock's find, test and delete; deleteExpired).
LeaseHonoured ==
  \A g \in grants : Live(g) /\ Undisturbed(g) => g \in locks

\* Two users never both hold an unexpired answer that the same target is
\* theirs, but for rows disturbed in one of these two ways: the purpose of
\* the table, which acquireLock's find and create only reach through the
\* unique key.
MutualExclusion ==
  \A g, h \in grants :
    /\ g.target = h.target
    /\ Live(g) /\ Undisturbed(g) /\ Live(h) /\ Undisturbed(h)
    => g.owner = h.owner

\* Once heartbeats stop, no target stays taken: again and again it has no
\* row, whatever acquires and crashed calls are about (deleteExpired).
AbandonedLocksEnd ==
  \A t \in Target :
    <>[](\A c \in calls : c.stmt # "heartbeatUpdate")
      => []<>(\A k \in locks : k.target # t)

\* The documented promise without these two exceptions: an unexpired answer
\* keeps everybody else out (docs: 409 for a lock in force).  A heartbeat
\* breaks it that comes after the expiry, or in time while an acquire has read
\* the row and not compared its expiry.
UnexpiredLockExcludes ==
  \A g, h \in grants :
    g.target = h.target /\ Live(g) /\ Live(h) => g.owner = h.owner

\* An MCP tool's write never lands on a target a human holds at that moment
\* (docs: the update is refused while a human has the lock).
AgentRespectsLock ==
  [][\A t \in Target :
       AgentWrite(t) => \A k \in locks : k.target = t => ~Live(k)]_vars

-----------------------------------------------------------------------------
(***************************************************************************)
(* Why LeaseHonoured holds: the parts of its inductive strengthening.      *)
(***************************************************************************)
\* Both keys of the table: id and (targetType, targetId).
UniqueKeys == \A k, l \in locks : k.id = l.id \/ k.target = l.target => k = l

\* The id of a row yet to be inserted occurs nowhere else.
CreateIdsFresh ==
  \A c \in calls : c.stmt = "create" =>
    /\ c.id # NoLock
    /\ \A k \in locks : k.id # c.id
    /\ \A g \in grants : g.id # c.id
    /\ \A d \in calls : d.id = c.id => d = c

\* What an acquire has read of a row is what it is, unless a heartbeat has
\* overtaken the acquire.
ReadsCurrent ==
  \A c \in calls : c.stmt \in {"testOwn", "testOther"} =>
    \A k \in locks : k.id = c.id => k.ttl = c.ttl \/ k.raced

\* A row some acquire has found expired and is about to delete is still
\* expired, unless a heartbeat has revived it or had overtaken the acquire.
DeletesExpired ==
  \A c \in calls : c.stmt = "acquireDelete" =>
    \A k \in locks : k.id = c.id => ~Live(k) \/ ~Undisturbed(k)

\* A row a heartbeat is about to extend belongs to the caller.
HeartbeatsOwn ==
  \A c \in calls : c.stmt = "heartbeatUpdate" =>
    \A k \in locks : k.id = c.id => k.owner = c.user

\* As long as an answered row exists, it is what the answer says.
GrantsCurrent == \A g \in grants : \A k \in locks : g.id = k.id => g = k

IndInv == /\ TypeOK
          /\ UniqueKeys
          /\ CreateIdsFresh
          /\ ReadsCurrent
          /\ DeletesExpired
          /\ HeartbeatsOwn
          /\ GrantsCurrent
          /\ LeaseHonoured
=============================================================================
