--------------------------- MODULE EditLockProofs ---------------------------
(***************************************************************************)
(* Proofs about EditLock, for any sets of users, targets, ids and request  *)
(* slots and any Duration: IndInv is inductive, and the type invariant,    *)
(* LeaseHonoured and MutualExclusion follow from it.                       *)
(***************************************************************************)
EXTENDS EditLock, TLAPS

\* The calls a handler adds or resumes are well formed.
LEMMA SuspendType ==
  ASSUME NEW r \in Req, NEW s \in Statement, NEW u \in User,
         NEW t \in Target, NEW i \in LockId \cup {NoLock}, NEW d \in Ttl
  PROVE  Suspend(r, s, u, t, i, d) \in Call
BY DEF Suspend, Call

LEMMA TtlValues == 0 \in Ttl /\ Duration \in Ttl
BY DurationAssumption DEF Ttl

LEMMA OlderType ==
  ASSUME NEW d \in Ttl
  PROVE  /\ Older(d) \in Ttl
         /\ Older(d) > 0 => d > 0
BY DurationAssumption DEF Older, Ttl

LEMMA ExtendedType ==
  ASSUME NEW k \in Row, NEW d \in Ttl
  PROVE  /\ Extended(k, d) \in Row
         /\ Extended(k, d).id = k.id
         /\ Extended(k, d).target = k.target
         /\ Extended(k, d).owner = k.owner
         /\ Extended(k, d).ttl = d
         /\ Extended(k, d).revived = (k.revived \/ ~Live(k))
         /\ Extended(k, d).raced = (k.raced \/ BeingRead(k.id))
<1>1. Live(k) \in BOOLEAN /\ BeingRead(k.id) \in BOOLEAN
  BY DEF Live, BeingRead, Row, Ttl
<1> HIDE DEF Live, BeingRead
<1> QED BY <1>1 DEF Extended, Row

LEMMA OwnRow == ASSUME NEW k \in Row PROVE [k EXCEPT !.owner = k.owner] = k
BY DEF Row

LEMMA InitInv == Init => IndInv
BY DEF Init, IndInv, TypeOK, UniqueKeys, CreateIdsFresh, ReadsCurrent,
       DeletesExpired, HeartbeatsOwn, GrantsCurrent, LeaseHonoured

-----------------------------------------------------------------------------
(***************************************************************************)
(* Steps that only change `calls`.                                         *)
(***************************************************************************)
LEMMA DropCall ==
  ASSUME IndInv, calls' \subseteq calls, UNCHANGED <<locks, agentChecks, grants>>
  PROVE  IndInv'
<1>1. TypeOK' /\ UniqueKeys' /\ GrantsCurrent' /\ LeaseHonoured'
  BY DEF IndInv, TypeOK, UniqueKeys, GrantsCurrent, LeaseHonoured
<1>2. CreateIdsFresh' /\ ReadsCurrent' /\ DeletesExpired' /\ HeartbeatsOwn'
  BY DEF IndInv, CreateIdsFresh, ReadsCurrent, DeletesExpired, HeartbeatsOwn,
         Undisturbed
<1> QED BY <1>1, <1>2 DEF IndInv

\* A new call either has no id yet or names a row that exists, and
\* what it is about to do to that row is what the invariant allows.
Justified(c) ==
  \/ /\ c.id = NoLock
     /\ c.stmt = "acquireNew"
  \/ /\ c.stmt # "create"
     /\ \E k \in locks :
          /\ k.id = c.id
          /\ c.stmt \in {"testOwn", "testOther"} => k.ttl = c.ttl
          /\ c.stmt = "acquireDelete" => ~Live(k)
          /\ c.stmt = "heartbeatUpdate" => k.owner = c.user

LEMMA AddCall ==
  ASSUME IndInv, NEW c \in Call, Justified(c),
         calls' \subseteq calls \cup {c}, UNCHANGED <<locks, agentChecks, grants>>
  PROVE  IndInv'
<1> USE DEF IndInv
<1>1. TypeOK' /\ UniqueKeys' /\ GrantsCurrent' /\ LeaseHonoured'
  BY DEF TypeOK, UniqueKeys, GrantsCurrent, LeaseHonoured
<1>2. CreateIdsFresh'
  BY DEF CreateIdsFresh, Justified
<1>3. DeletesExpired'
  BY DEF DeletesExpired, Justified, UniqueKeys, Undisturbed
<1>4. HeartbeatsOwn'
  BY DEF HeartbeatsOwn, Justified, UniqueKeys
<1>5. ReadsCurrent'
  BY DEF ReadsCurrent, Justified, UniqueKeys
<1> QED BY <1>1, <1>2, <1>3, <1>4, <1>5

LEMMA AcquireFindInv ==
  ASSUME IndInv, NEW r \in Req, NEW u \in User, NEW t \in Target,
         AcquireFind(r, u, t)
  PROVE  IndInv'
<1> USE TtlValues
<1>1. CASE \E k \in locks : calls' = calls \cup
             {Suspend(r, IF k.owner = u THEN "testOwn" ELSE "testOther", u, t, k.id, k.ttl)}
  <2> PICK k \in locks : calls' = calls \cup
             {Suspend(r, IF k.owner = u THEN "testOwn" ELSE "testOther", u, t, k.id, k.ttl)}
    BY <1>1
  <2> DEFINE s == IF k.owner = u THEN "testOwn" ELSE "testOther"
             c == Suspend(r, s, u, t, k.id, k.ttl)
  <2>1. k \in Row
    BY DEF IndInv, TypeOK
  <2>2. s \in {"testOwn", "testOther"} /\ s \in Statement
    BY DEF Statement
  <2>3. c \in Call
    <3> HIDE DEF s
    <3> QED BY <2>1, <2>2, SuspendType DEF Row
  <2>4. Justified(c)
    BY <2>2 DEF Suspend, Justified
  <2> QED BY <2>3, <2>4, AddCall DEF AcquireFind
<1>2. CASE calls' = calls \cup {Suspend(r, "acquireNew", u, t, NoLock, 0)}
  <2> DEFINE c == Suspend(r, "acquireNew", u, t, NoLock, 0)
  <2>1. c \in Call
    BY SuspendType DEF Statement
  <2>2. Justified(c)
    BY DEF Suspend, Justified
  <2> QED BY <1>2, <2>1, <2>2, AddCall DEF AcquireFind
<1> QED BY <1>1, <1>2 DEF AcquireFind

\* What an acquire has read and finds expired by the clock is expired, or the
\* row has been extended since.
LEMMA AcquireTestInv ==
  ASSUME IndInv, NEW c \in calls, AcquireTest(c)
  PROVE  IndInv'
<1> USE TtlValues DEF IndInv
<1>0. c \in Call
  BY DEF TypeOK
<1>1. CASE c.stmt \in {"testOwn", "testOther"} /\ \E s \in {"heartbeatFind", "acquireDelete"} :
             /\ calls' = (calls \ {c}) \cup {[c EXCEPT !.stmt = s, !.ttl = 0]}
             /\ s = "acquireDelete" => ~Live(c)
  <2> PICK s \in {"heartbeatFind", "acquireDelete"} :
             /\ calls' = (calls \ {c}) \cup {[c EXCEPT !.stmt = s, !.ttl = 0]}
             /\ s = "acquireDelete" => ~Live(c)
    BY <1>1
  <2> DEFINE d == [c EXCEPT !.stmt = s, !.ttl = 0]
  <2>1. d \in Call /\ d.stmt = s /\ d.id = c.id
    BY <1>0 DEF Call, Statement
  <2> HIDE DEF d
  <2>2. calls' = (calls \ {c}) \cup {d} /\ UNCHANGED <<locks, agentChecks, grants>>
    BY DEF d, AcquireTest
  <2>3. TypeOK' /\ UniqueKeys' /\ GrantsCurrent' /\ LeaseHonoured'
    BY <2>1, <2>2 DEF TypeOK, UniqueKeys, GrantsCurrent, LeaseHonoured
  <2>4. CreateIdsFresh'
    BY <1>1, <2>1, <2>2 DEF CreateIdsFresh
  <2>5. ReadsCurrent' /\ HeartbeatsOwn'
    BY <2>1, <2>2 DEF ReadsCurrent, HeartbeatsOwn
  <2>6. \A k \in locks : k.id = c.id => k.ttl = c.ttl \/ k.raced
    BY <1>1 DEF ReadsCurrent
  <2>7. DeletesExpired'
    <3> SUFFICES ASSUME NEW e \in calls', e.stmt = "acquireDelete",
                        NEW k \in locks, k.id = e.id
                 PROVE  ~Live(k) \/ ~Undisturbed(k)
      BY <2>2 DEF DeletesExpired, Undisturbed, Live
    <3>1. CASE e \in calls
      BY <3>1 DEF DeletesExpired
    <3>2. CASE e = d
      BY <3>2, <2>1, <2>6 DEF Live, Undisturbed
    <3> QED BY <2>2, <3>1, <3>2
  <2> QED BY <2>3, <2>4, <2>5, <2>7
<1>2. CASE calls' = calls \ {c}
  BY <1>2, DropCall DEF AcquireTest
<1> QED BY <1>1, <1>2 DEF AcquireTest

\* The row to insert gets an id nothing else refers to.
LEMMA AcquireNewInv ==
  ASSUME IndInv, NEW c \in calls, AcquireNew(c)
  PROVE  IndInv'
<1> USE TtlValues DEF IndInv
<1> PICK i \in LockId :
       /\ NewId(i)
       /\ calls' = (calls \ {c}) \cup {[c EXCEPT !.stmt = "create", !.id = i, !.ttl = Duration]}
  BY DEF AcquireNew
<1> DEFINE d == [c EXCEPT !.stmt = "create", !.id = i, !.ttl = Duration]
<1>1. d \in Call /\ d.stmt = "create" /\ d.id = i
  BY DEF TypeOK, Call, Statement
<1> HIDE DEF d
<1>2. calls' = (calls \ {c}) \cup {d} /\ UNCHANGED <<locks, agentChecks, grants>>
  BY DEF d, AcquireNew
<1>3. TypeOK' /\ UniqueKeys' /\ GrantsCurrent' /\ LeaseHonoured'
  BY <1>1, <1>2 DEF TypeOK, UniqueKeys, GrantsCurrent, LeaseHonoured
<1>4. CreateIdsFresh'
  BY <1>1, <1>2, NoLockAssumption DEF CreateIdsFresh, NewId, Fresh
<1>5. ReadsCurrent' /\ DeletesExpired' /\ HeartbeatsOwn'
  BY <1>1, <1>2 DEF ReadsCurrent, DeletesExpired, HeartbeatsOwn, Undisturbed
<1> QED BY <1>3, <1>4, <1>5

LEMMA HeartbeatStartInv ==
  ASSUME IndInv, NEW r \in Req, NEW u \in User, NEW k \in locks,
         HeartbeatStart(r, u, k)
  PROVE  IndInv'
<1> DEFINE c == Suspend(r, "heartbeatUpdate", u, k.target, k.id, Duration)
<1>1. c \in Call
  BY SuspendType, TtlValues DEF IndInv, TypeOK, Row, Statement
<1>2. Justified(c)
  BY DEF Suspend, Justified, HeartbeatStart, HeartbeatAllowed
<1> QED BY <1>1, <1>2, AddCall DEF HeartbeatStart

LEMMA HeartbeatFindInv ==
  ASSUME IndInv, NEW c \in calls, HeartbeatFind(c)
  PROVE  IndInv'
<1> DEFINE d == Suspend(c.req, "heartbeatUpdate", c.user, c.target, c.id, Duration)
<1>1. CASE HeartbeatAllowed(c.user, c.id) /\ calls' = (calls \ {c}) \cup {d}
  <2>1. d \in Call
    BY SuspendType, TtlValues DEF IndInv, TypeOK, Call, Statement
  <2>2. Justified(d)
    BY <1>1 DEF Suspend, Justified, HeartbeatAllowed
  <2> QED BY <1>1, <2>1, <2>2, AddCall DEF HeartbeatFind
<1>2. CASE calls' = calls \ {c}
  BY <1>2, DropCall DEF HeartbeatFind
<1> QED BY <1>1, <1>2 DEF HeartbeatFind

LEMMA ReleaseFindInv ==
  ASSUME IndInv, NEW r \in Req, NEW u \in User, NEW k \in locks,
         ReleaseFind(r, u, k)
  PROVE  IndInv'
<1> DEFINE c == Suspend(r, "releaseDelete", u, k.target, k.id, 0)
<1>1. c \in Call
  BY SuspendType, TtlValues DEF IndInv, TypeOK, Row, Statement
<1>2. Justified(c)
  BY DEF Suspend, Justified
<1> QED BY <1>1, <1>2, AddCall DEF ReleaseFind

LEMMA ForceCheckInv ==
  ASSUME IndInv, NEW r \in Req, NEW u \in User, NEW k \in locks,
         ForceCheck(r, u, k)
  PROVE  IndInv'
<1> DEFINE c == Suspend(r, "forceFind", u, k.target, k.id, 0)
<1>1. c \in Call
  BY SuspendType, TtlValues DEF IndInv, TypeOK, Row, Statement
<1>2. Justified(c)
  BY DEF Suspend, Justified
<1> QED BY <1>1, <1>2, AddCall DEF ForceCheck

LEMMA ForceFindInv ==
  ASSUME IndInv, NEW c \in calls, ForceFind(c)
  PROVE  IndInv'
<1> DEFINE d == Suspend(c.req, "forceDelete", c.user, c.target, c.id, 0)
<1>1. CASE /\ \E k \in locks : k.id = c.id
           /\ calls' = (calls \ {c}) \cup {d}
  <2>1. d \in Call
    BY SuspendType, TtlValues DEF IndInv, TypeOK, Call, Statement
  <2>2. Justified(d)
    BY <1>1 DEF Suspend, Justified
  <2> QED BY <1>1, <2>1, <2>2, AddCall DEF ForceFind
<1>2. CASE calls' = calls \ {c}
  BY <1>2, DropCall DEF ForceFind
<1> QED BY <1>1, <1>2 DEF ForceFind

-----------------------------------------------------------------------------
(***************************************************************************)
(* Steps that change the table.                                            *)
(***************************************************************************)
LEMMA AcquireDeleteInv ==
  ASSUME IndInv, NEW c \in calls, AcquireDelete(c)
  PROVE  IndInv'
<1> USE DEF IndInv
<1>1. /\ locks' = {k \in locks : k.id # c.id}
      /\ c.stmt = "acquireDelete"
      /\ UNCHANGED <<agentChecks, grants>>
  BY DEF AcquireDelete
<1>2. LeaseHonoured'
  \* An answer for the row that goes is expired or disturbed already.
  BY <1>1 DEF LeaseHonoured, DeletesExpired, GrantsCurrent, Live, Undisturbed
<1>3. UniqueKeys' /\ GrantsCurrent'
  BY <1>1 DEF UniqueKeys, GrantsCurrent
<1>4. CASE calls' = calls \ {c}
  <2>1. TypeOK'
    BY <1>1, <1>4 DEF TypeOK
  <2>2. CreateIdsFresh' /\ ReadsCurrent' /\ DeletesExpired' /\ HeartbeatsOwn'
    BY <1>1, <1>4 DEF CreateIdsFresh, ReadsCurrent, DeletesExpired, HeartbeatsOwn,
                      Undisturbed
  <2> QED BY <1>2, <1>3, <2>1, <2>2
<1>5. CASE calls' = (calls \ {c}) \cup {[c EXCEPT !.stmt = "acquireNew", !.id = NoLock]}
  <2> DEFINE d == [c EXCEPT !.stmt = "acquireNew", !.id = NoLock]
  <2>1. d \in Call /\ d.stmt = "acquireNew" /\ d.id = NoLock
    BY DEF TypeOK, Call, Statement
  <2> HIDE DEF d
  <2>2. calls' = (calls \ {c}) \cup {d}
    BY <1>5 DEF d
  <2>3. TypeOK'
    BY <1>1, <2>1, <2>2 DEF TypeOK
  <2>4. CreateIdsFresh'
    BY <1>1, <2>1, <2>2 DEF CreateIdsFresh
  <2>5. ReadsCurrent' /\ DeletesExpired' /\ HeartbeatsOwn'
    BY <1>1, <2>1, <2>2 DEF ReadsCurrent, DeletesExpired, HeartbeatsOwn, Undisturbed
  <2> QED BY <1>2, <1>3, <2>3, <2>4, <2>5
<1>6. \/ {d \in {c} : \E k \in locks : k.id = d.id} = {c}
      \/ {d \in {c} : \E k \in locks : k.id = d.id} = {}
  OBVIOUS
<1>7. \/ calls' = calls \ {c}
      \/ calls' = (calls \ {c}) \cup {[c EXCEPT !.stmt = "acquireNew", !.id = NoLock]}
  BY <1>6 DEF AcquireDelete
<1> QED BY <1>4, <1>5, <1>7

LEMMA AcquireCreateInv ==
  ASSUME IndInv, NEW c \in calls, AcquireCreate(c)
  PROVE  IndInv'
<1> DEFINE row == [id |-> c.id, target |-> c.target, owner |-> c.user,
                   ttl |-> c.ttl, revived |-> FALSE, raced |-> FALSE]
<1>1. CASE /\ \A k \in locks : k.target # c.target
           /\ locks' = locks \cup {row}
           /\ Answer(c.user, row)
  <2> USE DEF IndInv
  <2>1. /\ calls' = calls \ {c}
        /\ c.stmt = "create"
        /\ UNCHANGED agentChecks
    BY DEF AcquireCreate
  <2>2. /\ row \in Row
        /\ row.id = c.id /\ row.target = c.target /\ row.owner = c.user
    BY <2>1 DEF TypeOK, Call, Row, CreateIdsFresh
  <2>3. grants' = {g \in grants : ~(g.owner = c.user /\ g.target = c.target)}
                    \cup {row}
    BY <1>1, <2>2, OwnRow DEF Answer
  <2> HIDE DEF row
  <2>4. TypeOK'
    BY <1>1, <2>1, <2>2, <2>3 DEF TypeOK
  <2>5. UniqueKeys'
    BY <1>1, <2>1, <2>2 DEF UniqueKeys, CreateIdsFresh
  <2>6. CreateIdsFresh'
    BY <1>1, <2>1, <2>2, <2>3 DEF CreateIdsFresh
  <2>7. ReadsCurrent' /\ DeletesExpired' /\ HeartbeatsOwn'
    BY <1>1, <2>1, <2>2 DEF ReadsCurrent, DeletesExpired, HeartbeatsOwn, CreateIdsFresh,
                            Undisturbed
  <2>8. GrantsCurrent'
    BY <1>1, <2>1, <2>2, <2>3 DEF GrantsCurrent, CreateIdsFresh
  <2>9. LeaseHonoured'
    BY <1>1, <2>3 DEF LeaseHonoured, Live, Undisturbed
  <2> QED BY <2>4, <2>5, <2>6, <2>7, <2>8, <2>9
<1>2. CASE UNCHANGED <<locks, grants>>
  BY <1>2, DropCall DEF AcquireCreate
<1> QED BY <1>1, <1>2 DEF AcquireCreate

LEMMA HeartbeatUpdateInv ==
  ASSUME IndInv, NEW c \in calls, HeartbeatUpdate(c)
  PROVE  IndInv'
<1>1. CASE \E k \in locks :
             /\ k.id = c.id
             /\ locks' = (locks \ {k}) \cup {Extended(k, c.ttl)}
             /\ Answer(c.user, Extended(k, c.ttl))
  <2> USE DEF IndInv
  <2> PICK k \in locks :
             /\ k.id = c.id
             /\ locks' = (locks \ {k}) \cup {Extended(k, c.ttl)}
             /\ Answer(c.user, Extended(k, c.ttl))
    BY <1>1
  <2> DEFINE e == Extended(k, c.ttl)
  <2>1. /\ calls' = calls \ {c}
        /\ c.stmt = "heartbeatUpdate"
        /\ UNCHANGED agentChecks
    BY DEF HeartbeatUpdate
  <2>2. k.owner = c.user
    BY <2>1 DEF HeartbeatsOwn
  <2>3. /\ e \in Row
        /\ e.id = k.id /\ e.target = k.target /\ e.owner = k.owner
        /\ e.ttl = c.ttl /\ e.revived = (k.revived \/ ~Live(k))
        /\ e.raced = (k.raced \/ BeingRead(k.id))
    BY ExtendedType DEF TypeOK, Call
  <2>4. [e EXCEPT !.owner = c.user] = e
    BY <2>2, <2>3, OwnRow
  <2> HIDE DEF e
  <2>5. grants' = {g \in grants : ~(g.owner = c.user /\ g.target = e.target)}
                    \cup {e}
    BY <2>4 DEF Answer, e
  <2>6. locks' = (locks \ {k}) \cup {e}
    BY DEF e
  <2>7. TypeOK'
    BY <2>1, <2>3, <2>5, <2>6 DEF TypeOK
  <2>8. UniqueKeys'
    BY <2>3, <2>6 DEF UniqueKeys
  <2>9. CreateIdsFresh'
    BY <2>1, <2>3, <2>5, <2>6 DEF CreateIdsFresh
  <2>10. DeletesExpired'
    BY <2>1, <2>3, <2>6 DEF DeletesExpired, Undisturbed, Live
  <2>14. ReadsCurrent'
    <3> SUFFICES ASSUME NEW d \in calls', d.stmt \in {"testOwn", "testOther"},
                        NEW l \in locks', l.id = d.id
                 PROVE  l.ttl = d.ttl \/ l.raced
      BY DEF ReadsCurrent
    <3>1. CASE l = e
      BY <3>1, <2>1, <2>3 DEF BeingRead
    <3>2. CASE l \in locks
      BY <3>2, <2>1 DEF ReadsCurrent
    <3> QED BY <3>1, <3>2, <2>6
  <2>11. HeartbeatsOwn'
    BY <2>1, <2>3, <2>6 DEF HeartbeatsOwn
  <2>12. GrantsCurrent'
    \* No other answer names the row: it would be the caller's own.
    BY <2>2, <2>3, <2>5, <2>6 DEF GrantsCurrent, UniqueKeys
  <2>13. LeaseHonoured'
    <3> SUFFICES ASSUME NEW g \in grants', g.ttl > 0, Undisturbed(g)
                 PROVE  g \in locks'
      BY DEF LeaseHonoured, Live, Undisturbed
    <3>1. CASE g = e
      BY <3>1, <2>6
    <3>2. CASE g \in grants /\ ~(g.owner = c.user /\ g.target = e.target)
      BY <3>2, <2>2, <2>3, <2>6 DEF LeaseHonoured, Live
    <3> QED BY <3>1, <3>2, <2>5
  <2> QED BY <2>7, <2>8, <2>9, <2>10, <2>11, <2>12, <2>13, <2>14
<1>2. CASE UNCHANGED <<locks, grants>>
  BY <1>2, DropCall DEF HeartbeatUpdate
<1> QED BY <1>1, <1>2 DEF HeartbeatUpdate

LEMMA DeleteLockInv ==
  ASSUME IndInv, NEW c \in calls, DeleteLock(c)
  PROVE  IndInv'
<1> USE DEF IndInv
<1>1. /\ locks' = {k \in locks : k.id # c.id}
      /\ grants' = {g \in grants : g.id # c.id}
      /\ calls' = calls \ {c}
      /\ UNCHANGED agentChecks
  BY DEF DeleteLock, Forget
<1>2. TypeOK' /\ UniqueKeys' /\ GrantsCurrent' /\ LeaseHonoured'
  BY <1>1 DEF TypeOK, UniqueKeys, GrantsCurrent, LeaseHonoured
<1>3. CreateIdsFresh' /\ ReadsCurrent' /\ DeletesExpired' /\ HeartbeatsOwn'
  BY <1>1 DEF CreateIdsFresh, ReadsCurrent, DeletesExpired, HeartbeatsOwn, Undisturbed
<1> QED BY <1>2, <1>3

LEMMA DeleteExpiredInv ==
  ASSUME IndInv, DeleteExpired
  PROVE  IndInv'
<1> USE DEF IndInv
<1>1. /\ locks' = {k \in locks : k.ttl >= 0}
      /\ UNCHANGED <<calls, agentChecks, grants>>
  BY DEF DeleteExpired
<1>2. TypeOK' /\ UniqueKeys' /\ GrantsCurrent' /\ LeaseHonoured'
  BY <1>1, DurationAssumption
     DEF TypeOK, UniqueKeys, GrantsCurrent, LeaseHonoured, Live, Row, Ttl
<1>3. CreateIdsFresh' /\ ReadsCurrent' /\ DeletesExpired' /\ HeartbeatsOwn'
  BY <1>1 DEF CreateIdsFresh, ReadsCurrent, DeletesExpired, HeartbeatsOwn, Undisturbed
<1> QED BY <1>2, <1>3

LEMMA AgentInv ==
  ASSUME IndInv, NEW t \in Target,
         AgentCheck(t) \/ AgentRefused(t) \/ AgentWrite(t)
  PROVE  IndInv'
BY DEF IndInv, AgentCheck, AgentRefused, AgentWrite, AgentRead, TypeOK, UniqueKeys, CreateIdsFresh,
       ReadsCurrent, DeletesExpired, HeartbeatsOwn, GrantsCurrent, LeaseHonoured,
       Undisturbed

LEMMA TickInv ==
  ASSUME IndInv, Tick
  PROVE  IndInv'
<1> USE DEF IndInv
<1>1. ASSUME NEW k \in Row
      PROVE  LET o == [k EXCEPT !.ttl = Older(@)]
             IN  /\ o \in Row
                 /\ o.id = k.id /\ o.target = k.target /\ o.owner = k.owner
                 /\ o.revived = k.revived /\ o.raced = k.raced
                 /\ o.ttl = Older(k.ttl)
                 /\ Live(o) => Live(k)
  BY OlderType DEF Row, Live
<1>2. ASSUME NEW c \in Call
      PROVE  /\ AgedCall(c) \in Call
             /\ AgedCall(c).id = c.id /\ AgedCall(c).stmt = c.stmt
             /\ AgedCall(c).user = c.user
             /\ c.stmt \in {"testOwn", "testOther"} => AgedCall(c).ttl = Older(c.ttl)
  BY OlderType DEF Call, AgedCall
<1> DEFINE aged(k) == [k EXCEPT !.ttl = Older(@)]
<1>3. /\ locks'  = {aged(k) : k \in locks}
      /\ grants' = {aged(g) : g \in {h \in grants : Live(h)}}
      /\ calls'  = {AgedCall(c) : c \in calls}
      /\ agentChecks' = {[a EXCEPT !.ttl = Older(@)] : a \in agentChecks}
  BY DEF Tick
<1>4. \A k \in Row :
        /\ aged(k) \in Row
        /\ aged(k).id = k.id /\ aged(k).target = k.target
        /\ aged(k).owner = k.owner /\ aged(k).ttl = Older(k.ttl)
        /\ Undisturbed(aged(k)) = Undisturbed(k) /\ aged(k).raced = k.raced
        /\ Live(aged(k)) => Live(k)
  BY <1>1 DEF Undisturbed
<1> HIDE DEF aged
<1>5. TypeOK'
  <2>1. \A a \in AgentRead : [a EXCEPT !.ttl = Older(@)] \in AgentRead
    BY OlderType DEF AgentRead
  <2> QED BY <1>2, <1>3, <1>4, <2>1 DEF TypeOK
<1>6. UniqueKeys'
  BY <1>3, <1>4 DEF UniqueKeys, TypeOK
<1>7. CreateIdsFresh'
  BY <1>2, <1>3, <1>4 DEF CreateIdsFresh, TypeOK
<1>8. DeletesExpired'
  BY <1>2, <1>3, <1>4 DEF DeletesExpired, TypeOK
<1>9. HeartbeatsOwn'
  BY <1>2, <1>3, <1>4 DEF HeartbeatsOwn, TypeOK
<1>10. GrantsCurrent'
  BY <1>3, <1>4 DEF GrantsCurrent, TypeOK
<1>11. LeaseHonoured'
  BY <1>3, <1>4 DEF LeaseHonoured, TypeOK
<1>12. ReadsCurrent'
  BY <1>2, <1>3, <1>4 DEF ReadsCurrent, TypeOK
<1> QED BY <1>5, <1>6, <1>7, <1>8, <1>9, <1>10, <1>11, <1>12

-----------------------------------------------------------------------------
LEMMA NextInv == IndInv /\ [Next]_vars => IndInv'
<1> SUFFICES ASSUME IndInv, [Next]_vars PROVE IndInv'
  OBVIOUS
<1>1. ASSUME NEW r \in Req, NEW u \in User, Arrive(r, u) PROVE IndInv'
  BY <1>1, AcquireFindInv, HeartbeatStartInv, ReleaseFindInv, ForceCheckInv
     DEF Arrive
<1>2. ASSUME NEW c \in calls, Resume(c) PROVE IndInv'
  BY <1>2, AcquireTestInv, AcquireNewInv, AcquireDeleteInv, AcquireCreateInv, HeartbeatFindInv,
     HeartbeatUpdateInv, ForceFindInv, DeleteLockInv DEF Resume
<1>3. CASE DeleteExpired
  BY <1>3, DeleteExpiredInv
<1>4. ASSUME NEW t \in Target,
             AgentCheck(t) \/ AgentRefused(t) \/ AgentWrite(t)
      PROVE  IndInv'
  BY <1>4, AgentInv
<1>5. CASE Tick
  BY <1>5, TickInv
<1>6. CASE UNCHANGED vars
  BY <1>6, DropCall DEF vars
<1> QED BY <1>1, <1>2, <1>3, <1>4, <1>5, <1>6 DEF Next

\* The strengthened invariant holds of every execution of the lock service.
THEOREM Invariance == Spec => []IndInv
<1> QED BY InitInv, NextInv, PTL DEF Spec

\* Every reachable state is well typed: no expiry, id or owner out of range.
THEOREM TypeCorrect == Spec => []TypeOK
<1>1. IndInv => TypeOK
  BY DEF IndInv
<1> QED BY Invariance, <1>1, PTL

\* A lock answered to a user is theirs until it expires or is released,
\* whatever other calls, the clean-up job and the clock do in between; only a
\* row extended after its expiry, or behind the back of an acquire that had
\* read it and not yet tested it, is not protected.
THEOREM LeasesHonoured == Spec => []LeaseHonoured
<1>1. IndInv => LeaseHonoured
  BY DEF IndInv
<1> QED BY Invariance, <1>1, PTL

\* No two users hold an unexpired answer for one target, but for the rows so
\* disturbed.
THEOREM Exclusion == Spec => []MutualExclusion
<1>1. IndInv => MutualExclusion
  BY DEF IndInv, LeaseHonoured, MutualExclusion, UniqueKeys
<1> QED BY Invariance, <1>1, PTL
=============================================================================
