---------------------------- MODULE TimerProofs -----------------------------
(***************************************************************************)
(* Proofs about the components with a job that runs by the clock, for any  *)
(* number of requests, sessions and environments, any heartbeat timeout    *)
(* and any number of failures and restarts: SessionInv and ProjectInv are  *)
(* inductive.  No fairness is used.                                        *)
(***************************************************************************)
EXTENDS MCTimers, FiniteSetTheorems, TLAPS

\* What has no two elements has at most one.
LEMMA AtMostOneElement ==
  ASSUME NEW S, \A x, y \in S : x = y
  PROVE  IsFiniteSet(S) /\ Cardinality(S) <= 1
<1>1. CASE S = {}
  BY <1>1, FS_EmptySet
<1>2. CASE S # {}
  <2>1. PICK x \in S : S = {x}
    BY <1>2
  <2>2. IsFiniteSet({x}) /\ Cardinality({x}) = 1
    BY FS_Singleton
  <2> QED BY <2>1, <2>2
<1> QED BY <1>1, <1>2

-----------------------------------------------------------------------------
(***************************************************************************)
(* Sessions of agents: rows, and what becomes of the requests              *)
(***************************************************************************)
LEMMA SessionsAreThere == NoSession \notin SessionRow
<1>1. DOMAIN NoSession = {"status"}
  BY DEF NoSession
<1>2. \A row \in SessionRow : "age" \in DOMAIN row
  BY DEF SessionRow
<1> QED BY <1>1, <1>2

LEMMA SessionFields ==
  ASSUME SessionTypeOK, NEW s \in Begun
  PROVE  /\ s \in Session /\ sessions[s] \in SessionRow
         /\ sessions[s].status \in {"ACTIVE", "ENDED", "TIMEOUT"}
         /\ sessions[s].age \in 0 .. HeartbeatTimeout + 1
<1>1. s \in Session /\ sessions[s] \in SessionRow
  BY DEF SessionTypeOK, Begun
<1> QED BY <1>1 DEF SessionRow

LEMMA SessionCallFields ==
  ASSUME SessionTypeOK, NEW r \in Req
  PROVE  /\ SessionAt(r, "call", "touch") \/ SessionAt(r, "call", "record") =>
              sessionCalls[r] \in [op : {"call"}, at : {"touch", "record"}, session : Session]
         /\ sessionCalls[r].op = "end" =>
              sessionCalls[r] \in [op : {"end"}, at : {"write"}, session : Session]
<1>1. sessionCalls[r] \in SessionCall
  BY DEF SessionTypeOK
<1> QED BY <1>1 DEF SessionCall, Idle, SessionAt

LEMMA SessionLeaves ==
  ASSUME SessionTypeOK, NEW r \in Req, SessionLeave(r)
  PROVE  /\ sessionCalls' \in [Req -> SessionCall]
         /\ \A d \in Req \ {r} : sessionCalls'[d] = sessionCalls[d]
         /\ sessionCalls'[r].op = "idle"
BY DEF SessionTypeOK, SessionLeave, End, Idle, SessionCall

\* The row of a session is written; there are as many as before.
LEMMA SessionWritten ==
  ASSUME SessionTypeOK, NEW s \in Begun, NEW row \in SessionRow,
         sessions' = [sessions EXCEPT ![s] = row]
  PROVE  /\ sessions' \in [Session -> SessionRow \cup {NoSession}]
         /\ sessions'[s] = row /\ \A t \in Session \ {s} : sessions'[t] = sessions[t]
         /\ Begun' = Begun
<1>1. s \in Session /\ sessions \in [Session -> SessionRow \cup {NoSession}]
  BY DEF SessionTypeOK, Begun
<1>2. /\ sessions' \in [Session -> SessionRow \cup {NoSession}]
      /\ sessions'[s] = row /\ \A t \in Session \ {s} : sessions'[t] = sessions[t]
  BY <1>1
<1> QED BY <1>1, <1>2, SessionsAreThere DEF Begun

LEMMA SessionInitInv == SessionInit => SessionInv
<1> SUFFICES ASSUME SessionInit PROVE SessionInv
  OBVIOUS
<1>1. SessionTypeOK
  BY SessionAssumption DEF SessionInit, SessionTypeOK, SessionCall
<1>2. Begun = {} /\ \A r \in Req : sessionCalls[r].op = "idle"
  BY DEF SessionInit, Begun, Idle
<1>3. CallsBegun
  BY <1>2 DEF SessionInit, CallsBegun, SessionAt
<1>4. FoundNone /\ StillSilent
  BY <1>2 DEF SessionInit, FoundNone, StillSilent, ActiveSessions, SessionAt
<1> QED BY <1>1, <1>3, <1>4 DEF SessionInv

-----------------------------------------------------------------------------
(***************************************************************************)
(* Sessions of agents: the steps                                           *)
(***************************************************************************)
\* A call that begins knows an active session or has found none; a request
\* that ends is gone.
LEMMA SessionStartInv ==
  ASSUME SessionInv, NEW r \in Req, FindSession(r) \/ EndFind(r) \/ SessionAbort(r)
  PROVE  SessionInv'
<1> DEFINE Knows(call) == \/ call.op = "idle"
                          \/ call.op = "call" /\ call.at = "create" /\ ActiveSessions = {}
                          \/ call.op = "call" /\ call.at = "touch" /\ call.session \in ActiveSessions
                          \/ call.op = "end" /\ call.session \in ActiveSessions
<1>1. SessionTypeOK
  BY DEF SessionInv
<1>2. UNCHANGED <<sessions, silent, restarts, sessionOverlap>>
  BY DEF FindSession, EndFind, SessionAbort, SessionStart
<1>3. PICK call \in SessionCall : sessionCalls' = [sessionCalls EXCEPT ![r] = call] /\ Knows(call)
  <2>1. CASE ActiveSessions = {} /\ SessionStart(r, [op |-> "call", at |-> "create"])
    <3>1. [op |-> "call", at |-> "create"] \in SessionCall
      BY DEF SessionCall
    <3> QED BY <2>1, <3>1 DEF SessionStart
  <2>2. CASE \E s \in ActiveSessions :
               SessionStart(r, [op |-> "call", at |-> "touch", session |-> s])
    <3>1. \A s \in ActiveSessions : [op |-> "call", at |-> "touch", session |-> s] \in SessionCall
      BY DEF SessionCall, ActiveSessions, Begun
    <3> QED BY <2>2, <3>1 DEF SessionStart
  <2>3. CASE EndFind(r)
    <3>1. \A s \in ActiveSessions : [op |-> "end", at |-> "write", session |-> s] \in SessionCall
      BY DEF SessionCall, ActiveSessions, Begun
    <3> QED BY <2>3, <3>1 DEF EndFind, SessionStart
  <2>4. CASE SessionAbort(r)
    <3>1. Idle \in SessionCall /\ Idle.op = "idle"
      BY DEF SessionCall, Idle
    <3> QED BY <2>4, <3>1 DEF SessionAbort, SessionLeave, End
  <2> QED BY <2>1, <2>2, <2>3, <2>4 DEF FindSession
<1>4. /\ sessionCalls' \in [Req -> SessionCall] /\ sessionCalls'[r] = call
      /\ \A d \in Req \ {r} : sessionCalls'[d] = sessionCalls[d]
  BY <1>1, <1>3 DEF SessionTypeOK
<1>5. SessionTypeOK'
  BY <1>1, <1>2, <1>4 DEF SessionTypeOK
<1>6. UNCHANGED <<Begun, ActiveSessions>> /\ \A s : Silent(s)' = Silent(s)
  BY <1>2 DEF Begun, ActiveSessions, Silent
<1>7. CallsBegun'
  BY <1>2, <1>3, <1>4, <1>6 DEF SessionInv, CallsBegun, SessionAt, ActiveSessions
<1>8. ASSUME "create" \notin sessionOverlap PROVE FoundNone'
  BY <1>3, <1>4, <1>6, <1>8 DEF SessionInv, FoundNone, SessionAt
<1>9. ASSUME "mark" \notin sessionOverlap PROVE StillSilent'
  BY <1>2, <1>6, <1>9 DEF SessionInv, StillSilent
<1> QED BY <1>2, <1>5, <1>7, <1>8, <1>9 DEF SessionInv

\* Nobody else had found none, so the new session is the only one.
LEMMA CreateSessionInv ==
  ASSUME SessionInv, NEW r \in Req, CreateSession(r)
  PROVE  SessionInv'
<1> DEFINE row == [status |-> "ACTIVE", age |-> 0]
<1>1. SessionTypeOK
  BY DEF SessionInv
<1>2. PICK s \in Session \ Begun :
        /\ sessions' = [sessions EXCEPT ![s] = row]
        /\ sessionCalls' = [sessionCalls EXCEPT ![r] = [op |-> "call", at |-> "record", session |-> s]]
  BY DEF CreateSession
<1>3. /\ SessionAt(r, "call", "create") /\ UNCHANGED <<silent, restarts>>
      /\ sessionOverlap' = sessionOverlap \cup
           {"create" : d \in {d \in Req \ {r} : SessionAt(d, "call", "create")}}
  BY DEF CreateSession
<1>4. row \in SessionRow /\ row.status = "ACTIVE"
  BY SessionAssumption DEF SessionRow
<1>5. [op |-> "call", at |-> "record", session |-> s] \in SessionCall
  BY DEF SessionCall
<1>6. /\ sessionCalls' \in [Req -> SessionCall]
      /\ sessionCalls'[r].op = "call" /\ sessionCalls'[r].at = "record" /\ sessionCalls'[r].session = s
      /\ \A d \in Req \ {r} : sessionCalls'[d] = sessionCalls[d]
  BY <1>1, <1>2, <1>5 DEF SessionTypeOK
<1> HIDE DEF row
<1>7. /\ sessions' \in [Session -> SessionRow \cup {NoSession}]
      /\ sessions'[s] = row /\ \A t \in Session \ {s} : sessions'[t] = sessions[t]
  BY <1>1, <1>2, <1>4 DEF SessionTypeOK
<1>8. SessionTypeOK'
  BY <1>1, <1>3, <1>6, <1>7 DEF SessionTypeOK
<1>9. Begun' = Begun \cup {s} /\ ActiveSessions' = ActiveSessions \cup {s}
  BY <1>4, <1>7, SessionsAreThere DEF Begun, ActiveSessions
<1>10. CallsBegun'
  BY <1>3, <1>6, <1>9 DEF SessionInv, CallsBegun, SessionAt
<1>11. ASSUME "create" \notin sessionOverlap' PROVE FoundNone'
  <2>1. FoundNone
    BY <1>3, <1>11 DEF SessionInv
  <2>2. ActiveSessions = {} /\ \A d \in Req \ {r} : ~SessionAt(d, "call", "create")
    BY <1>3, <1>11, <2>1 DEF FoundNone
  <2> QED BY <1>6, <1>9, <2>2 DEF FoundNone, SessionAt
<1>12. ASSUME "mark" \notin sessionOverlap' PROVE StillSilent'
  <2>1. \A t \in silent : Silent(t) /\ t \in Session \ {s}
    BY <1>1, <1>3, <1>12 DEF SessionInv, StillSilent, CallsBegun, SessionTypeOK
  <2> QED BY <1>3, <1>7, <1>9, <2>1 DEF StillSilent, Silent
<1> QED BY <1>8, <1>10, <1>11, <1>12 DEF SessionInv

\* A sign of life or an end: the row of one session is written, and the timer
\* is surprised if it is about to mark it.
LEMMA SessionWriteInv ==
  ASSUME SessionInv, NEW r \in Req, TouchSession(r) \/ RecordHeartbeat(r) \/ EndWrite(r)
  PROVE  SessionInv'
<1> DEFINE s == sessionCalls[r].session
<1>1. SessionTypeOK
  BY DEF SessionInv
<1>2. s \in Begun
  BY DEF SessionInv, CallsBegun, TouchSession, RecordHeartbeat, EndWrite, SessionAt
<1>3. PICK row \in SessionRow : /\ sessions' = [sessions EXCEPT ![s] = row]
                                /\ row.status \in {sessions[s].status, "ENDED"}
  <2>1. CASE TouchSession(r) \/ RecordHeartbeat(r)
    <3>1. /\ [sessions[s] EXCEPT !.age = 0] \in SessionRow
          /\ [sessions[s] EXCEPT !.age = 0].status = sessions[s].status
      BY <1>1, <1>2, SessionFields, SessionAssumption DEF SessionRow
    <3> QED BY <2>1, <3>1 DEF TouchSession, RecordHeartbeat, Heartbeat
  <2>2. CASE EndWrite(r)
    <3>1. /\ [sessions[s] EXCEPT !.status = "ENDED"] \in SessionRow
          /\ [sessions[s] EXCEPT !.status = "ENDED"].status = "ENDED"
      BY <1>1, <1>2, SessionFields DEF SessionRow
    <3> QED BY <2>2, <3>1 DEF EndWrite
  <2> QED BY <2>1, <2>2
<1>4. /\ UNCHANGED <<silent, restarts>>
      /\ sessionOverlap' = sessionOverlap \cup {"mark" : t \in silent \cap {s}}
  BY DEF TouchSession, RecordHeartbeat, EndWrite, Heartbeat, Surprise
<1>5. /\ sessionCalls' \in [Req -> SessionCall]
      /\ \A d \in Req \ {r} : sessionCalls'[d] = sessionCalls[d]
      /\ \/ sessionCalls'[r].op = "idle"
         \/ sessionCalls'[r].op = "call" /\ sessionCalls'[r].at = "record"
            /\ sessionCalls'[r].session = s
  <2>1. CASE TouchSession(r)
    <3> DEFINE n == [sessionCalls[r] EXCEPT !.at = "record"]
    <3>1. /\ n \in [op : {"call"}, at : {"touch", "record"}, session : Session]
          /\ n.op = "call" /\ n.at = "record" /\ n.session = s
      BY <1>1, <2>1, SessionCallFields DEF TouchSession
    <3>2. n \in SessionCall
      BY <3>1 DEF SessionCall
    <3>3. sessionCalls' = [sessionCalls EXCEPT ![r] = n] /\ sessionCalls \in [Req -> SessionCall]
      BY <1>1, <2>1 DEF TouchSession, SessionTypeOK
    <3> HIDE DEF n
    <3> QED BY <3>1, <3>2, <3>3
  <2>2. CASE RecordHeartbeat(r) \/ EndWrite(r)
    BY <1>1, <2>2, SessionLeaves DEF RecordHeartbeat, EndWrite
  <2> QED BY <2>1, <2>2
<1>6. /\ sessions' \in [Session -> SessionRow \cup {NoSession}]
      /\ sessions'[s] = row /\ \A t \in Session \ {s} : sessions'[t] = sessions[t]
      /\ Begun' = Begun
  BY <1>1, <1>2, <1>3, SessionWritten
<1>7. SessionTypeOK'
  BY <1>1, <1>4, <1>5, <1>6 DEF SessionTypeOK
<1>8. CallsBegun'
  BY <1>2, <1>4, <1>5, <1>6 DEF SessionInv, CallsBegun, SessionAt
<1>9. ActiveSessions' \subseteq ActiveSessions
  BY <1>2, <1>3, <1>6 DEF ActiveSessions, Begun
<1>10. ASSUME "create" \notin sessionOverlap' PROVE FoundNone'
  <2>1. FoundNone
    BY <1>4, <1>10 DEF SessionInv
  <2>2. \A d \in Req : SessionAt(d, "call", "create")' => SessionAt(d, "call", "create")
    BY <1>5 DEF SessionAt
  <2> QED BY <1>9, <2>1, <2>2 DEF FoundNone
<1>11. ASSUME "mark" \notin sessionOverlap' PROVE StillSilent'
  <2>1. StillSilent /\ s \notin silent
    BY <1>4, <1>11 DEF SessionInv
  <2>2. \A t \in silent : Silent(t) /\ t \in Session \ {s}
    BY <1>1, <2>1 DEF StillSilent, SessionTypeOK
  <2> QED BY <1>4, <1>6, <2>2 DEF StillSilent, Silent, ActiveSessions
<1> QED BY <1>7, <1>8, <1>10, <1>11 DEF SessionInv

\* The timer, the clock and restarts: sessions grow older or end.
LEMMA SessionTimeInv ==
  ASSUME SessionInv, TimerFind \/ TimerMark \/ Restart \/ HeartbeatTick
  PROVE  SessionInv'
<1>1. SessionTypeOK
  BY DEF SessionInv
<1>2. CASE TimerFind
  <2>1. /\ UNCHANGED <<sessions, restarts, sessionCalls, sessionOverlap>>
        /\ silent' = {s \in Session : Silent(s)}
    BY <1>2 DEF TimerFind
  <2>2. UNCHANGED <<Begun, ActiveSessions>> /\ \A s : Silent(s)' = Silent(s)
    BY <2>1 DEF Begun, ActiveSessions, Silent
  <2>3. SessionTypeOK' /\ StillSilent'
    BY <1>1, <2>1, <2>2 DEF SessionTypeOK, StillSilent
  <2>4. CallsBegun'
    BY <2>1, <2>2 DEF SessionInv, CallsBegun, Silent, ActiveSessions, SessionAt
  <2>5. ASSUME "create" \notin sessionOverlap PROVE FoundNone'
    BY <2>1, <2>2, <2>5 DEF SessionInv, FoundNone, SessionAt
  <2> QED BY <2>1, <2>3, <2>4, <2>5 DEF SessionInv
<1>3. CASE TimerMark
  <2>1. /\ UNCHANGED <<restarts, sessionCalls, sessionOverlap>> /\ silent' = {}
        /\ sessions' = [s \in Session |-> IF s \in silent THEN [sessions[s] EXCEPT !.status = "TIMEOUT"]
                                          ELSE sessions[s]]
    BY <1>3 DEF TimerMark
  <2>2. silent \subseteq Begun
    BY DEF SessionInv, CallsBegun
  <2>3. \A s \in silent : LET row == [sessions[s] EXCEPT !.status = "TIMEOUT"]
                          IN row \in SessionRow /\ row.status = "TIMEOUT"
    BY <1>1, <2>2, SessionFields DEF SessionRow
  <2>4. /\ sessions' \in [Session -> SessionRow \cup {NoSession}]
        /\ \A s \in silent : /\ s \in Begun /\ sessions'[s] \in SessionRow
                             /\ sessions'[s].status = "TIMEOUT"
        /\ \A s \in Session \ silent : sessions'[s] = sessions[s]
    <3>1. \A s \in silent : /\ s \in Begun /\ sessions'[s] \in SessionRow
                            /\ sessions'[s].status = "TIMEOUT"
      BY <1>1, <2>1, <2>2, <2>3 DEF SessionTypeOK
    <3>2. \A s \in Session \ silent : sessions'[s] = sessions[s]
      BY <2>1
    <3>3. /\ sessions \in [Session -> SessionRow \cup {NoSession}]
          /\ DOMAIN sessions' = Session /\ sessions' = [s \in Session |-> sessions'[s]]
      BY <1>1, <2>1 DEF SessionTypeOK
    <3>4. \A s \in Session : sessions'[s] \in SessionRow \cup {NoSession}
      BY <3>1, <3>2, <3>3
    <3>5. sessions' \in [Session -> SessionRow \cup {NoSession}]
      BY <3>3, <3>4
    <3> QED BY <3>1, <3>2, <3>5
  <2>5. Begun' = Begun /\ ActiveSessions' \subseteq ActiveSessions
    BY <2>4, SessionsAreThere DEF Begun, ActiveSessions
  <2>6. SessionTypeOK' /\ StillSilent'
    BY <1>1, <2>1, <2>4 DEF SessionTypeOK, StillSilent
  <2>7. CallsBegun'
    BY <2>1, <2>5 DEF SessionInv, CallsBegun, SessionAt
  <2>8. ASSUME "create" \notin sessionOverlap PROVE FoundNone'
    BY <2>1, <2>5, <2>8 DEF SessionInv, FoundNone, SessionAt
  <2> QED BY <2>1, <2>6, <2>7, <2>8 DEF SessionInv
<1>4. CASE Restart
  <2>1. /\ UNCHANGED <<sessions, sessionOverlap>> /\ silent' = {} /\ restarts' \in 0 .. MaxRestarts
        /\ sessionCalls' = [r \in Req |-> IF sessionCalls[r].op = "call" THEN Idle ELSE sessionCalls[r]]
    BY <1>1, <1>4, SessionAssumption DEF Restart, SessionTypeOK
  <2>2. UNCHANGED <<Begun, ActiveSessions>>
    BY <2>1 DEF Begun, ActiveSessions
  <2>3. \A r \in Req : sessionCalls'[r] = sessionCalls[r] \/ sessionCalls'[r].op = "idle"
    BY <2>1 DEF Idle
  <2>4. SessionTypeOK' /\ StillSilent'
    BY <1>1, <2>1 DEF SessionTypeOK, StillSilent, SessionCall
  <2>5. CallsBegun'
    BY <2>1, <2>2, <2>3 DEF SessionInv, CallsBegun, SessionAt
  <2>6. ASSUME "create" \notin sessionOverlap PROVE FoundNone'
    BY <2>2, <2>3, <2>6 DEF SessionInv, FoundNone, SessionAt
  <2> QED BY <2>1, <2>4, <2>5, <2>6 DEF SessionInv
<1>5. CASE HeartbeatTick
  <2>1. /\ UNCHANGED <<silent, restarts, sessionCalls, sessionOverlap>>
        /\ sessions' = [s \in Session |-> IF s \in Begun /\ sessions[s].age <= HeartbeatTimeout
                          THEN [sessions[s] EXCEPT !.age = @ + 1] ELSE sessions[s]]
    BY <1>5 DEF HeartbeatTick
  <2>2. \A s \in Begun : sessions[s].age <= HeartbeatTimeout =>
          LET row == [sessions[s] EXCEPT !.age = @ + 1]
          IN row \in SessionRow /\ row.status = sessions[s].status /\ row.age = sessions[s].age + 1
    BY <1>1, SessionFields, SessionAssumption DEF SessionRow
  <2>3. /\ sessions' \in [Session -> SessionRow \cup {NoSession}]
        /\ \A s \in Session : s \notin Begun => sessions'[s] = sessions[s]
        /\ \A s \in Begun : /\ sessions'[s] \in SessionRow
                            /\ sessions'[s].status = sessions[s].status
                            /\ sessions[s].age > HeartbeatTimeout => sessions'[s].age > HeartbeatTimeout
    BY <1>1, <2>1, <2>2, SessionFields, SessionAssumption DEF SessionTypeOK
  <2>4. Begun' = Begun
    BY <2>3, SessionsAreThere DEF Begun
  <2>5. ActiveSessions' = ActiveSessions
    BY <2>3, <2>4 DEF ActiveSessions
  <2>6. SessionTypeOK' /\ CallsBegun'
    BY <1>1, <2>1, <2>3, <2>4 DEF SessionTypeOK, SessionInv, CallsBegun, SessionAt
  <2>7. ASSUME "create" \notin sessionOverlap PROVE FoundNone'
    BY <2>1, <2>5, <2>7 DEF SessionInv, FoundNone, SessionAt
  <2>8. ASSUME "mark" \notin sessionOverlap PROVE StillSilent'
    BY <2>1, <2>3, <2>5, <2>8 DEF SessionInv, StillSilent, Silent, ActiveSessions
  <2> QED BY <2>1, <2>6, <2>7, <2>8 DEF SessionInv
<1> QED BY <1>2, <1>3, <1>4, <1>5

LEMMA SessionStepInv == SessionInv /\ [SessionNext]_sessionVars => SessionInv'
<1> SUFFICES ASSUME SessionInv, [SessionNext]_sessionVars PROVE SessionInv'
  OBVIOUS
<1>1. CASE SessionNext
  BY <1>1, SessionStartInv, CreateSessionInv, SessionWriteInv, SessionTimeInv
     DEF SessionNext, SessionHandle
<1>2. CASE UNCHANGED sessionVars
  BY <1>2 DEF sessionVars, SessionInv, SessionTypeOK, CallsBegun, FoundNone, StillSilent, Silent,
              ActiveSessions, Begun, SessionAt
<1> QED BY <1>1, <1>2

\* What the timer marks it has found silent and is silent still.
LEMMA SessionStepJustified ==
  ASSUME SessionInv, [SessionNext]_sessionVars, NEW s \in Begun,
         sessions[s].status # "TIMEOUT", sessions'[s].status = "TIMEOUT"
  PROVE  Silent(s) \/ "mark" \in sessionOverlap
<1>1. SessionTypeOK /\ s \in Session
  BY DEF SessionInv, Begun
<1>2. CASE TimerMark
  <2>1. s \in silent
    BY <1>1, <1>2 DEF TimerMark
  <2> QED BY <2>1 DEF SessionInv, StillSilent
<1>3. ASSUME NEW r \in Req, SessionHandle(r) PROVE FALSE
  <2>1. CASE CreateSession(r)
    <3>1. PICK t \in Session \ Begun : sessions' = [sessions EXCEPT ![t] = [status |-> "ACTIVE", age |-> 0]]
      BY <2>1 DEF CreateSession
    <3> QED BY <1>1, <3>1 DEF SessionTypeOK
  <2>2. CASE TouchSession(r) \/ RecordHeartbeat(r)
    <3>1. sessions' = [sessions EXCEPT ![sessionCalls[r].session].age = 0]
      BY <2>2 DEF TouchSession, RecordHeartbeat, Heartbeat
    <3>2. [sessions[s] EXCEPT !.age = 0].status = sessions[s].status
      BY <1>1, SessionFields DEF SessionRow
    <3> QED BY <1>1, <3>1, <3>2 DEF SessionTypeOK
  <2>3. CASE EndWrite(r)
    <3>1. sessions' = [sessions EXCEPT ![sessionCalls[r].session].status = "ENDED"]
      BY <2>3 DEF EndWrite
    <3>2. [sessions[s] EXCEPT !.status = "ENDED"].status = "ENDED"
      BY <1>1, SessionFields DEF SessionRow
    <3> QED BY <1>1, <3>1, <3>2 DEF SessionTypeOK
  <2>4. CASE FindSession(r) \/ EndFind(r) \/ SessionAbort(r)
    BY <2>4 DEF FindSession, EndFind, SessionAbort, SessionStart
  <2> QED BY <1>3, <2>1, <2>2, <2>3, <2>4 DEF SessionHandle
<1>4. CASE HeartbeatTick
  <2>1. [sessions[s] EXCEPT !.age = @ + 1].status = sessions[s].status
    BY <1>1, SessionFields DEF SessionRow
  <2> QED BY <1>1, <1>4, <2>1 DEF HeartbeatTick
<1>5. CASE TimerFind \/ Restart \/ UNCHANGED sessionVars
  BY <1>5 DEF TimerFind, Restart, sessionVars
<1> QED BY <1>2, <1>3, <1>4, <1>5 DEF SessionNext

\* The invariant.
THEOREM SessionInductive == SessionSpec => []SessionInv
BY SessionInitInv, SessionStepInv, PTL DEF SessionSpec

\* For any number of sessions and calls: a client has one active session,
\* unless two of its calls had both found none (getOrCreateSession).
THEOREM OneSession == SessionSpec => []OneActiveSession
<1>1. SessionInv => OneActiveSession
  BY AtMostOneElement DEF SessionInv, FoundNone, OneActiveSession
<1> QED BY <1>1, SessionInductive, PTL

\* For any timeout and any number of restarts: the timer ends only what is
\* active and silent, unless it was surprised (heartbeat.service).
THEOREM TimeoutsAreJustified == SessionSpec => TimeoutsJustified
<1>1. SessionInv /\ [SessionNext]_sessionVars =>
        [\A s \in Begun : sessions[s].status # "TIMEOUT" /\ sessions'[s].status = "TIMEOUT"
           => Silent(s) \/ "mark" \in sessionOverlap]_sessionVars
  BY SessionStepJustified
<1> QED BY <1>1, SessionInductive, PTL DEF SessionSpec, TimeoutsJustified

-----------------------------------------------------------------------------
(***************************************************************************)
(* The project: rows, and what becomes of the requests                     *)
(***************************************************************************)
LEMMA EnvironmentsAreThere == NoEnvironment \notin EnvironmentRow
<1>1. DOMAIN NoEnvironment = {"order"}
  BY DEF NoEnvironment
<1>2. \A row \in EnvironmentRow : "isDefault" \in DOMAIN row
  BY DEF EnvironmentRow
<1> QED BY <1>1, <1>2

LEMMA EnvironmentFields ==
  ASSUME ProjectTypeOK, NEW e \in Present
  PROVE  /\ e \in Environment /\ environments[e] \in EnvironmentRow
         /\ environments[e].order \in 0 .. LastOrder /\ environments[e].isDefault \in BOOLEAN
<1>1. e \in Environment /\ environments[e] \in EnvironmentRow
  BY DEF ProjectTypeOK, Present
<1> QED BY <1>1 DEF EnvironmentRow

LEMMA ProjectCallFields ==
  ASSUME ProjectTypeOK, NEW r \in Req
  PROVE  /\ ProjectAt(r, "create", "order") => projectCalls[r].isDefault \in BOOLEAN
         /\ ProjectAt(r, "create", "write") => /\ projectCalls[r].isDefault \in BOOLEAN
                                               /\ projectCalls[r].order \in 0 .. LastOrder
         /\ ProjectAt(r, "update", "write") => /\ projectCalls[r].env \in Environment
                                               /\ projectCalls[r].isDefault \in BOOLEAN
                                               /\ projectCalls[r].was \in BOOLEAN
         /\ ProjectAt(r, "drop", "write") => /\ projectCalls[r].env \in Environment
                                             /\ projectCalls[r].was \in BOOLEAN
         /\ ProjectAt(r, "reorder", "write") => projectCalls[r].places \in Places
<1>1. projectCalls[r] \in ProjectCall
  BY DEF ProjectTypeOK
<1> QED BY <1>1 DEF ProjectCall, Idle, ProjectAt

LEMMA ProjectMoves ==
  ASSUME ProjectTypeOK, NEW r \in Req, NEW call \in ProjectCall,
         projectCalls' = [projectCalls EXCEPT ![r] = call]
  PROVE  /\ projectCalls' \in [Req -> ProjectCall] /\ projectCalls'[r] = call
         /\ \A d \in Req \ {r} : projectCalls'[d] = projectCalls[d]
BY DEF ProjectTypeOK

LEMMA ProjectLeaves ==
  ASSUME ProjectTypeOK, NEW r \in Req, ProjectLeave(r)
  PROVE  /\ projectCalls' \in [Req -> ProjectCall] /\ projectCalls'[r].op = "idle"
         /\ \A d \in Req \ {r} : projectCalls'[d] = projectCalls[d]
<1>1. Idle \in ProjectCall /\ Idle.op = "idle"
  BY DEF ProjectCall, Idle
<1> QED BY <1>1, ProjectMoves DEF ProjectLeave, End

\* Without the mark of the default the rows are the same ones.
LEMMA UnmarkedRows ==
  ASSUME ProjectTypeOK
  PROVE  /\ WithoutDefault \in [Environment -> EnvironmentRow \cup {NoEnvironment}]
         /\ \A e \in Environment \ Present : WithoutDefault[e] = NoEnvironment
         /\ \A e \in Present : /\ WithoutDefault[e] \in EnvironmentRow
                               /\ WithoutDefault[e].isDefault = FALSE
<1>1. \A e \in Environment \ Present : WithoutDefault[e] = NoEnvironment
  BY DEF WithoutDefault, Present, Defaults
<1>2. \A e \in Present : /\ WithoutDefault[e] \in EnvironmentRow
                         /\ WithoutDefault[e].isDefault = FALSE
  <2> SUFFICES ASSUME NEW e \in Present
               PROVE  /\ WithoutDefault[e] \in EnvironmentRow
                      /\ WithoutDefault[e].isDefault = FALSE
    OBVIOUS
  <2> DEFINE row == [environments[e] EXCEPT !.isDefault = FALSE]
  <2>1. row \in EnvironmentRow /\ row.isDefault = FALSE
    BY EnvironmentFields DEF EnvironmentRow
  <2>2. e \in Environment /\ environments[e] \in EnvironmentRow
        /\ environments[e].isDefault \in BOOLEAN
    BY EnvironmentFields
  <2>3. WithoutDefault[e] = IF environments[e].isDefault THEN row ELSE environments[e]
    BY <2>2 DEF WithoutDefault, Defaults
  <2> HIDE DEF row
  <2> QED BY <2>1, <2>2, <2>3
<1>3. WithoutDefault = [e \in Environment |-> WithoutDefault[e]]
  BY DEF WithoutDefault
<1>4. \A e \in Environment : WithoutDefault[e] \in EnvironmentRow \cup {NoEnvironment}
  BY <1>1, <1>2
<1> HIDE DEF WithoutDefault
<1> QED BY <1>1, <1>2, <1>3, <1>4

\* What is left of the invariant after a step that writes rows: nobody else
\* had read the default.
LEMMA RowsWrittenInv ==
  ASSUME ProjectInv, NEW r \in Req, NEW rows \in [Environment -> EnvironmentRow \cup {NoEnvironment}],
         SetEnvironments(r, rows), UNCHANGED Lifecycle,
         projectCalls' \in [Req -> ProjectCall],
         \A d \in Req \ {r} : projectCalls'[d] = projectCalls[d],
         \/ projectCalls'[r].op = "idle"
         \/ projectCalls'[r].op = "create" /\ Defaults' = {},
         "default" \notin projectOverlap => AtMostOneDefault'
  PROVE  ProjectInv'
<1>1. /\ environments' = rows /\ UNCHANGED <<project, found, failures>>
      /\ projectOverlap' = projectOverlap \cup {"default" : d \in Defaulting(r)}
  BY DEF SetEnvironments, Lifecycle
<1>2. ProjectTypeOK'
  BY <1>1 DEF ProjectInv, ProjectTypeOK
<1>3. ASSUME "cleanup" \notin projectOverlap' PROVE BatchDeleted'
  BY <1>1, <1>3 DEF ProjectInv, BatchDeleted
<1>4. ASSUME "default" \notin projectOverlap' PROVE DefaultsRead' /\ AtMostOneDefault'
  <2>1. "default" \notin projectOverlap /\ Defaulting(r) = {}
    BY <1>1, <1>4
  <2>2. DefaultsRead'
    BY <2>1 DEF DefaultsRead, Defaulting
  <2> QED BY <2>1, <2>2
<1> QED BY <1>2, <1>3, <1>4 DEF ProjectInv

\* A request that ends and writes nothing.
LEMMA ProjectKept ==
  ASSUME ProjectInv, NEW r \in Req, projectCalls' \in [Req -> ProjectCall],
         projectCalls'[r].op = "idle",
         \A d \in Req \ {r} : projectCalls'[d] = projectCalls[d],
         UNCHANGED <<project, found, failures, environments, projectOverlap>>
  PROVE  ProjectInv'
<1>1. ProjectTypeOK' /\ Present' = Present /\ Defaults' = Defaults
  BY DEF ProjectInv, ProjectTypeOK, Present, Defaults
<1>2. ASSUME "default" \notin projectOverlap PROVE DefaultsRead' /\ AtMostOneDefault'
  <2>1. DefaultsRead /\ AtMostOneDefault
    BY <1>2 DEF ProjectInv
  <2>2. DefaultsRead'
    BY <1>1, <2>1 DEF DefaultsRead
  <2> QED BY <1>1, <2>1, <2>2 DEF AtMostOneDefault
<1> QED BY <1>1, <1>2 DEF ProjectInv, BatchDeleted

LEMMA ProjectInitInv == ProjectInit => ProjectInv
<1> SUFFICES ASSUME ProjectInit PROVE ProjectInv
  OBVIOUS
<1>1. ProjectTypeOK
  <2>1. 0 \in 0 .. MaxFailures /\ Idle \in ProjectCall
    BY ProjectBounds DEF ProjectCall
  <2> QED BY <2>1 DEF ProjectInit, ProjectTypeOK
<1>2. Defaults = {} /\ \A r \in Req : projectCalls[r].op = "idle"
  BY DEF ProjectInit, Defaults, Present, Idle
<1>3. BatchDeleted /\ DefaultsRead /\ AtMostOneDefault
  BY <1>2 DEF ProjectInit, BatchDeleted, DefaultsRead, AtMostOneDefault
<1> QED BY <1>1, <1>3 DEF ProjectInv

-----------------------------------------------------------------------------
(***************************************************************************)
(* The project: the steps                                                  *)
(***************************************************************************)
\* A request begins, goes on or ends without writing: it has read which
\* environment is the default.
LEMMA ProjectReadInv ==
  ASSUME ProjectInv, NEW r \in Req,
         \/ DeleteProject(r) \/ RestoreProject(r) \/ CreateOrder(r) \/ UpdateStart(r)
         \/ DropStart(r) \/ ReorderStart(r) \/ ProjectAbort(r)
  PROVE  ProjectInv'
<1> DEFINE Read(call) ==
      \/ call.op \in {"idle", "delete", "restore", "reorder"}
      \/ /\ call.op = "create" /\ projectCalls[r].op = "create"
         /\ call.isDefault = projectCalls[r].isDefault
      \/ call.op = "update" /\ call.was = environments[call.env].isDefault
      \/ call.op = "drop" /\ call.was = environments[call.env].isDefault
<1>1. ProjectTypeOK
  BY DEF ProjectInv
<1>2. UNCHANGED <<project, found, failures, environments, projectOverlap>>
  BY DEF DeleteProject, RestoreProject, CreateOrder, UpdateStart, DropStart, ReorderStart,
         ProjectAbort, ProjectStart
<1>3. PICK call \in ProjectCall :
        projectCalls' = [projectCalls EXCEPT ![r] = call] /\ Read(call)
  <2>1. CASE DeleteProject(r) \/ RestoreProject(r)
    <3>1. \A op \in {"delete", "restore"} : [op |-> op, at |-> "write"] \in ProjectCall
      BY DEF ProjectCall
    <3> QED BY <2>1, <3>1 DEF DeleteProject, RestoreProject, ProjectStart
  <2>2. CASE CreateOrder(r)
    <3>1. PICK n \in 0 .. LastOrder : projectCalls' = [projectCalls EXCEPT ![r] =
            [op |-> "create", at |-> "write", isDefault |-> projectCalls[r].isDefault, order |-> n]]
      BY <2>2 DEF CreateOrder
    <3>2. projectCalls[r].op = "create" /\ projectCalls[r].isDefault \in BOOLEAN
      BY <1>1, <2>2, ProjectCallFields DEF CreateOrder, ProjectAt
    <3>3. [op |-> "create", at |-> "write", isDefault |-> projectCalls[r].isDefault, order |-> n]
            \in ProjectCall
      BY <3>2 DEF ProjectCall
    <3> QED BY <3>1, <3>2, <3>3
  <2>3. CASE UpdateStart(r)
    <3>1. PICK e \in Present, new \in BOOLEAN : ProjectStart(r,
            [op |-> "update", at |-> "write", env |-> e, isDefault |-> new,
             was |-> environments[e].isDefault])
      BY <2>3 DEF UpdateStart
    <3>2. [op |-> "update", at |-> "write", env |-> e, isDefault |-> new,
           was |-> environments[e].isDefault] \in ProjectCall
      BY <1>1, EnvironmentFields DEF ProjectCall
    <3> QED BY <3>1, <3>2 DEF ProjectStart
  <2>4. CASE DropStart(r)
    <3>1. PICK e \in Present : ProjectStart(r,
            [op |-> "drop", at |-> "write", env |-> e, was |-> environments[e].isDefault])
      BY <2>4 DEF DropStart
    <3>2. [op |-> "drop", at |-> "write", env |-> e, was |-> environments[e].isDefault]
            \in ProjectCall
      BY <1>1, EnvironmentFields DEF ProjectCall
    <3> QED BY <3>1, <3>2 DEF ProjectStart
  <2>5. CASE ReorderStart(r)
    <3>1. \A f \in Places : [op |-> "reorder", at |-> "write", places |-> f] \in ProjectCall
      BY DEF ProjectCall
    <3> QED BY <2>5, <3>1 DEF ReorderStart, ProjectStart
  <2>6. CASE ProjectAbort(r)
    <3>1. Idle \in ProjectCall /\ Idle.op = "idle"
      BY DEF ProjectCall, Idle
    <3> QED BY <2>6, <3>1 DEF ProjectAbort, ProjectLeave, End
  <2> QED BY <2>1, <2>2, <2>3, <2>4, <2>5, <2>6
<1>4. /\ projectCalls' \in [Req -> ProjectCall] /\ projectCalls'[r] = call
      /\ \A d \in Req \ {r} : projectCalls'[d] = projectCalls[d]
  BY <1>1, <1>3, ProjectMoves
<1>5. ProjectTypeOK'
  BY <1>1, <1>2, <1>4 DEF ProjectTypeOK
<1>6. UNCHANGED <<Present, Defaults>>
  BY <1>2 DEF Present, Defaults
<1>7. ASSUME "cleanup" \notin projectOverlap PROVE BatchDeleted'
  BY <1>2, <1>7 DEF ProjectInv, BatchDeleted
<1>8. ASSUME "default" \notin projectOverlap PROVE DefaultsRead' /\ AtMostOneDefault'
  <2>1. DefaultsRead /\ AtMostOneDefault
    BY <1>8 DEF ProjectInv
  <2>2. environments' = environments /\ Present' = Present /\ Defaults' = Defaults
    BY <1>2, <1>6
  <2>3. DefaultsRead'
    BY <1>3, <1>4, <2>1, <2>2 DEF DefaultsRead, Defaults
  <2> QED BY <2>1, <2>2, <2>3 DEF AtMostOneDefault
<1> QED BY <1>2, <1>5, <1>7, <1>8 DEF ProjectInv

\* Deleting and restoring, time, and the job.
LEMMA ProjectLifecycleInv ==
  ASSUME ProjectInv,
         \/ \E r \in Req : DeleteProjectWrite(r) \/ RestoreProjectWrite(r)
         \/ DaysPass \/ CleanupFind \/ CleanupDelete
  PROVE  ProjectInv'
<1>1. ProjectTypeOK
  BY DEF ProjectInv
<1>2. ASSUME NEW r \in Req, NEW op, NEW phase \in {"fresh", "live"}, LifecycleWrite(r, op, phase)
      PROVE  ProjectInv'
  <2>1. /\ project' \in {"gone", phase} /\ UNCHANGED <<found, failures, environments>>
        /\ projectOverlap' = projectOverlap \cup {"cleanup" : b \in {b \in {found} : b}}
        /\ ProjectLeave(r)
    BY <1>2 DEF LifecycleWrite
  <2>2. /\ projectCalls' \in [Req -> ProjectCall] /\ projectCalls'[r].op = "idle"
        /\ \A d \in Req \ {r} : projectCalls'[d] = projectCalls[d]
    BY <1>1, <2>1, ProjectLeaves
  <2>3. ProjectTypeOK'
    BY <1>1, <2>1, <2>2 DEF ProjectTypeOK
  <2>4. ASSUME "cleanup" \notin projectOverlap' PROVE BatchDeleted'
    BY <2>1, <2>4 DEF BatchDeleted
  <2>5. Present' = Present /\ Defaults' = Defaults
    BY <2>1 DEF Present, Defaults
  <2>6. ASSUME "default" \notin projectOverlap' PROVE DefaultsRead' /\ AtMostOneDefault'
    <3>1. DefaultsRead /\ AtMostOneDefault
      BY <2>1, <2>6 DEF ProjectInv
    <3>2. DefaultsRead'
      BY <2>1, <2>2, <2>5, <3>1 DEF DefaultsRead
    <3> QED BY <2>5, <3>1, <3>2 DEF AtMostOneDefault
  <2> QED BY <2>3, <2>4, <2>6 DEF ProjectInv
<1>3. CASE DaysPass \/ CleanupFind
  <2>1. /\ UNCHANGED <<failures, environments, projectCalls, projectOverlap>>
        /\ project' \in {"live", "fresh", "late", "over", "gone"} /\ found' \in BOOLEAN
        /\ BatchDeleted => BatchDeleted'
    BY <1>1, <1>3 DEF DaysPass, CleanupFind, ProjectTypeOK, BatchDeleted
  <2>2. ProjectTypeOK'
    BY <1>1, <2>1 DEF ProjectTypeOK
  <2>3. Present' = Present /\ Defaults' = Defaults
    BY <2>1 DEF Present, Defaults
  <2> QED BY <2>1, <2>2, <2>3 DEF ProjectInv, DefaultsRead, AtMostOneDefault
<1>4. CASE CleanupDelete
  <2>1. /\ UNCHANGED <<projectCalls, projectOverlap>> /\ found' = FALSE
        /\ \/ project' = "gone" /\ failures' = failures
              /\ environments' = [e \in Environment |-> NoEnvironment]
           \/ failures < MaxFailures /\ failures' = failures + 1
              /\ UNCHANGED <<project, environments>>
    BY <1>4 DEF CleanupDelete
  <2>2. ProjectTypeOK' /\ BatchDeleted'
    <3>1. failures' \in 0 .. MaxFailures
      BY <1>1, <2>1, ProjectBounds DEF ProjectTypeOK
    <3>2. environments' \in [Environment -> EnvironmentRow \cup {NoEnvironment}]
      BY <1>1, <2>1 DEF ProjectTypeOK
    <3>3. project' \in {"live", "fresh", "late", "over", "gone"}
      BY <1>1, <2>1 DEF ProjectTypeOK
    <3> QED BY <1>1, <2>1, <3>1, <3>2, <3>3 DEF ProjectTypeOK, BatchDeleted
  <2>3. \/ environments' = environments /\ Present' = Present /\ Defaults' = Defaults
        \/ Present' = {} /\ Defaults' = {}
    BY <2>1 DEF Present, Defaults
  <2>4. ASSUME "default" \notin projectOverlap PROVE DefaultsRead' /\ AtMostOneDefault'
    <3>1. DefaultsRead /\ AtMostOneDefault
      BY <2>4 DEF ProjectInv
    <3> QED BY <2>1, <2>3, <3>1 DEF DefaultsRead, AtMostOneDefault
  <2> QED BY <2>1, <2>2, <2>4 DEF ProjectInv
<1> QED BY <1>2, <1>3, <1>4 DEF DeleteProjectWrite, RestoreProjectWrite

\* createEnvironment takes the mark from the default first.
LEMMA CreateStartInv ==
  ASSUME ProjectInv, NEW r \in Req, CreateStart(r)
  PROVE  ProjectInv'
<1>1. ProjectTypeOK
  BY DEF ProjectInv
<1>2. PICK new \in BOOLEAN :
        /\ projectCalls' = [projectCalls EXCEPT ![r] =
                              [op |-> "create", at |-> "order", isDefault |-> new]]
        /\ IF new THEN SetEnvironments(r, WithoutDefault)
                  ELSE UNCHANGED <<environments, projectOverlap>>
  BY DEF CreateStart
<1>3. [op |-> "create", at |-> "order", isDefault |-> new] \in ProjectCall
  BY DEF ProjectCall
<1>4. /\ projectCalls' \in [Req -> ProjectCall]
      /\ projectCalls'[r] = [op |-> "create", at |-> "order", isDefault |-> new]
      /\ \A d \in Req \ {r} : projectCalls'[d] = projectCalls[d]
  BY <1>1, <1>2, <1>3, ProjectMoves
<1>5. UNCHANGED Lifecycle
  BY DEF CreateStart
<1>6. CASE new
  <2>1. SetEnvironments(r, WithoutDefault) /\ environments' = WithoutDefault
    BY <1>2, <1>6 DEF SetEnvironments
  <2>2. Defaults' = {}
    BY <1>1, <2>1, UnmarkedRows DEF Defaults, Present
  <2>3. AtMostOneDefault' /\ projectCalls'[r].op = "create"
    BY <1>4, <2>2 DEF AtMostOneDefault
  <2> QED BY <1>1, <1>4, <1>5, <2>1, <2>2, <2>3, UnmarkedRows, RowsWrittenInv
<1>7. CASE ~new
  <2>1. UNCHANGED <<project, found, failures, environments, projectOverlap>>
    BY <1>2, <1>5, <1>7 DEF Lifecycle
  <2>2. ProjectTypeOK' /\ Present' = Present /\ Defaults' = Defaults
    BY <1>1, <1>4, <2>1 DEF ProjectTypeOK, Present, Defaults
  <2>3. projectCalls'[r].op = "create" /\ projectCalls'[r].isDefault = FALSE
    BY <1>4, <1>7
  <2>4. ASSUME "default" \notin projectOverlap PROVE DefaultsRead' /\ AtMostOneDefault'
    <3>1. DefaultsRead /\ AtMostOneDefault
      BY <2>4 DEF ProjectInv
    <3>2. DefaultsRead'
      BY <1>4, <2>1, <2>2, <2>3, <3>1 DEF DefaultsRead
    <3> QED BY <2>2, <3>1, <3>2 DEF AtMostOneDefault
  <2> QED BY <2>1, <2>2, <2>4 DEF ProjectInv, BatchDeleted
<1> QED BY <1>6, <1>7

\* Whoever creates the default found the mark taken from all others.
LEMMA CreateWriteInv ==
  ASSUME ProjectInv, NEW r \in Req, CreateWrite(r)
  PROVE  ProjectInv'
<1> DEFINE c == projectCalls[r]
           row == [order |-> c.order, isDefault |-> c.isDefault]
<1>1. ProjectTypeOK
  BY DEF ProjectInv
<1>2. PICK e \in Environment \ Present : SetEnvironments(r, [environments EXCEPT ![e] = row])
  BY DEF CreateWrite
<1>3. ProjectLeave(r) /\ UNCHANGED Lifecycle /\ c.op = "create"
  BY DEF CreateWrite, ProjectAt
<1>4. c.isDefault \in BOOLEAN /\ c.order \in 0 .. LastOrder
  BY <1>1, ProjectCallFields DEF CreateWrite
<1>5. row \in EnvironmentRow /\ row.isDefault = c.isDefault
  BY <1>4 DEF EnvironmentRow
<1> HIDE DEF row
<1> DEFINE rows == [environments EXCEPT ![e] = row]
<1>6. /\ rows \in [Environment -> EnvironmentRow \cup {NoEnvironment}]
      /\ rows[e] = row /\ \A d \in Environment \ {e} : rows[d] = environments[d]
      /\ environments' = rows /\ SetEnvironments(r, rows)
  BY <1>1, <1>2, <1>5 DEF ProjectTypeOK, SetEnvironments
<1> HIDE DEF rows
<1>7. Defaults' = Defaults \cup {d \in {e} : c.isDefault}
  BY <1>5, <1>6, EnvironmentsAreThere DEF Defaults, Present
<1>8. ASSUME "default" \notin projectOverlap PROVE AtMostOneDefault'
  <2>1. AtMostOneDefault /\ (c.isDefault => Defaults = {})
    BY <1>3, <1>8 DEF ProjectInv, DefaultsRead
  <2> QED BY <1>7, <2>1 DEF AtMostOneDefault
<1> QED BY <1>1, <1>3, <1>6, <1>8, ProjectLeaves, RowsWrittenInv

\* Whoever makes one the default relies on the mark it read.
LEMMA UpdateEnvironmentInv ==
  ASSUME ProjectInv, NEW r \in Req, UpdateEnvironment(r)
  PROVE  ProjectInv'
<1> DEFINE c == projectCalls[r]
           rows == IF c.isDefault /\ ~c.was THEN WithoutDefault ELSE environments
           row == [rows[c.env] EXCEPT !.isDefault = c.isDefault]
           new == [rows EXCEPT ![c.env] = row]
<1>1. ProjectTypeOK
  BY DEF ProjectInv
<1>2. /\ c.op = "update" /\ ProjectLeave(r) /\ UNCHANGED Lifecycle
      /\ IF c.env \in Present THEN SetEnvironments(r, new)
                              ELSE UNCHANGED <<environments, projectOverlap>>
  BY DEF UpdateEnvironment, ProjectAt
<1>3. c.env \in Environment /\ c.isDefault \in BOOLEAN /\ c.was \in BOOLEAN
  BY <1>1, ProjectCallFields DEF UpdateEnvironment
<1>4. /\ projectCalls' \in [Req -> ProjectCall] /\ projectCalls'[r].op = "idle"
      /\ \A d \in Req \ {r} : projectCalls'[d] = projectCalls[d]
  BY <1>1, <1>2, ProjectLeaves
<1>5. CASE c.env \in Present
  <2>1. /\ rows \in [Environment -> EnvironmentRow \cup {NoEnvironment}]
        /\ \A e \in Environment \ Present : rows[e] = NoEnvironment
        /\ \A e \in Present : rows[e] \in EnvironmentRow
        /\ c.isDefault /\ ~c.was => \A e \in Present : rows[e].isDefault = FALSE
        /\ ~(c.isDefault /\ ~c.was) => rows = environments
    <3>1. CASE c.isDefault /\ ~c.was
      BY <1>1, <3>1, UnmarkedRows
    <3>2. CASE ~(c.isDefault /\ ~c.was)
      BY <1>1, <3>2, EnvironmentFields DEF ProjectTypeOK, Present
    <3> QED BY <3>1, <3>2
  <2> HIDE DEF rows
  <2>2. row \in EnvironmentRow /\ row.isDefault = c.isDefault
    <3>1. rows[c.env] \in EnvironmentRow
      BY <1>5, <2>1
    <3> QED BY <1>3, <3>1 DEF EnvironmentRow
  <2> HIDE DEF row
  <2>3. /\ new \in [Environment -> EnvironmentRow \cup {NoEnvironment}]
        /\ new[c.env] = row /\ \A d \in Environment \ {c.env} : new[d] = rows[d]
    BY <1>3, <2>1, <2>2
  <2> HIDE DEF new
  <2>4. SetEnvironments(r, new) /\ environments' = new
    BY <1>2, <1>5 DEF SetEnvironments
  <2>5. ASSUME "default" \notin projectOverlap PROVE AtMostOneDefault'
    <3>1. AtMostOneDefault /\ (c.isDefault => environments[c.env].isDefault = c.was)
      BY <1>2, <1>5, <2>5 DEF ProjectInv, DefaultsRead
    <3>2. CASE c.isDefault /\ ~c.was
      <4>1. Defaults' \subseteq {c.env}
        BY <2>1, <2>3, <2>4, <3>2, EnvironmentsAreThere DEF Defaults, Present
      <4> QED BY <4>1 DEF AtMostOneDefault
    <3>3. CASE ~(c.isDefault /\ ~c.was)
      <4>1. Defaults' \subseteq Defaults
        <5>1. rows = environments /\ (c.isDefault => environments[c.env].isDefault)
          BY <1>3, <2>1, <3>1, <3>3
        <5>2. \A d \in Environment \ {c.env} : d \in Defaults' => d \in Defaults
          BY <2>3, <2>4, <5>1 DEF Defaults, Present
        <5>3. c.env \in Defaults' => c.env \in Defaults
          BY <1>3, <1>5, <2>2, <2>3, <2>4, <5>1 DEF Defaults, Present
        <5> QED BY <5>2, <5>3 DEF Defaults, Present
      <4> QED BY <3>1, <4>1 DEF AtMostOneDefault
    <3> QED BY <3>2, <3>3
  <2> QED BY <1>2, <1>4, <2>3, <2>4, <2>5, RowsWrittenInv
<1>6. CASE c.env \notin Present
  <2>1. UNCHANGED <<project, found, failures, environments, projectOverlap>>
    BY <1>2, <1>6 DEF Lifecycle
  <2> QED BY <1>4, <2>1, ProjectKept
<1> QED BY <1>5, <1>6

\* Whoever removes the default has seen that it is the one; another takes its
\* place.
LEMMA DropEnvironmentInv ==
  ASSUME ProjectInv, NEW r \in Req, DropEnvironment(r)
  PROVE  ProjectInv'
<1> DEFINE c == projectCalls[r]
           rest == Present \ {c.env}
           rows == [environments EXCEPT ![c.env] = NoEnvironment]
<1>1. ProjectTypeOK
  BY DEF ProjectInv
<1>2. c.op = "drop" /\ ProjectLeave(r) /\ UNCHANGED Lifecycle
  BY DEF DropEnvironment, ProjectAt
<1>3. c.env \in Environment /\ c.was \in BOOLEAN
  BY <1>1, ProjectCallFields DEF DropEnvironment
<1>4. /\ projectCalls' \in [Req -> ProjectCall] /\ projectCalls'[r].op = "idle"
      /\ \A d \in Req \ {r} : projectCalls'[d] = projectCalls[d]
  BY <1>1, <1>2, ProjectLeaves
<1>5. /\ rows \in [Environment -> EnvironmentRow \cup {NoEnvironment}]
      /\ rows[c.env] = NoEnvironment
      /\ \A d \in Environment \ {c.env} : rows[d] = environments[d]
  BY <1>1, <1>3 DEF ProjectTypeOK
<1>6. \/ c.env \notin Present /\ UNCHANGED <<environments, projectOverlap>>
      \/ c.env \in Present /\ SetEnvironments(r, rows)
      \/ c.env \in Present /\ c.was /\ \E e \in rest :
           SetEnvironments(r, [rows EXCEPT ![e].isDefault = TRUE])
  BY <1>3 DEF DropEnvironment
<1> HIDE DEF rows
<1>7. CASE c.env \notin Present /\ UNCHANGED <<environments, projectOverlap>>
  <2>1. UNCHANGED <<project, found, failures, environments, projectOverlap>>
    BY <1>2, <1>7 DEF Lifecycle
  <2> QED BY <1>4, <2>1, ProjectKept
<1>8. CASE SetEnvironments(r, rows)
  <2>1. environments' = rows
    BY <1>8 DEF SetEnvironments
  <2>2. Defaults' \subseteq Defaults
    BY <1>5, <2>1 DEF Defaults, Present
  <2>3. ASSUME "default" \notin projectOverlap PROVE AtMostOneDefault'
    BY <2>2, <2>3 DEF ProjectInv, AtMostOneDefault
  <2> QED BY <1>2, <1>4, <1>5, <1>8, <2>3, RowsWrittenInv
<1>9. ASSUME c.env \in Present, c.was, NEW e \in rest,
             SetEnvironments(r, [rows EXCEPT ![e].isDefault = TRUE])
      PROVE  ProjectInv'
  <2> DEFINE row == [rows[e] EXCEPT !.isDefault = TRUE]
             new == [rows EXCEPT ![e] = row]
  <2>1. row \in EnvironmentRow
    <3>1. e \in Present /\ e \in Environment /\ e # c.env
      BY <1>9 DEF Present
    <3>2. rows[e] \in EnvironmentRow
      BY <1>1, <1>5, <3>1, EnvironmentFields
    <3> QED BY <3>2 DEF EnvironmentRow
  <2>2. SetEnvironments(r, new) /\ environments' = new
    BY <1>9 DEF SetEnvironments
  <2> HIDE DEF row
  <2>3. /\ new \in [Environment -> EnvironmentRow \cup {NoEnvironment}]
        /\ \A d \in Environment \ {e} : new[d] = rows[d]
    BY <1>5, <1>9, <2>1
  <2> HIDE DEF new
  <2>4. ASSUME "default" \notin projectOverlap PROVE AtMostOneDefault'
    <3>1. AtMostOneDefault /\ c.env \in Defaults
      BY <1>2, <1>9, <2>4 DEF ProjectInv, DefaultsRead, Defaults
    <3>2. \A d \in Environment \ {e} : d \in Defaults' => d \in Defaults /\ d # c.env
      BY <1>5, <2>2, <2>3 DEF Defaults, Present
    <3>3. Defaults' \subseteq {e}
      BY <3>1, <3>2 DEF AtMostOneDefault, Defaults, Present
    <3> QED BY <3>3 DEF AtMostOneDefault
  <2> QED BY <1>2, <1>4, <2>2, <2>3, <2>4, RowsWrittenInv
<1> QED BY <1>6, <1>7, <1>8, <1>9

\* A new order: no mark changes.
LEMMA ReorderInv ==
  ASSUME ProjectInv, NEW r \in Req, Reorder(r)
  PROVE  ProjectInv'
<1> DEFINE f == projectCalls[r].places
<1>1. ProjectTypeOK
  BY DEF ProjectInv
<1>2. /\ ProjectLeave(r) /\ UNCHANGED <<project, found, failures, projectOverlap>>
      /\ environments' = IF DOMAIN f \subseteq Present
                         THEN [e \in Environment |-> IF e \in DOMAIN f
                                 THEN [environments[e] EXCEPT !.order = 0 + f[e]]
                                 ELSE environments[e]]
                         ELSE environments
  BY DEF Reorder, ReorderBy
<1>3. \A e \in DOMAIN f : f[e] \in 0 .. LastOrder
  <2>1. f \in Places
    BY <1>1, ProjectCallFields DEF Reorder, ReorderBy
  <2> QED BY <2>1 DEF Places
<1>4. /\ projectCalls' \in [Req -> ProjectCall] /\ projectCalls'[r].op = "idle"
      /\ \A d \in Req \ {r} : projectCalls'[d] = projectCalls[d]
  BY <1>1, <1>2, ProjectLeaves
<1> HIDE DEF f
<1>5. CASE ~(DOMAIN f \subseteq Present)
  BY <1>2, <1>4, <1>5, ProjectKept
<1>6. CASE DOMAIN f \subseteq Present
  <2>1. \A e \in Environment \ DOMAIN f : environments'[e] = environments[e]
    BY <1>2, <1>6
  <2>2. \A e \in DOMAIN f : /\ e \in Present /\ environments'[e] \in EnvironmentRow
                            /\ environments'[e].isDefault = environments[e].isDefault
    <3> SUFFICES ASSUME NEW e \in DOMAIN f
                 PROVE  /\ e \in Present /\ environments'[e] \in EnvironmentRow
                        /\ environments'[e].isDefault = environments[e].isDefault
      OBVIOUS
    <3>1. /\ e \in Present /\ e \in Environment /\ environments[e] \in EnvironmentRow
          /\ 0 + f[e] \in 0 .. LastOrder
      BY <1>1, <1>3, <1>6, EnvironmentFields
    <3>2. environments'[e] = [environments[e] EXCEPT !.order = 0 + f[e]]
      BY <1>2, <1>6, <3>1
    <3> QED BY <3>1, <3>2 DEF EnvironmentRow
  <2>3. environments' = [e \in Environment |-> environments'[e]]
    BY <1>2, <1>6
  <2>4. \A e \in Environment : environments'[e] \in EnvironmentRow \cup {NoEnvironment}
    BY <1>1, <2>1, <2>2 DEF ProjectTypeOK
  <2>5. environments' \in [Environment -> EnvironmentRow \cup {NoEnvironment}]
    BY <2>3, <2>4
  <2>6. ProjectTypeOK'
    BY <1>1, <1>2, <1>4, <2>5 DEF ProjectTypeOK
  <2>7. /\ Present' = Present
        /\ \A e \in Present : environments'[e].isDefault = environments[e].isDefault
    BY <2>1, <2>2, EnvironmentsAreThere DEF Present
  <2>8. Defaults' = Defaults
    BY <2>7 DEF Defaults
  <2>9. ASSUME "default" \notin projectOverlap PROVE DefaultsRead' /\ AtMostOneDefault'
    <3>1. DefaultsRead /\ AtMostOneDefault
      BY <2>9 DEF ProjectInv
    <3>2. DefaultsRead'
      BY <1>4, <2>7, <2>8, <3>1 DEF DefaultsRead
    <3> QED BY <2>8, <3>1, <3>2 DEF AtMostOneDefault
  <2> QED BY <1>2, <2>6, <2>9 DEF ProjectInv, BatchDeleted
<1> QED BY <1>5, <1>6

LEMMA ProjectStepInv == ProjectInv /\ [ProjectNext]_projectVars => ProjectInv'
<1> SUFFICES ASSUME ProjectInv, [ProjectNext]_projectVars PROVE ProjectInv'
  OBVIOUS
<1>1. CASE ProjectNext
  BY <1>1, ProjectReadInv, ProjectLifecycleInv, CreateStartInv, CreateWriteInv,
     UpdateEnvironmentInv, DropEnvironmentInv, ReorderInv DEF ProjectNext, ProjectHandle
<1>2. CASE UNCHANGED projectVars
  BY <1>2 DEF projectVars, ProjectInv, ProjectTypeOK, BatchDeleted, DefaultsRead,
              AtMostOneDefault, Defaults, Present
<1> QED BY <1>1, <1>2

\* What the job has in its batch is deleted, so it removes nothing live.
LEMMA ProjectStepStays ==
  ASSUME ProjectInv, [ProjectNext]_projectVars, project = "live", "cleanup" \notin projectOverlap
  PROVE  project' # "gone"
<1>1. ~found
  BY DEF ProjectInv, BatchDeleted
<1>2. ASSUME NEW r \in Req, ProjectHandle(r) PROVE project' # "gone"
  <2>1. CASE DeleteProjectWrite(r) \/ RestoreProjectWrite(r)
    BY <2>1 DEF DeleteProjectWrite, RestoreProjectWrite, LifecycleWrite
  <2>2. CASE \/ DeleteProject(r) \/ RestoreProject(r) \/ CreateOrder(r) \/ UpdateStart(r)
             \/ DropStart(r) \/ ReorderStart(r) \/ ProjectAbort(r)
    BY <2>2 DEF DeleteProject, RestoreProject, CreateOrder, UpdateStart, DropStart, ReorderStart,
                ProjectAbort, ProjectStart
  <2>3. CASE \/ CreateStart(r) \/ CreateWrite(r) \/ UpdateEnvironment(r)
             \/ DropEnvironment(r) \/ Reorder(r)
    BY <2>3 DEF CreateStart, CreateWrite, UpdateEnvironment, DropEnvironment, Reorder, ReorderBy,
                Lifecycle
  <2> QED BY <1>2, <2>1, <2>2, <2>3 DEF ProjectHandle
<1>3. CASE DaysPass \/ CleanupFind \/ CleanupDelete \/ UNCHANGED projectVars
  BY <1>1, <1>3 DEF DaysPass, CleanupFind, CleanupDelete, projectVars
<1> QED BY <1>2, <1>3 DEF ProjectNext

\* The invariant.
THEOREM ProjectInductive == ProjectSpec => []ProjectInv
BY ProjectInitInv, ProjectStepInv, PTL DEF ProjectSpec

\* For any number of environments and requests: at most one environment is
\* the default, unless one was set from a default read too early
\* (createEnvironment, updateEnvironment, deleteEnvironment).
THEOREM OneDefaultAtMost == ProjectSpec => []OneDefault
<1>1. ProjectInv => OneDefault
  BY AtMostOneElement DEF ProjectInv, AtMostOneDefault, OneDefault
<1> QED BY <1>1, ProjectInductive, PTL

\* However often the job fails: it removes no project that is live, unless
\* one was deleted or restored after the job found it (project-cleanup).
THEOREM LiveProjectsStay == ProjectSpec => LiveProjectStays
<1>1. ProjectInv /\ [ProjectNext]_projectVars =>
        [project = "live" /\ "cleanup" \notin projectOverlap => project' # "gone"]_projectVars
  BY ProjectStepStays
<1> QED BY <1>1, ProjectInductive, PTL DEF ProjectSpec, LiveProjectStays

-----------------------------------------------------------------------------
\* Both components keep their types, whichever a behaviour is about.
THEOREM TimersTyped == Spec => []TypesOK
<1> DEFINE Inv == ProjectInv /\ SessionInv
<1>1. Init => Inv
  BY ProjectInitInv, SessionInitInv DEF Init
<1>2. Inv /\ [Next]_vars => Inv'
  <2>1. [Next]_vars => [ProjectNext]_projectVars /\ [SessionNext]_sessionVars
    BY DEF Next, ProjectStep, SessionStep, vars
  <2> QED BY <2>1, ProjectStepInv, SessionStepInv
<1>3. Inv => TypesOK
  BY DEF ProjectInv, SessionInv, TypesOK
<1> QED BY <1>1, <1>2, <1>3, PTL DEF Spec
=============================================================================
