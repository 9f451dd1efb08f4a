---------------------------- MODULE AgentSession ----------------------------
(***************************************************************************)
(* The sessions of one MCP client in one project (apps/mcp-server          *)
(* agent-session.service.ts, heartbeat.service.ts; ended also by apps/api  *)
(* agent-session.service.ts).  Every call of the client looks for an       *)
(* active session and records a heartbeat; a timer ends the silent ones.   *)
(***************************************************************************)
EXTENDS Requests

CONSTANTS Session,           \* ids; they bound how many there ever are
          HeartbeatTimeout,  \* in ticks of the timer's interval
          MaxRestarts        \* bound: restarts of the MCP server

ASSUME SessionAssumption == HeartbeatTimeout \in Nat \ {0} /\ MaxRestarts \in Nat

VARIABLES sessions,       \* sessions[s]: the row, or NoSession
          silent,         \* what the timer has found and is to mark
          restarts,       \* restarts of the server so far
          sessionCalls,   \* sessionCalls[r]: the request in slot r
          sessionOverlap  \* history: the kinds of requests that overlapped

sessionVars == <<sessions, silent, restarts, sessionCalls, sessionOverlap>>

-----------------------------------------------------------------------------
NoSession == [status |-> "none"]
\* `age`: ticks since the last heartbeat, as far as they matter.
SessionRow == [status : {"ACTIVE", "ENDED", "TIMEOUT"}, age : 0 .. HeartbeatTimeout + 1]
SessionCall == {Idle}
  \cup [op : {"call"}, at : {"create"}]
  \cup [op : {"call"}, at : {"touch", "record"}, session : Session]
  \cup [op : {"end"}, at : {"write"}, session : Session]

\* One type invariant for the component.
SessionTypeOK == /\ sessions \in [Session -> SessionRow \cup {NoSession}]
                 /\ silent \subseteq Session
                 /\ restarts \in 0 .. MaxRestarts
                 /\ sessionCalls \in [Req -> SessionCall]
                 /\ sessionOverlap \subseteq {"create", "mark"}

SessionInit == /\ sessions = [s \in Session |-> NoSession]
               /\ silent = {} /\ restarts = 0
               /\ sessionCalls = [r \in Req |-> Idle]
               /\ sessionOverlap = {}

Begun == {s \in Session : sessions[s] # NoSession}
ActiveSessions == {s \in Begun : sessions[s].status = "ACTIVE"}
Silent(s) == s \in ActiveSessions /\ sessions[s].age > HeartbeatTimeout

SessionAt(r, op, at) == sessionCalls[r].op = op /\ sessionCalls[r].at = at
SessionLeave(r) == sessionCalls' = End(sessionCalls, r)
SessionStart(r, call) == /\ sessionCalls[r] = Idle
                         /\ sessionCalls' = [sessionCalls EXCEPT ![r] = call]
                         /\ UNCHANGED <<sessions, silent, restarts, sessionOverlap>>

\* The row changes although the timer is about to mark it.
Surprise(s) == sessionOverlap' = sessionOverlap \cup {"mark" : t \in silent \cap {s}}

-----------------------------------------------------------------------------
\* Mutant: no session is looked for.
FindSessionNone(r) == SessionStart(r, [op |-> "call", at |-> "create"])

\* getOrCreateSession: an active session of the client, the newest, or none.
FindSession(r) ==
  \/ ActiveSessions = {} /\ SessionStart(r, [op |-> "call", at |-> "create"])
  \/ \E s \in ActiveSessions : SessionStart(r, [op |-> "call", at |-> "touch", session |-> s])

CreateSession(r) ==
  /\ SessionAt(r, "call", "create")
  /\ \E s \in Session \ Begun :
       /\ sessions' = [sessions EXCEPT ![s] = [status |-> "ACTIVE", age |-> 0]]
       /\ sessionCalls' = [sessionCalls EXCEPT ![r] =
                             [op |-> "call", at |-> "record", session |-> s]]
  /\ sessionOverlap' = sessionOverlap \cup
       {"create" : d \in {d \in Req \ {r} : SessionAt(d, "call", "create")}}
  /\ UNCHANGED <<silent, restarts>>

Heartbeat(s) == /\ sessions' = [sessions EXCEPT ![s].age = 0]
                /\ Surprise(s)

\* The heartbeat, and the one of the recordHeartbeat middleware, whatever the
\* row's status is by then.
TouchSession(r) ==
  /\ SessionAt(r, "call", "touch")
  /\ Heartbeat(sessionCalls[r].session)
  /\ sessionCalls' = [sessionCalls EXCEPT ![r].at = "record"]
  /\ UNCHANGED <<silent, restarts>>

RecordHeartbeat(r) ==
  /\ SessionAt(r, "call", "record")
  /\ Heartbeat(sessionCalls[r].session)
  /\ SessionLeave(r)
  /\ UNCHANGED <<silent, restarts>>

\* endSession of the API: for one that has not ended.
EndFind(r) == \E s \in ActiveSessions :
  SessionStart(r, [op |-> "end", at |-> "write", session |-> s])

EndWrite(r) ==
  /\ SessionAt(r, "end", "write")
  /\ sessions' = [sessions EXCEPT ![sessionCalls[r].session].status = "ENDED"]
  /\ Surprise(sessionCalls[r].session)
  /\ SessionLeave(r)
  /\ UNCHANGED <<silent, restarts>>

-----------------------------------------------------------------------------
\* Mutant: whatever has a heartbeat long ago is found, ended or not.
TimerFindAll ==
  /\ silent = {}
  /\ \E s \in Begun : sessions[s].age > HeartbeatTimeout /\ sessions[s].status # "TIMEOUT"
  /\ silent' = {s \in Begun : sessions[s].age > HeartbeatTimeout}
  /\ UNCHANGED <<sessions, restarts, sessionCalls, sessionOverlap>>

\* Mutant: the timer does not run after a restart.
TimerFindOnce == /\ restarts = 0
                 /\ silent = {} /\ \E s \in Session : Silent(s)
                 /\ silent' = {s \in Session : Silent(s)}
                 /\ UNCHANGED <<sessions, restarts, sessionCalls, sessionOverlap>>

\* findTimedOutSessions
TimerFind == /\ silent = {} /\ \E s \in Session : Silent(s)
             /\ silent' = {s \in Session : Silent(s)}
             /\ UNCHANGED <<sessions, restarts, sessionCalls, sessionOverlap>>

\* markAsTimedOut, by id.
TimerMark == /\ silent # {}
             /\ sessions' = [s \in Session |->
                  IF s \in silent THEN [sessions[s] EXCEPT !.status = "TIMEOUT"]
                  ELSE sessions[s]]
             /\ silent' = {}
             /\ UNCHANGED <<restarts, sessionCalls, sessionOverlap>>

\* The server goes down with what is under way; the timer starts with it.
Restart == /\ restarts < MaxRestarts
           /\ restarts' = restarts + 1
           /\ silent' = {}
           /\ sessionCalls' = [r \in Req |-> IF sessionCalls[r].op = "call" THEN Idle
                                             ELSE sessionCalls[r]]
           /\ UNCHANGED <<sessions, sessionOverlap>>

\* An error ends a request.
SessionAbort(r) == /\ sessionCalls[r] # Idle
                   /\ SessionLeave(r)
                   /\ UNCHANGED <<sessions, silent, restarts, sessionOverlap>>

HeartbeatTick ==
  /\ \E s \in Begun : sessions[s].age <= HeartbeatTimeout
  /\ sessions' = [s \in Session |->
       IF s \in Begun /\ sessions[s].age <= HeartbeatTimeout
       THEN [sessions[s] EXCEPT !.age = @ + 1] ELSE sessions[s]]
  /\ UNCHANGED <<silent, restarts, sessionCalls, sessionOverlap>>

SessionHandle(r) ==
  \/ FindSession(r) \/ CreateSession(r) \/ TouchSession(r) \/ RecordHeartbeat(r)
  \/ EndFind(r) \/ EndWrite(r) \/ SessionAbort(r)

SessionNext == \/ \E r \in Req : SessionHandle(r)
               \/ TimerFind \/ TimerMark \/ Restart \/ HeartbeatTick

\* The timer runs every thirty seconds, and its two queries get an answer.
SessionFairness == WF_sessionVars(TimerFind) /\ WF_sessionVars(TimerMark)

SessionSpec == SessionInit /\ [][SessionNext]_sessionVars /\ SessionFairness

-----------------------------------------------------------------------------
\* The timer ends only sessions that are active and silent: unless one was
\* heard of, or ended, after the timer found it.
TimeoutsJustified ==
  [][\A s \in Begun :
       sessions[s].status # "TIMEOUT" /\ sessions'[s].status = "TIMEOUT"
         => Silent(s) \/ "mark" \in sessionOverlap]_sessionVars

\* A client has one active session, unless two of its calls had both found
\* none.
OneActiveSession == "create" \notin sessionOverlap => Cardinality(ActiveSessions) <= 1

\* A session whose client went away does not stay active, across restarts
\* of the server.
SilentSessionsEnd == \A s \in Session : Silent(s) ~> ~Silent(s)

-----------------------------------------------------------------------------
\* Why: a request refers to a session there is; who found none and has not
\* made one still finds none, as another one's would have been an overlap; and
\* what the timer found stays silent, as a sign of life would have been one.
CallsBegun ==
  /\ silent \subseteq Begun
  /\ \A r \in Req : SessionAt(r, "call", "touch") \/ SessionAt(r, "call", "record")
                   \/ sessionCalls[r].op = "end" => sessionCalls[r].session \in Begun
FoundNone ==
  /\ \A r \in Req : SessionAt(r, "call", "create") => ActiveSessions = {}
  /\ \A s, t \in ActiveSessions : s = t
StillSilent == \A s \in silent : Silent(s)

SessionInv == /\ SessionTypeOK /\ CallsBegun
              /\ "create" \notin sessionOverlap => FoundNone
              /\ "mark" \notin sessionOverlap => StillSilent
=============================================================================
