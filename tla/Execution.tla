----------------------------- MODULE Execution ------------------------------
(***************************************************************************)
(* Judging the expected results of one test execution, and the notice its  *)
(* executor gets when nothing is left to judge: updateExpectedResult and   *)
(* checkAndSendCompletionNotification (apps/api/src/services/              *)
(* execution.service.ts).  Steps and preconditions are updated alike but   *)
(* lead to no check, so they are left out; SKIPPED counts like PASS.       *)
(*                                                                         *)
(* An update is several awaited calls: the row is read, written, two       *)
(* events are published, all rows are read again, the project and the      *)
(* preferences are read, and the notice is stored.  Updates of other       *)
(* users run in between.                                                   *)
(***************************************************************************)
EXTENDS Requests

CONSTANTS Result,     \* the expected results of the execution
          Judge,      \* users and agents who judge
          Executor    \* who started the execution (executedByUserId)

VARIABLES
  status,      \* the status of each expected result
  judgeCalls,  \* updates between two awaits
  notices,     \* history: what the notices sent since the last write said
  last         \* history: the update that wrote last

judgeVars == <<status, judgeCalls, notices, last>>

-----------------------------------------------------------------------------
Status == {"PENDING", "PASS", "FAIL"}
Verdict == {"TEST_COMPLETED", "TEST_FAILED"}

\* What the update executes next: the write, the read of all results, or the
\* notice it has decided on.
JudgeCall == [req : Req, by : Judge, res : Result, value : Status,
              stmt : {"update", "check", "send"}, verdict : Verdict]

Judged(s) == \A r \in Result : s[r] # "PENDING"
VerdictOf(s) == IF \E r \in Result : s[r] = "FAIL" THEN "TEST_FAILED" ELSE "TEST_COMPLETED"

Replace(c, d) == judgeCalls' = (judgeCalls \ {c}) \cup {d}

JudgeInit == /\ status = [r \in Result |-> "PENDING"]
             /\ judgeCalls = {}
             /\ notices = {}
             /\ last \in [by : {Executor}, req : Req, dead : {FALSE}]

\* findById and findFirst: neither is used to decide anything later.
UpdateStart(q, j, r, v) ==
  /\ \A c \in judgeCalls : c.req # q
  /\ judgeCalls' = judgeCalls \cup {[req |-> q, by |-> j, res |-> r, value |-> v,
                                       stmt |-> "update", verdict |-> VerdictOf(status)]}
  /\ UNCHANGED <<status, notices, last>>

\* The row is written; the two events are published before the check.
UpdateResult(c) ==
  /\ c.stmt = "update"
  /\ status' = [status EXCEPT ![c.res] = c.value]
  /\ Replace(c, [c EXCEPT !.stmt = "check"])
  /\ notices' = {}
  /\ last' = [by |-> c.by, req |-> c.req, dead |-> FALSE]

\* Mutant: the check trusts that the other results have not changed since the
\* update started (an update inside the loop instead of a new read).
ReadVerdictEarly(c) == c.verdict

\* The verdict of what findMany returns now.
ReadVerdict(c) == VerdictOf(status)

Notifies(c) == c.by # Executor /\ Judged(status)

CheckCompletion(c) ==
  /\ c.stmt = "check"
  /\ IF Notifies(c)
     THEN Replace(c, [c EXCEPT !.stmt = "send", !.verdict = ReadVerdict(c)])
     ELSE judgeCalls' = judgeCalls \ {c}
  /\ UNCHANGED <<status, notices, last>>

\* notificationService.send, for a user who has not switched notices off.
SendNotification(c) ==
  /\ c.stmt = "send"
  /\ notices' = notices \cup {c.verdict}
  /\ judgeCalls' = judgeCalls \ {c}
  /\ UNCHANGED <<status, last>>

\* The process dies, or the database fails: an error after the write is
\* logged and the update answered with success, but there is no retry.
JudgeAbort(c) ==
  /\ judgeCalls' = judgeCalls \ {c}
  /\ last' = [last EXCEPT !.dead = @ \/ (c.stmt # "update" /\ c.req = last.req)]
  /\ UNCHANGED <<status, notices>>

JudgeNext == \/ \E q \in Req, j \in Judge, r \in Result, v \in Status : UpdateStart(q, j, r, v)
             \/ \E c \in judgeCalls : \/ UpdateResult(c) \/ CheckCompletion(c)
                                      \/ SendNotification(c) \/ JudgeAbort(c)

JudgeSpec == JudgeInit /\ [][JudgeNext]_judgeVars

-----------------------------------------------------------------------------
\* Type invariant.
JudgeTypeOK == /\ status \in [Result -> Status]
               /\ judgeCalls \subseteq JudgeCall
               /\ notices \subseteq Verdict
               /\ last \in [by : Judge \cup {Executor}, req : Req, dead : BOOLEAN]

\* When all is judged and no update is in flight, the executor has been told
\* the verdict that holds now, whoever judged what in which order, unless it
\* was the executor who judged last or the last update died before the
\* notice (docs: when no PENDING result is left; not for one's own).
ExecutorIsTold ==
  /\ judgeCalls = {} /\ Judged(status)
  /\ last.by # Executor /\ ~last.dead
  => VerdictOf(status) \in notices

-----------------------------------------------------------------------------
OneUpdatePerSlot == \A c, d \in judgeCalls : c.req = d.req => c = d

\* The update that wrote last has yet to check, is about to send the verdict
\* that holds, or has sent it.
NoticeUnderWay ==
  Judged(status) /\ last.by # Executor /\ ~last.dead =>
    \/ VerdictOf(status) \in notices
    \/ \E c \in judgeCalls : /\ c.req = last.req /\ c.by = last.by
                        /\ \/ c.stmt = "check"
                           \/ c.stmt = "send" /\ c.verdict = VerdictOf(status)

\* The inductive invariant behind ExecutorIsTold.
JudgeInv == JudgeTypeOK /\ OneUpdatePerSlot /\ NoticeUnderWay
=============================================================================
