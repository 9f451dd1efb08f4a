--------------------------- MODULE ResultsProofs ----------------------------
(***************************************************************************)
(* Proofs about what an execution collects.  Execution, for any sets of    *)
(* results, judges and requests: JudgeInv is inductive, and the executor   *)
(* is told what it must be told.  Evidence, for any set of ids, any finite *)
(* set of concurrent requests and any limit: EvidenceInv is inductive;     *)
(* SizedHasFile and OvershootBounded follow from it.                       *)
(***************************************************************************)
EXTENDS MCResults, FiniteSetTheorems, TLAPS

-----------------------------------------------------------------------------
(***************************************************************************)
(* Judging                                                                 *)
(***************************************************************************)

LEMMA VerdictType == ASSUME NEW s PROVE VerdictOf(s) \in Verdict
BY DEF VerdictOf, Verdict

LEMMA JudgeInitInv == JudgeInit => JudgeInv
<1> SUFFICES ASSUME JudgeInit PROVE JudgeInv
  OBVIOUS
<1>1. JudgeTypeOK
  BY DEF JudgeInit, JudgeTypeOK, Status
<1>2. OneUpdatePerSlot
  BY DEF JudgeInit, OneUpdatePerSlot
<1>3. NoticeUnderWay
  BY DEF JudgeInit, NoticeUnderWay
<1> QED BY <1>1, <1>2, <1>3 DEF JudgeInv

\* A call that moves on keeps its slot, and no other call has it.
LEMMA ReplaceKeepsSlots ==
  ASSUME JudgeInv, NEW c \in judgeCalls, NEW d \in JudgeCall, d.req = c.req, Replace(c, d)
  PROVE  judgeCalls' \subseteq JudgeCall /\ OneUpdatePerSlot'
BY DEF JudgeInv, JudgeTypeOK, OneUpdatePerSlot, Replace

\* The same for a call that ends.
LEMMA RemoveKeepsSlots ==
  ASSUME JudgeInv, NEW c \in judgeCalls, judgeCalls' = judgeCalls \ {c}
  PROVE  judgeCalls' \subseteq JudgeCall /\ OneUpdatePerSlot'
BY DEF JudgeInv, JudgeTypeOK, OneUpdatePerSlot

LEMMA JudgeStartInv ==
  ASSUME JudgeInv, NEW q \in Req, NEW j \in Judge, NEW r \in Result, NEW v \in Status,
         UpdateStart(q, j, r, v)
  PROVE  JudgeInv'
<1> DEFINE d == [req |-> q, by |-> j, res |-> r, value |-> v,
                 stmt |-> "update", verdict |-> VerdictOf(status)]
<1>1. d \in JudgeCall
  BY VerdictType DEF JudgeCall
<1>2. judgeCalls' = judgeCalls \cup {d}
  BY DEF UpdateStart
<1> HIDE DEF d
<1>3. d.req = q
  BY DEF d
<1>4. JudgeTypeOK'
  BY <1>1, <1>2 DEF JudgeInv, JudgeTypeOK, UpdateStart
<1>5. OneUpdatePerSlot'
  BY <1>2, <1>3 DEF JudgeInv, OneUpdatePerSlot, UpdateStart
<1>6. NoticeUnderWay'
  BY <1>2 DEF JudgeInv, NoticeUnderWay, UpdateStart, Judged, VerdictOf
<1> QED BY <1>4, <1>5, <1>6 DEF JudgeInv

\* The writer becomes the last one, and has its check before it.
LEMMA JudgeUpdateInv ==
  ASSUME JudgeInv, NEW c \in judgeCalls, UpdateResult(c)
  PROVE  JudgeInv'
<1> DEFINE d == [c EXCEPT !.stmt = "check"]
<1>1. /\ d \in JudgeCall /\ d.stmt = "check"
      /\ d.req = c.req /\ d.by = c.by
  BY DEF JudgeInv, JudgeTypeOK, JudgeCall
<1>2. Replace(c, d)
  BY DEF UpdateResult
<1> HIDE DEF d
<1>3. judgeCalls' \subseteq JudgeCall /\ OneUpdatePerSlot'
  BY <1>1, <1>2, ReplaceKeepsSlots
<1>4. status' \in [Result -> Status] /\ notices' = {}
      /\ last' \in [by : Judge \cup {Executor}, req : Req, dead : BOOLEAN]
  BY DEF JudgeInv, JudgeTypeOK, JudgeCall, UpdateResult
<1>5. d \in judgeCalls' /\ last'.req = d.req /\ last'.by = d.by
  BY <1>1, <1>2 DEF UpdateResult, Replace
<1>6. NoticeUnderWay'
  BY <1>1, <1>5 DEF NoticeUnderWay
<1> QED BY <1>3, <1>4, <1>6 DEF JudgeInv, JudgeTypeOK

\* If the checker wrote last it now sends what holds; if not, another call or
\* a notice sent before still vouches.
LEMMA JudgeCheckInv ==
  ASSUME JudgeInv, NEW c \in judgeCalls, CheckCompletion(c)
  PROVE  JudgeInv'
<1> USE DEF JudgeInv
<1>1. CASE Notifies(c)
  <2> DEFINE d == [c EXCEPT !.stmt = "send", !.verdict = ReadVerdict(c)]
  <2>1. /\ d \in JudgeCall /\ d.stmt = "send" /\ d.verdict = VerdictOf(status)
        /\ d.req = c.req /\ d.by = c.by
    BY VerdictType DEF JudgeTypeOK, JudgeCall, ReadVerdict
  <2>2. Replace(c, d)
    BY <1>1 DEF CheckCompletion
  <2> HIDE DEF d
  <2>3. judgeCalls' \subseteq JudgeCall /\ OneUpdatePerSlot'
    BY <2>1, <2>2, ReplaceKeepsSlots
  <2>4. UNCHANGED <<status, notices, last>>
    BY DEF CheckCompletion
  <2>5. \A e \in judgeCalls : e = c \/ e \in judgeCalls'
    BY <2>2 DEF Replace
  <2>6. d \in judgeCalls'
    BY <2>2 DEF Replace
  <2>7. NoticeUnderWay'
    BY <2>1, <2>4, <2>5, <2>6 DEF NoticeUnderWay, Judged, VerdictOf
  <2> QED BY <2>3, <2>4, <2>7 DEF JudgeTypeOK
<1>2. CASE ~Notifies(c)
  <2>1. judgeCalls' = judgeCalls \ {c} /\ UNCHANGED <<status, notices, last>>
    BY <1>2 DEF CheckCompletion
  <2>2. c.by = Executor \/ ~Judged(status)
    BY <1>2 DEF Notifies
  <2>3. judgeCalls' \subseteq JudgeCall /\ OneUpdatePerSlot'
    BY <2>1, RemoveKeepsSlots
  <2>4. NoticeUnderWay'
    BY <2>1, <2>2 DEF NoticeUnderWay, Judged, VerdictOf
  <2> QED BY <2>1, <2>3, <2>4 DEF JudgeTypeOK
<1> QED BY <1>1, <1>2

\* The verdict a call carried is among the notices once the call is gone.
LEMMA JudgeSendInv ==
  ASSUME JudgeInv, NEW c \in judgeCalls, SendNotification(c)
  PROVE  JudgeInv'
<1> USE DEF JudgeInv
<1>1. /\ judgeCalls' = judgeCalls \ {c} /\ notices' = notices \cup {c.verdict}
      /\ c.stmt = "send" /\ UNCHANGED <<status, last>>
  BY DEF SendNotification
<1>2. judgeCalls' \subseteq JudgeCall /\ OneUpdatePerSlot'
  BY <1>1, RemoveKeepsSlots
<1>3. c.verdict \in Verdict
  BY DEF JudgeTypeOK, JudgeCall
<1>4. NoticeUnderWay'
  BY <1>1 DEF NoticeUnderWay, Judged, VerdictOf
<1> QED BY <1>1, <1>2, <1>3, <1>4 DEF JudgeTypeOK

\* A call that dies before its write vouches for nothing; one that dies after
\* it is the last writer, and marked, or another call vouches.
LEMMA JudgeAbortInv ==
  ASSUME JudgeInv, NEW c \in judgeCalls, JudgeAbort(c)
  PROVE  JudgeInv'
<1> USE DEF JudgeInv
<1>1. judgeCalls' = judgeCalls \ {c} /\ UNCHANGED <<status, notices>>
  BY DEF JudgeAbort
<1>2. judgeCalls' \subseteq JudgeCall /\ OneUpdatePerSlot'
  BY <1>1, RemoveKeepsSlots
<1>3. /\ last'.by = last.by /\ last'.req = last.req
      /\ last'.dead = (last.dead \/ (c.stmt # "update" /\ c.req = last.req))
      /\ last' \in [by : Judge \cup {Executor}, req : Req, dead : BOOLEAN]
  BY DEF JudgeAbort, JudgeTypeOK
<1>4. NoticeUnderWay'
  BY <1>1, <1>3 DEF NoticeUnderWay, Judged, VerdictOf
<1> QED BY <1>1, <1>2, <1>3, <1>4 DEF JudgeTypeOK

LEMMA JudgeStepInv == JudgeInv /\ [JudgeNext]_judgeVars => JudgeInv'
<1> SUFFICES ASSUME JudgeInv, [JudgeNext]_judgeVars PROVE JudgeInv'
  OBVIOUS
<1>1. CASE \E q \in Req, j \in Judge, r \in Result, v \in Status : UpdateStart(q, j, r, v)
  BY <1>1, JudgeStartInv
<1>2. CASE \E c \in judgeCalls : UpdateResult(c) \/ CheckCompletion(c)
                            \/ SendNotification(c) \/ JudgeAbort(c)
  BY <1>2, JudgeUpdateInv, JudgeCheckInv, JudgeSendInv, JudgeAbortInv
<1>3. CASE UNCHANGED judgeVars
  BY <1>3 DEF judgeVars, JudgeInv, JudgeTypeOK, OneUpdatePerSlot, NoticeUnderWay, Judged, VerdictOf
<1> QED BY <1>1, <1>2, <1>3 DEF JudgeNext

-----------------------------------------------------------------------------
\* Types, one call per slot, and a notice sent or under way once all is
\* judged: in every reachable state of updateExpectedResult.
THEOREM JudgeInductive == JudgeSpec => []JudgeInv
BY JudgeInitInv, JudgeStepInv, PTL DEF JudgeSpec

\* Whatever the executor and the number of concurrent judges, the executor
\* has been told the verdict that holds when all is judged and at rest
\* (checkAndSendCompletionNotification).
THEOREM ExecutorTold == JudgeSpec => []ExecutorIsTold
<1>1. JudgeInv => ExecutorIsTold
  BY DEF JudgeInv, NoticeUnderWay, ExecutorIsTold
<1> QED BY <1>1, JudgeInductive, PTL


-----------------------------------------------------------------------------
(***************************************************************************)
(* Counting: what becomes of Booked.                                       *)
(***************************************************************************)

\* The numbers that Booked adds up are natural numbers.
LEMMA Counts ==
  ASSUME EvidenceTypeOK
  PROVE  /\ IsFiniteSet(rows \ stale) /\ Cardinality(rows \ stale) \in Nat
         /\ IsFiniteSet(Adding) /\ Cardinality(Adding) \in Nat
         /\ Cardinality(Req) \in Nat
         /\ Max \in Nat
<1>1. IsFiniteSet(rows) /\ rows \ stale \in SUBSET rows
  BY DEF EvidenceTypeOK
<1>2. Adding \in SUBSET Req
  BY DEF Adding
<1> QED BY <1>1, <1>2, ReqAssumption, MaxAssumption, FS_Subset, FS_CardinalityType

\* Booked survives a step that makes neither the rows that count nor the
\* requests about to add one more.
LEMMA BookedKept ==
  ASSUME EvidenceTypeOK, Booked, IsFiniteSet(rows'),
         rows' \ stale' \subseteq rows \ stale, Adding' \subseteq Adding
  PROVE  Booked'
<1>1. Cardinality(rows' \ stale') <= Cardinality(rows \ stale)
  BY Counts, FS_Subset
<1>2. Cardinality(Adding') <= Cardinality(Adding)
  BY Counts, FS_Subset
<1>3. Cardinality(rows' \ stale') \in Nat /\ Cardinality(Adding') \in Nat
  BY Counts, FS_Subset, FS_CardinalityType
<1> QED BY <1>1, <1>2, <1>3, Counts DEF Booked

\* Below the limit every request may be about to add a row.
LEMMA BookedAtStart ==
  ASSUME EvidenceTypeOK, Cardinality(rows \ stale) < Max, UNCHANGED <<rows, stale>>
  PROVE  Booked'
<1>1. Adding' \in SUBSET Req
  BY DEF Adding
<1>2. Cardinality(Adding') <= Cardinality(Req) /\ Cardinality(Adding') \in Nat
  BY <1>1, ReqAssumption, FS_Subset, FS_CardinalityType
<1> QED BY <1>2, Counts DEF Booked

\* An insert turns a request about to add a row into a row.
LEMMA BookedAtInsert ==
  ASSUME EvidenceInv, NEW c \in Inserting, calls' = calls \ {c},
         rows' = rows \cup {c.id}, UNCHANGED stale
  PROVE  Booked'
<1> USE DEF EvidenceInv
<1>1. c.req \in Adding
  BY DEF Adding, Inserting, EvidenceTypeOK, EvidenceCall
<1>2. Adding' = Adding \ {c.req}
  BY DEF Adding, Inserting, OneRequestPerSlot
<1>3. c.id \notin rows /\ c.id \notin stale
  BY DEF InsertsFresh, EvidenceTypeOK
<1>4. rows' \ stale' = (rows \ stale) \cup {c.id}
  BY <1>3
<1>5. Cardinality(rows' \ stale') = Cardinality(rows \ stale) + 1
  BY <1>3, <1>4, Counts, FS_AddElement
<1>6. Cardinality(Adding') = Cardinality(Adding) - 1
  BY <1>1, <1>2, Counts, FS_RemoveElement
<1> QED BY <1>5, <1>6, Counts DEF Booked

-----------------------------------------------------------------------------
(***************************************************************************)
(* Calls: what becomes of the parts of EvidenceInv that speak of them.          *)
(***************************************************************************)
\* What Begin, Continue and EndCall do to the calls.
LEMMA BeginCalls ==
  ASSUME EvidenceTypeOK, OneRequestPerSlot, NEW q \in Req, NEW st \in Stmt, NEW e \in Id,
         NEW full \in BOOLEAN, Begin(q, st, e, full)
  PROVE  \E d \in EvidenceCall : /\ d.req = q /\ d.stmt = st /\ d.id = e
                                 /\ calls' = calls \cup {d}
                                 /\ calls' \subseteq EvidenceCall /\ OneRequestPerSlot'
<1> DEFINE d == [req |-> q, stmt |-> st, id |-> e, full |-> full]
<1>1. d \in EvidenceCall /\ d.req = q /\ d.stmt = st /\ d.id = e
  BY DEF EvidenceCall
<1>2. calls' = calls \cup {d} /\ \A c \in calls : c.req # q
  BY DEF Begin, Free
<1> HIDE DEF d
<1> QED BY <1>1, <1>2 DEF EvidenceTypeOK, OneRequestPerSlot

LEMMA ContinueCalls ==
  ASSUME EvidenceTypeOK, OneRequestPerSlot, NEW c \in calls, NEW st \in Stmt,
         NEW full \in BOOLEAN, Continue(c, st, full)
  PROVE  \E d \in EvidenceCall : /\ d.req = c.req /\ d.stmt = st /\ d.id = c.id
                                 /\ calls' = (calls \ {c}) \cup {d}
                                 /\ calls' \subseteq EvidenceCall /\ OneRequestPerSlot'
<1> DEFINE d == [c EXCEPT !.stmt = st, !.full = full]
<1>1. d \in EvidenceCall /\ d.req = c.req /\ d.stmt = st /\ d.id = c.id
  BY DEF EvidenceCall, EvidenceTypeOK
<1>2. calls' = (calls \ {c}) \cup {d}
  BY DEF Continue
<1> HIDE DEF d
<1> QED BY <1>1, <1>2 DEF EvidenceTypeOK, OneRequestPerSlot

LEMMA EndCalls ==
  ASSUME EvidenceTypeOK, OneRequestPerSlot, NEW c \in calls, EndCall(c)
  PROVE  calls' = calls \ {c} /\ calls' \subseteq EvidenceCall /\ OneRequestPerSlot'
BY DEF EvidenceTypeOK, OneRequestPerSlot, EndCall

-----------------------------------------------------------------------------
LEMMA EvidenceInitInv == EvidenceInit => EvidenceInv
<1> SUFFICES ASSUME EvidenceInit PROVE EvidenceInv
  OBVIOUS
<1>1. EvidenceTypeOK
  BY FS_EmptySet DEF EvidenceInit, EvidenceTypeOK
<1>2. Booked
  <2>1. Cardinality(rows \ stale) = 0
    BY FS_EmptySet DEF EvidenceInit
  <2>2. Adding = {}
    BY DEF EvidenceInit, Adding, Inserting
  <2> QED BY <1>1, <2>1, <2>2, FS_EmptySet, Counts, MaxAssumption DEF Booked
<1>3. /\ OneRequestPerSlot /\ InsertsFresh /\ StaleAreRemembered
      /\ StoredBeforeInsert /\ SizeSeen /\ SizedHasFile
  BY DEF EvidenceInit, OneRequestPerSlot, InsertsFresh, Inserting, StaleAreRemembered, Counted,
         StoredBeforeInsert, SizeSeen, SizedHasFile
<1> QED BY <1>1, <1>2, <1>3 DEF EvidenceInv

\* A request that passes the check of the limit.
LEMMA EvidenceStartInv ==
  ASSUME EvidenceInv, NEW q \in Req, NEW e \in Id, NEW full \in BOOLEAN,
         UploadStart(q, e, full) \/ UrlStart(q, e)
  PROVE  EvidenceInv'
<1> USE DEF EvidenceInv
<1>1. /\ UNCHANGED <<rows, sized, old, objects, urls, stale, torn>>
      /\ Fresh(e)
  BY DEF UploadStart, UrlStart
<1>2. PICK d \in EvidenceCall : /\ d.req = q /\ d.id = e /\ d.stmt \in {"store", "insertUrl"}
                                /\ calls' = calls \cup {d}
                                /\ calls' \subseteq EvidenceCall /\ OneRequestPerSlot'
  <2>1. CASE UploadStart(q, e, full)
    BY <2>1, BeginCalls DEF UploadStart, Stmt
  <2>2. CASE UrlStart(q, e)
    <3>1. PICK none \in BOOLEAN : Begin(q, "insertUrl", e, none)
      BY <2>2, Zenon DEF UrlStart
    <3>2. "insertUrl" \in Stmt
      BY DEF Stmt
    <3>3. PICK d \in EvidenceCall : /\ d.req = q /\ d.stmt = "insertUrl" /\ d.id = e
                                    /\ calls' = calls \cup {d}
                                    /\ calls' \subseteq EvidenceCall /\ OneRequestPerSlot'
      BY <3>1, <3>2, BeginCalls
    <3> QED BY <3>3
  <2> QED BY <2>1, <2>2
<1>3. Cardinality(rows \ stale) < Max
  <2>1. CASE UploadAllowed
    <3>1. Cardinality(rows \ stale) <= Cardinality(rows) /\ Cardinality(rows) \in Nat
      BY FS_Subset, FS_CardinalityType DEF EvidenceTypeOK
    <3> QED BY <2>1, <3>1, Counts DEF UploadAllowed
  <2>2. CASE UrlAllowed
    <3>1. rows \ stale \subseteq Counted /\ Counted \in SUBSET rows
      BY DEF StaleAreRemembered, Counted, EvidenceTypeOK
    <3>2. IsFiniteSet(Counted) /\ Cardinality(Counted) \in Nat
      BY <3>1, FS_Subset, FS_CardinalityType DEF EvidenceTypeOK
    <3>3. Cardinality(rows \ stale) <= Cardinality(Counted)
      BY <3>1, <3>2, FS_Subset
    <3> QED BY <2>2, <3>2, <3>3, Counts DEF UrlAllowed
  <2> QED BY <2>1, <2>2 DEF UploadStart, UrlStart
<1>4. Booked'
  BY <1>1, <1>3, BookedAtStart
<1>5. InsertsFresh'
  BY <1>1, <1>2 DEF InsertsFresh, Inserting, Fresh
<1>6. StaleAreRemembered' /\ EvidenceTypeOK'
  BY <1>1, <1>2 DEF StaleAreRemembered, Counted, EvidenceTypeOK
<1>7. StoredBeforeInsert' /\ SizeSeen' /\ SizedHasFile'
  BY <1>1, <1>2 DEF StoredBeforeInsert, SizeSeen, SizedHasFile, BeingDeleted
<1> QED BY <1>2, <1>4, <1>5, <1>6, <1>7

\* A request on an existing row.
LEMMA RowStartInv ==
  ASSUME EvidenceInv, NEW q \in Req, NEW e \in rows, ConfirmStart(q, e) \/ DeleteStart(q, e)
  PROVE  EvidenceInv'
<1> USE DEF EvidenceInv
<1>1. UNCHANGED <<rows, sized, old, objects, urls, stale, torn>>
  BY DEF ConfirmStart, DeleteStart
<1>2. PICK d \in EvidenceCall : /\ d.req = q /\ d.id = e /\ d.stmt \in {"head", "deleteFile"}
                                /\ calls' = calls \cup {d}
                                /\ calls' \subseteq EvidenceCall /\ OneRequestPerSlot'
  <2> e \in Id
    BY DEF EvidenceTypeOK
  <2>1. CASE ConfirmStart(q, e)
    <3>1. PICK none \in BOOLEAN : Begin(q, "head", e, none)
      BY <2>1, Zenon DEF ConfirmStart
    <3>2. "head" \in Stmt
      BY DEF Stmt
    <3>3. PICK d \in EvidenceCall : /\ d.req = q /\ d.stmt = "head" /\ d.id = e
                                    /\ calls' = calls \cup {d}
                                    /\ calls' \subseteq EvidenceCall /\ OneRequestPerSlot'
      BY <3>1, <3>2, BeginCalls
    <3> QED BY <3>3
  <2>2. CASE DeleteStart(q, e)
    <3>1. PICK none \in BOOLEAN : Begin(q, "deleteFile", e, none)
      BY <2>2, Zenon DEF DeleteStart
    <3>2. "deleteFile" \in Stmt
      BY DEF Stmt
    <3>3. PICK d \in EvidenceCall : /\ d.req = q /\ d.stmt = "deleteFile" /\ d.id = e
                                    /\ calls' = calls \cup {d}
                                    /\ calls' \subseteq EvidenceCall /\ OneRequestPerSlot'
      BY <3>1, <3>2, BeginCalls
    <3> QED BY <3>3
  <2> QED BY <2>1, <2>2
<1>3. Booked'
  <2>1. Adding' \subseteq Adding
    BY <1>2 DEF Adding, Inserting
  <2> QED BY <1>1, <2>1, BookedKept DEF EvidenceTypeOK
<1>4. InsertsFresh'
  BY <1>1, <1>2 DEF InsertsFresh, Inserting
<1>5. StaleAreRemembered' /\ EvidenceTypeOK'
  BY <1>1, <1>2 DEF StaleAreRemembered, Counted, EvidenceTypeOK
<1>6. StoredBeforeInsert' /\ SizeSeen' /\ SizedHasFile'
  BY <1>1, <1>2 DEF StoredBeforeInsert, SizeSeen, SizedHasFile, BeingDeleted
<1> QED BY <1>2, <1>3, <1>4, <1>5, <1>6

LEMMA UploadStoreInv ==
  ASSUME EvidenceInv, NEW c \in calls, UploadStore(c)
  PROVE  EvidenceInv'
<1> USE DEF EvidenceInv
<1>1. /\ c.stmt = "store" /\ objects' = objects \cup {c.id}
      /\ UNCHANGED <<rows, sized, old, urls, stale, torn>>
  BY DEF UploadStore
<1>2. c \in EvidenceCall
  BY DEF EvidenceTypeOK
<1>3. PICK d \in EvidenceCall : /\ d.req = c.req /\ d.stmt = "insert" /\ d.id = c.id
                                /\ calls' = (calls \ {c}) \cup {d}
                                /\ calls' \subseteq EvidenceCall /\ OneRequestPerSlot'
  BY <1>2, ContinueCalls DEF UploadStore, Stmt, EvidenceCall
<1>4. Booked'
  <2>1. Adding' \subseteq Adding
    BY <1>1, <1>3 DEF Adding, Inserting
  <2> QED BY <1>1, <2>1, BookedKept DEF EvidenceTypeOK
<1>5. InsertsFresh'
  BY <1>1, <1>3 DEF InsertsFresh, Inserting
<1>6. StaleAreRemembered' /\ EvidenceTypeOK'
  BY <1>1, <1>2, <1>3 DEF StaleAreRemembered, Counted, EvidenceTypeOK, EvidenceCall
<1>7. StoredBeforeInsert' /\ SizeSeen' /\ SizedHasFile'
  BY <1>1, <1>3 DEF StoredBeforeInsert, SizeSeen, SizedHasFile, BeingDeleted
<1> QED BY <1>3, <1>4, <1>5, <1>6, <1>7

\* The row of a request is made: by an upload, or for a URL.
LEMMA InsertInv ==
  ASSUME EvidenceInv, NEW c \in calls, UploadInsert(c) \/ UrlInsert(c)
  PROVE  EvidenceInv'
<1> USE DEF EvidenceInv
<1>1. /\ c \in Inserting
      /\ rows' = rows \cup {c.id}
      /\ sized' = sized \/ (c.stmt = "insert" /\ sized' = sized \cup {c.id})
      /\ urls' = urls \/ (c.stmt # "insert" /\ urls' = urls \cup {c.id})
      /\ UNCHANGED <<old, objects, stale, torn>>
      /\ EndCall(c)
  BY DEF UploadInsert, UrlInsert, Inserting
<1>2. calls' = calls \ {c} /\ calls' \subseteq EvidenceCall /\ OneRequestPerSlot'
  BY <1>1, EndCalls
<1>3. Booked'
  BY <1>1, <1>2, BookedAtInsert
<1>4. c \in EvidenceCall /\ c.id \notin rows /\ \A d \in calls : d.id = c.id => d = c
  BY <1>1 DEF EvidenceTypeOK, InsertsFresh
<1>5. InsertsFresh'
  BY <1>1, <1>2, <1>4 DEF InsertsFresh, Inserting
<1>6. EvidenceTypeOK'
  BY <1>1, <1>2, <1>4, FS_AddElement DEF EvidenceTypeOK, EvidenceCall
<1>7. StaleAreRemembered'
  BY <1>1, <1>4 DEF StaleAreRemembered, Counted, EvidenceTypeOK
<1>8. \A e \in Id : BeingDeleted(e) => BeingDeleted(e)'
  BY <1>1, <1>2 DEF BeingDeleted, Inserting
<1>9. StoredBeforeInsert'
  BY <1>1, <1>2 DEF StoredBeforeInsert
<1>10. SizeSeen'
  <2>1. SUFFICES ASSUME NEW d \in calls', d.stmt = "size"
                 PROVE  d.id \in objects \/ d.id \notin rows' \/ BeingDeleted(d.id)'
    BY <1>1 DEF SizeSeen
  <2>2. d \in calls /\ d.id # c.id /\ d.id \in Id
    BY <1>1, <1>2, <1>4, <2>1 DEF Inserting, EvidenceCall
  <2> QED BY <1>1, <1>8, <2>1, <2>2 DEF SizeSeen
<1>11. SizedHasFile'
  BY <1>1, <1>4, <1>8 DEF SizedHasFile, StoredBeforeInsert, EvidenceTypeOK
<1> QED BY <1>2, <1>3, <1>5, <1>6, <1>7, <1>9, <1>10, <1>11

\* A confirmation sees the file, or ends without it.
LEMMA ConfirmHeadInv ==
  ASSUME EvidenceInv, NEW c \in calls, ConfirmHead(c)
  PROVE  EvidenceInv'
<1> USE DEF EvidenceInv
<1>1. /\ c.stmt = "head"
      /\ UNCHANGED <<rows, sized, old, objects, urls, stale, torn>>
  BY DEF ConfirmHead
<1>2. /\ calls' \subseteq EvidenceCall /\ OneRequestPerSlot'
      /\ \E D \in SUBSET EvidenceCall :
           /\ calls' = (calls \ {c}) \cup D
           /\ \A d \in D : d.req = c.req /\ d.stmt = "size" /\ d.id = c.id /\ d.id \in objects
  <2>1. CASE c.id \in objects
    <3>1. PICK full \in BOOLEAN : Continue(c, "size", full)
      BY <2>1 DEF ConfirmHead
    <3>2. PICK d \in EvidenceCall : /\ d.req = c.req /\ d.stmt = "size" /\ d.id = c.id
                                    /\ calls' = (calls \ {c}) \cup {d}
                                    /\ calls' \subseteq EvidenceCall /\ OneRequestPerSlot'
      BY <3>1, ContinueCalls DEF Stmt
    <3>3. {d} \in SUBSET EvidenceCall
      OBVIOUS
    <3> QED BY <2>1, <3>2, <3>3
  <2>2. CASE c.id \notin objects
    <3>1. calls' = (calls \ {c}) \cup {} /\ calls' \subseteq EvidenceCall /\ OneRequestPerSlot'
      BY <2>2, EndCalls DEF ConfirmHead
    <3>2. {} \in SUBSET EvidenceCall
      OBVIOUS
    <3> QED BY <3>1, <3>2
  <2> QED BY <2>1, <2>2
<1>3. PICK D \in SUBSET EvidenceCall :
        /\ calls' = (calls \ {c}) \cup D
        /\ \A d \in D : d.req = c.req /\ d.stmt = "size" /\ d.id = c.id /\ d.id \in objects
  BY <1>2
<1>4. Booked'
  <2>1. Adding' \subseteq Adding
    BY <1>1, <1>3 DEF Adding, Inserting
  <2> QED BY <1>1, <2>1, BookedKept DEF EvidenceTypeOK
<1>5. InsertsFresh'
  BY <1>1, <1>3 DEF InsertsFresh, Inserting
<1>6. StaleAreRemembered' /\ EvidenceTypeOK'
  BY <1>1, <1>2 DEF StaleAreRemembered, Counted, EvidenceTypeOK
<1>7. StoredBeforeInsert' /\ SizeSeen' /\ SizedHasFile'
  BY <1>1, <1>3 DEF StoredBeforeInsert, SizeSeen, SizedHasFile, BeingDeleted
<1> QED BY <1>2, <1>4, <1>5, <1>6, <1>7

\* The size that was seen is written, if the row is still there.
LEMMA ConfirmUpdateInv ==
  ASSUME EvidenceInv, NEW c \in calls, ConfirmUpdate(c)
  PROVE  EvidenceInv'
<1> USE DEF EvidenceInv
<1>1. /\ c.stmt = "size"
      /\ sized' = IF c.full THEN sized \cup ({c.id} \cap rows) ELSE sized \ {c.id}
      /\ stale' = IF c.full THEN stale ELSE stale \cup ({c.id} \cap old)
      /\ UNCHANGED <<rows, old, objects, urls, torn>>
      /\ EndCall(c)
  BY DEF ConfirmUpdate
<1>2. calls' = calls \ {c} /\ calls' \subseteq EvidenceCall /\ OneRequestPerSlot'
  BY <1>1, EndCalls
<1>3. Booked'
  <2>1. Adding' \subseteq Adding
    BY <1>2 DEF Adding, Inserting
  <2> QED BY <1>1, <2>1, BookedKept DEF EvidenceTypeOK
<1>4. InsertsFresh'
  BY <1>1, <1>2 DEF InsertsFresh, Inserting
<1>5. EvidenceTypeOK'
  BY <1>1, <1>2 DEF EvidenceTypeOK
<1>6. StaleAreRemembered'
  BY <1>1 DEF StaleAreRemembered, Counted
<1>7. StoredBeforeInsert' /\ SizeSeen'
  BY <1>1, <1>2 DEF StoredBeforeInsert, SizeSeen, BeingDeleted
<1>8. SizedHasFile'
  BY <1>1, <1>2 DEF SizeSeen, SizedHasFile, BeingDeleted
<1> QED BY <1>2, <1>3, <1>4, <1>5, <1>6, <1>7, <1>8

\* The file goes; its row is marked by the deletion that goes on.
LEMMA DeleteFileInv ==
  ASSUME EvidenceInv, NEW c \in calls, DeleteFile(c)
  PROVE  EvidenceInv'
<1> USE DEF EvidenceInv
<1>1. /\ c.stmt = "deleteFile" /\ objects' = objects \ {c.id}
      /\ UNCHANGED <<rows, sized, old, urls, stale, torn>>
  BY DEF DeleteFile
<1>2. c \in EvidenceCall
  BY DEF EvidenceTypeOK
<1>3. PICK d \in EvidenceCall : /\ d.req = c.req /\ d.stmt = "deleteRow" /\ d.id = c.id
                                /\ calls' = (calls \ {c}) \cup {d}
                                /\ calls' \subseteq EvidenceCall /\ OneRequestPerSlot'
  BY <1>2, ContinueCalls DEF DeleteFile, Stmt, EvidenceCall
<1>4. Booked'
  <2>1. Adding' \subseteq Adding
    BY <1>1, <1>3 DEF Adding, Inserting
  <2> QED BY <1>1, <2>1, BookedKept DEF EvidenceTypeOK
<1>5. InsertsFresh'
  BY <1>1, <1>3 DEF InsertsFresh, Inserting
<1>6. StaleAreRemembered' /\ EvidenceTypeOK'
  BY <1>1, <1>2, <1>3 DEF StaleAreRemembered, Counted, EvidenceTypeOK
<1>7. StoredBeforeInsert'
  \* No request that is to insert has the id of this one.
  BY <1>1, <1>3 DEF StoredBeforeInsert, InsertsFresh, Inserting
<1>8. SizeSeen' /\ SizedHasFile'
  BY <1>1, <1>3 DEF SizeSeen, SizedHasFile, BeingDeleted
<1> QED BY <1>3, <1>4, <1>5, <1>6, <1>7, <1>8

LEMMA DeleteRowInv ==
  ASSUME EvidenceInv, NEW c \in calls, DeleteRow(c)
  PROVE  EvidenceInv'
<1> USE DEF EvidenceInv
<1>1. /\ c.stmt = "deleteRow"
      /\ rows' = rows \ {c.id} /\ sized' = sized \ {c.id} /\ old' = old \ {c.id}
      /\ stale' = stale \ {c.id} /\ torn' = torn \ {c.id}
      /\ UNCHANGED <<objects, urls>>
      /\ EndCall(c)
  BY DEF DeleteRow
<1>2. calls' = calls \ {c} /\ calls' \subseteq EvidenceCall /\ OneRequestPerSlot'
  BY <1>1, EndCalls
<1>3. IsFiniteSet(rows')
  BY <1>1, FS_RemoveElement DEF EvidenceTypeOK
<1>4. Booked'
  <2>1. Adding' \subseteq Adding
    BY <1>2 DEF Adding, Inserting
  <2> QED BY <1>1, <1>3, <2>1, BookedKept
<1>5. InsertsFresh'
  BY <1>1, <1>2 DEF InsertsFresh, Inserting
<1>6. EvidenceTypeOK'
  BY <1>1, <1>2, <1>3 DEF EvidenceTypeOK
<1>7. StaleAreRemembered'
  BY <1>1 DEF StaleAreRemembered, Counted
<1>8. StoredBeforeInsert' /\ SizeSeen' /\ SizedHasFile'
  BY <1>1, <1>2 DEF StoredBeforeInsert, SizeSeen, SizedHasFile, BeingDeleted
<1> QED BY <1>2, <1>4, <1>5, <1>6, <1>7, <1>8

LEMMA EvidenceAbortInv ==
  ASSUME EvidenceInv, NEW c \in calls, EvidenceAbort(c)
  PROVE  EvidenceInv'
<1> USE DEF EvidenceInv
<1>1. /\ torn' = IF c.stmt = "deleteRow" THEN torn \cup ({c.id} \cap rows) ELSE torn
      /\ UNCHANGED <<rows, sized, old, objects, urls, stale>>
      /\ EndCall(c)
  BY DEF EvidenceAbort
<1>2. calls' = calls \ {c} /\ calls' \subseteq EvidenceCall /\ OneRequestPerSlot'
  BY <1>1, EndCalls
<1>3. Booked'
  <2>1. Adding' \subseteq Adding
    BY <1>2 DEF Adding, Inserting
  <2> QED BY <1>1, <2>1, BookedKept DEF EvidenceTypeOK
<1>4. InsertsFresh'
  BY <1>1, <1>2 DEF InsertsFresh, Inserting
<1>5. StaleAreRemembered' /\ EvidenceTypeOK'
  BY <1>1, <1>2 DEF StaleAreRemembered, Counted, EvidenceTypeOK
<1>6. StoredBeforeInsert'
  BY <1>1, <1>2 DEF StoredBeforeInsert
<1>7. \A e \in rows : BeingDeleted(e) => BeingDeleted(e)'
  BY <1>1, <1>2 DEF BeingDeleted
<1>8. SizeSeen' /\ SizedHasFile'
  BY <1>1, <1>2, <1>7 DEF SizeSeen, SizedHasFile, EvidenceTypeOK
<1> QED BY <1>2, <1>3, <1>4, <1>5, <1>6, <1>8

\* What the client does with a URL, and the clock.
LEMMA ClientInv ==
  ASSUME EvidenceInv, \/ \E e \in urls : Put(e) \/ UrlExpires(e)
                 \/ \E e \in rows : RowAges(e)
  PROVE  EvidenceInv'
<1> USE DEF EvidenceInv
<1>1. /\ objects \subseteq objects' /\ objects' \subseteq Id
      /\ urls' \subseteq urls /\ old \subseteq old' /\ old' \subseteq rows
      /\ stale \subseteq stale' /\ stale' \subseteq old'
      /\ (old' \ sized) \subseteq (old \ sized) \cup stale'
      /\ UNCHANGED <<rows, sized, calls, torn>>
  BY DEF EvidenceTypeOK, Put, UrlExpires, RowAges
<1>2. Booked'
  <2>1. Adding' \subseteq Adding
    BY <1>1 DEF Adding, Inserting
  <2> QED BY <1>1, <2>1, BookedKept DEF EvidenceTypeOK
<1>3. InsertsFresh'
  BY <1>1 DEF InsertsFresh, Inserting
<1>4. EvidenceTypeOK'
  BY <1>1 DEF EvidenceTypeOK
<1>5. StaleAreRemembered'
  BY <1>1 DEF StaleAreRemembered, Counted
<1>6. OneRequestPerSlot' /\ StoredBeforeInsert' /\ SizeSeen' /\ SizedHasFile'
  BY <1>1 DEF OneRequestPerSlot, StoredBeforeInsert, SizeSeen, SizedHasFile, BeingDeleted
<1> QED BY <1>2, <1>3, <1>4, <1>5, <1>6

LEMMA EvidenceStepInv == EvidenceInv /\ [EvidenceNext]_evidenceVars => EvidenceInv'
<1> SUFFICES ASSUME EvidenceInv, [EvidenceNext]_evidenceVars PROVE EvidenceInv'
  OBVIOUS
<1>1. CASE \E q \in Req, e \in Id, full \in BOOLEAN : UploadStart(q, e, full) \/ UrlStart(q, e)
  BY <1>1, EvidenceStartInv
<1>2. CASE \E q \in Req, e \in rows : ConfirmStart(q, e) \/ DeleteStart(q, e)
  BY <1>2, RowStartInv
<1>3. CASE \E c \in calls : \/ UploadStore(c) \/ UploadInsert(c) \/ UrlInsert(c)
                            \/ ConfirmHead(c) \/ ConfirmUpdate(c)
                            \/ DeleteFile(c) \/ DeleteRow(c) \/ EvidenceAbort(c)
  BY <1>3, UploadStoreInv, InsertInv, ConfirmHeadInv, ConfirmUpdateInv, DeleteFileInv,
     DeleteRowInv, EvidenceAbortInv
<1>4. CASE \/ \E e \in urls : Put(e) \/ UrlExpires(e)
           \/ \E e \in rows : RowAges(e)
  BY <1>4, ClientInv
<1>5. CASE UNCHANGED evidenceVars
  <2>1. UNCHANGED <<rows, sized, old, objects, urls, calls, stale, torn>>
    BY <1>5 DEF evidenceVars
  <2>2. Booked'
    BY <2>1 DEF EvidenceInv, Booked, Adding, Inserting
  <2> QED BY <2>1, <2>2 DEF EvidenceInv, EvidenceTypeOK, OneRequestPerSlot, InsertsFresh, Inserting,
          StaleAreRemembered, Counted, StoredBeforeInsert, SizeSeen, SizedHasFile,
          BeingDeleted
<1>6. (\E q \in Req, e \in Id : UrlStart(q, e)) =>
        \E q \in Req, e \in Id, full \in BOOLEAN : UrlStart(q, e)
  OBVIOUS
<1> QED BY <1>1, <1>2, <1>3, <1>4, <1>5, <1>6 DEF EvidenceNext

-----------------------------------------------------------------------------
\* Types, exclusive ids, and the bookkeeping of files and of the limit: in
\* every reachable state of the four evidence operations.
THEOREM EvidenceInductive == EvidenceSpec => []EvidenceInv
BY EvidenceInitInv, EvidenceStepInv, PTL DEF EvidenceSpec

\* Evidence with a size has its file, unless a deletion went past it.
THEOREM FilesKept == EvidenceSpec => []SizedHasFile
<1>1. EvidenceInv => SizedHasFile
  BY DEF EvidenceInv
<1> QED BY <1>1, EvidenceInductive, PTL

\* n requests in flight pass MAX_EVIDENCES_PER_RESULT by at most n - 1 rows
\* that have counted all along.
THEOREM LimitOvershoot == EvidenceSpec => []OvershootBounded
<1>1. EvidenceInv => OvershootBounded
  BY Counts DEF EvidenceInv, Booked, OvershootBounded
<1> QED BY <1>1, EvidenceInductive, PTL

-----------------------------------------------------------------------------
\* Judging and evidence side by side, as the services run: each component
\* stays in its inductive invariant whatever the other does.
THEOREM ResultsCorrect == Spec => []ResultsInv
<1>1. Init => ResultsInv
  BY JudgeInitInv, EvidenceInitInv DEF Init, ResultsInv
<1>2. ResultsInv /\ [Next]_vars => ResultsInv'
  <2>1. [Next]_vars => [JudgeNext]_judgeVars /\ [EvidenceNext]_evidenceVars
    BY DEF Next, JudgeStep, EvidenceStep, vars
  <2> QED BY <2>1, JudgeStepInv, EvidenceStepInv DEF ResultsInv
<1> QED BY <1>1, <1>2, PTL DEF Spec
=============================================================================
