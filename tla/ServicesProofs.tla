--------------------------- MODULE ServicesProofs ---------------------------
(***************************************************************************)
(* Proofs about what people write and see: reviews of a suite, the history *)
(* of suites and cases, and the windows that show an execution.            *)
(* ReviewInv, HistoryInv and ViewInv are inductive, for any number of      *)
(* reviewers, reviews, comments, fields, entries, windows, rows, edits and *)
(* requests.  And about the composition of all services: a service in      *)
(* MCServices takes only its own steps, so what is proved of each alone    *)
(* holds there.                                                            *)
(***************************************************************************)
EXTENDS MCServices, AccessProofs, LoginProofs

-----------------------------------------------------------------------------
(***************************************************************************)
(* Reviews                                                                 *)
(***************************************************************************)
\* A row is never taken for the absence of one.
LEMMA ReviewsAreThere == NoReview \notin ReviewRow /\ NoReview \notin CommentRow
<1>1. DOMAIN NoReview = {"by"}
  BY DEF NoReview
<1>2. /\ \A row \in ReviewRow : "verdict" \in DOMAIN row
      /\ \A row \in CommentRow : "open" \in DOMAIN row
  BY DEF ReviewRow, CommentRow
<1> QED BY <1>1, <1>2

LEMMA ReviewCallFields ==
  ASSUME ReviewTypeOK, NEW r \in Req
  PROVE  /\ reviewCalls[r].op = "start" => reviewCalls[r].by \in Reviewer
         /\ reviewCalls[r].op \in {"submit", "verdict"} => /\ reviewCalls[r].review \in ReviewId
                                                           /\ reviewCalls[r].verdict \in Verdict
         /\ reviewCalls[r].op = "delete" => reviewCalls[r].review \in ReviewId
         /\ reviewCalls[r].op = "comment" => /\ reviewCalls[r].review \in ReviewId
                                             /\ reviewCalls[r].by \in Reviewer
         /\ reviewCalls[r].op \in {"settle", "reply", "unreply", "uncomment"}
              => reviewCalls[r].comment \in CommentId
         /\ reviewCalls[r].op = "settle" => reviewCalls[r].open \in BOOLEAN
         /\ reviewCalls[r].op \in {"reply", "unreply"} => reviewCalls[r].by \in Reviewer
<1>1. reviewCalls[r] \in ReviewCall
  BY DEF ReviewTypeOK
<1> QED BY <1>1 DEF ReviewCall, Idle

LEMMA ReviewIdle == Idle \in ReviewCall /\ Idle.op = "idle"
BY DEF ReviewCall, Idle

LEMMA ReviewLeaves ==
  ASSUME ReviewTypeOK, NEW r \in Req, ReviewLeave(r)
  PROVE  /\ reviewCalls' \in [Req -> ReviewCall]
         /\ reviewCalls'[r].op = "idle"
         /\ \A d \in Req \ {r} : reviewCalls'[d] = reviewCalls[d]
BY ReviewIdle DEF ReviewTypeOK, ReviewLeave, End

\* A change of a comment that is there.
LEMMA CommentChanges ==
  ASSUME ReviewTypeOK, NEW r \in Req, ThreadWrite(r)
  PROVE  comments' \in [CommentId -> CommentRow \cup {NoReview}]
<1> DEFINE q == reviewCalls[r]
           row == comments[q.comment]
           new == CASE q.op = "settle" -> [row EXCEPT !.open = q.open]
                    [] q.op = "reply" -> [row EXCEPT !.replies = @ \cup {q.by}]
                    [] q.op = "unreply" -> [row EXCEPT !.replies = @ \ {q.by}]
                    [] q.op = "uncomment" -> NoReview
<1>1. /\ q.op \in {"settle", "reply", "unreply", "uncomment"} /\ q.comment \in CommentId
      /\ q.op = "settle" => q.open \in BOOLEAN
      /\ q.op \in {"reply", "unreply"} => q.by \in Reviewer
  BY ReviewCallFields DEF ThreadWrite
<1>2. comments' = IF ~Commented(q.comment) THEN comments ELSE [comments EXCEPT ![q.comment] = new]
  BY DEF ThreadWrite
<1>3. CASE Commented(q.comment)
  <2>1. row \in [by : Reviewer, on : ReviewId, open : BOOLEAN, replies : SUBSET Reviewer]
    BY <1>1, <1>3 DEF ReviewTypeOK, Commented, CommentRow
  <2>2. new \in CommentRow \cup {NoReview}
    <3>1. CASE q.op = "settle"
      <4>1. new = [row EXCEPT !.open = q.open]
        BY <3>1
      <4> QED BY <1>1, <2>1, <3>1, <4>1 DEF CommentRow
    <3>2. CASE q.op = "reply"
      <4>1. new = [row EXCEPT !.replies = row.replies \cup {q.by}]
        BY <2>1, <3>2
      <4> QED BY <1>1, <2>1, <3>2, <4>1 DEF CommentRow
    <3>3. CASE q.op = "unreply"
      <4>1. new = [row EXCEPT !.replies = row.replies \ {q.by}]
        BY <2>1, <3>3
      <4> QED BY <1>1, <2>1, <3>3, <4>1 DEF CommentRow
    <3>4. CASE q.op = "uncomment"
      BY <3>4
    <3> QED BY <1>1, <3>1, <3>2, <3>3, <3>4
  <2> HIDE DEF new
  <2> QED BY <1>2, <1>3, <2>2 DEF ReviewTypeOK
<1>4. CASE ~Commented(q.comment)
  BY <1>2, <1>4 DEF ReviewTypeOK
<1> QED BY <1>3, <1>4

\* Rows and requests when no review is written.
LEMMA ReviewsUnwrittenInv ==
  ASSUME ReviewInv, NEW r \in Req, UNCHANGED <<reviews, reviewOverlap>>,
         comments' \in [CommentId -> CommentRow \cup {NoReview}],
         reviewCalls' \in [Req -> ReviewCall], \A d \in Req \ {r} : reviewCalls'[d] = reviewCalls[d],
         reviewCalls'[r].op = "delete" => Draft(reviewCalls'[r].review)
  PROVE  ReviewInv' /\ \A v \in ReviewId : Submitted(v)' = Submitted(v)
<1>1. ReviewTypeOK'
  BY DEF ReviewInv, ReviewTypeOK
<1>2. \A v : Submitted(v)' = Submitted(v)
  BY DEF Submitted, There, Draft
<1>3. ASSUME DraftsDeleted PROVE DraftsDeleted'
  <2> SUFFICES ASSUME NEW d \in Req, reviewCalls'[d].op = "delete"
               PROVE  ~(There(reviewCalls[d].review)' /\ ~Draft(reviewCalls[d].review)')
    BY DEF DraftsDeleted, ReviewAt, Submitted
  <2>1. CASE d = r
    BY <2>1 DEF There, Draft
  <2>2. CASE d # r
    BY <1>3, <2>2 DEF DraftsDeleted, ReviewAt, Submitted, There, Draft
  <2> QED BY <2>1, <2>2
<1> QED BY <1>1, <1>2, <1>3 DEF ReviewInv

LEMMA ReviewReadInv ==
  ASSUME ReviewInv, NEW r \in Req,
         \/ ReviewRequest(r) \/ DeleteRequest(r) \/ CommentWrite(r) \/ ThreadWrite(r) \/ ReviewAbort(r)
  PROVE  ReviewInv' /\ \A v \in ReviewId : Submitted(v)' = Submitted(v)
<1>1. ReviewTypeOK
  BY DEF ReviewInv
<1>2. CASE ReviewRequest(r) \/ DeleteRequest(r)
  <2>1. /\ UNCHANGED <<reviews, comments, reviewOverlap>>
        /\ \E call \in ReviewCall : /\ reviewCalls' = [reviewCalls EXCEPT ![r] = call]
                                    /\ call.op = "delete" => Draft(call.review)
    <3>1. ASSUME NEW p \in Reviewer, ReviewEnter(r, [op |-> "start", at |-> "write", by |-> p])
          PROVE  \E call \in ReviewCall : /\ reviewCalls' = [reviewCalls EXCEPT ![r] = call]
                                          /\ call.op # "delete"
      <4>1. [op |-> "start", at |-> "write", by |-> p] \in ReviewCall
        BY DEF ReviewCall
      <4> QED BY <3>1, <4>1 DEF ReviewEnter
    <3>2. ASSUME NEW v \in ReviewId, NEW g \in Verdict, NEW op \in {"submit", "verdict"},
                 ReviewEnter(r, [op |-> op, at |-> "write", review |-> v, verdict |-> g])
          PROVE  \E call \in ReviewCall : /\ reviewCalls' = [reviewCalls EXCEPT ![r] = call]
                                          /\ call.op # "delete"
      <4>1. [op |-> op, at |-> "write", review |-> v, verdict |-> g] \in ReviewCall
        BY DEF ReviewCall
      <4> QED BY <3>2, <4>1 DEF ReviewEnter
    <3>3. ASSUME NEW v \in ReviewId, NEW p \in Reviewer,
                 ReviewEnter(r, [op |-> "comment", at |-> "write", review |-> v, by |-> p])
          PROVE  \E call \in ReviewCall : /\ reviewCalls' = [reviewCalls EXCEPT ![r] = call]
                                          /\ call.op # "delete"
      <4>1. [op |-> "comment", at |-> "write", review |-> v, by |-> p] \in ReviewCall
        BY DEF ReviewCall
      <4> QED BY <3>3, <4>1 DEF ReviewEnter
    <3>4. ASSUME NEW c \in CommentId, Commented(c), NEW p, NEW b \in BOOLEAN,
                 \/ ReviewEnter(r, [op |-> "uncomment", at |-> "write", comment |-> c])
                 \/ ReviewEnter(r, [op |-> "settle", at |-> "write", comment |-> c, open |-> b])
                 \/ /\ p \in Reviewer
                    /\ ReviewEnter(r, [op |-> "reply", at |-> "write", comment |-> c, by |-> p])
                 \/ /\ p \in comments[c].replies
                    /\ ReviewEnter(r, [op |-> "unreply", at |-> "write", comment |-> c, by |-> p])
          PROVE  \E call \in ReviewCall : /\ reviewCalls' = [reviewCalls EXCEPT ![r] = call]
                                          /\ call.op # "delete"
      <4>1. comments[c].replies \subseteq Reviewer
        BY <1>1, <3>4 DEF ReviewTypeOK, Commented, CommentRow
      <4>2. /\ [op |-> "uncomment", at |-> "write", comment |-> c] \in ReviewCall
            /\ [op |-> "settle", at |-> "write", comment |-> c, open |-> b] \in ReviewCall
            /\ p \in Reviewer =>
                 /\ [op |-> "reply", at |-> "write", comment |-> c, by |-> p] \in ReviewCall
                 /\ [op |-> "unreply", at |-> "write", comment |-> c, by |-> p] \in ReviewCall
        BY DEF ReviewCall
      <4>3. PICK call \in ReviewCall : call.op # "delete" /\ ReviewEnter(r, call)
        BY <3>4, <4>1, <4>2
      <4> QED BY <4>3 DEF ReviewEnter
    <3>5. ASSUME NEW v \in ReviewId, Draft(v),
                 ReviewEnter(r, [op |-> "delete", at |-> "write", review |-> v])
          PROVE  \E call \in ReviewCall : /\ reviewCalls' = [reviewCalls EXCEPT ![r] = call]
                                          /\ Draft(call.review)
      <4>1. [op |-> "delete", at |-> "write", review |-> v] \in ReviewCall
        BY DEF ReviewCall
      <4> QED BY <3>5, <4>1 DEF ReviewEnter
    <3>6. UNCHANGED <<reviews, comments, reviewOverlap>>
      BY <1>2 DEF ReviewRequest, DeleteRequest, ReviewEnter
    <3>7. CASE DeleteRequest(r)
      BY <3>5, <3>6, <3>7 DEF DeleteRequest
    <3>8. CASE ReviewRequest(r)
      <4>1. \E call \in ReviewCall : /\ reviewCalls' = [reviewCalls EXCEPT ![r] = call]
                                     /\ call.op # "delete"
        <5>1. CASE \E c \in CommentId :
                     /\ Commented(c)
                     /\ \/ ReviewEnter(r, [op |-> "uncomment", at |-> "write", comment |-> c])
                        \/ \E b \in BOOLEAN :
                             ReviewEnter(r, [op |-> "settle", at |-> "write", comment |-> c, open |-> b])
                        \/ \E p \in Reviewer :
                             ReviewEnter(r, [op |-> "reply", at |-> "write", comment |-> c, by |-> p])
                        \/ \E p \in comments[c].replies :
                             ReviewEnter(r, [op |-> "unreply", at |-> "write", comment |-> c, by |-> p])
          BY <3>4, <5>1
        <5> QED BY <3>1, <3>2, <3>3, <3>8, <5>1 DEF ReviewRequest
      <4> QED BY <3>6, <4>1
    <3> QED BY <1>2, <3>7, <3>8
  <2>2. comments' \in [CommentId -> CommentRow \cup {NoReview}]
    BY <1>1, <2>1 DEF ReviewTypeOK
  <2>3. /\ reviewCalls' \in [Req -> ReviewCall] /\ \A d \in Req \ {r} : reviewCalls'[d] = reviewCalls[d]
        /\ reviewCalls'[r].op = "delete" => Draft(reviewCalls'[r].review)
    BY <1>1, <2>1 DEF ReviewTypeOK
  <2> QED BY <2>1, <2>2, <2>3, ReviewsUnwrittenInv
<1>3. CASE CommentWrite(r) \/ ThreadWrite(r) \/ ReviewAbort(r)
  <2>1. ReviewLeave(r) /\ UNCHANGED <<reviews, reviewOverlap>>
    BY <1>3 DEF CommentWrite, ThreadWrite, ReviewAbort
  <2>2. comments' \in [CommentId -> CommentRow \cup {NoReview}]
    <3>1. CASE CommentWrite(r)
      <4>1. reviewCalls[r].by \in Reviewer /\ reviewCalls[r].review \in ReviewId
        BY <1>1, <3>1, ReviewCallFields DEF CommentWrite, ReviewAt
      <4>2. [by |-> reviewCalls[r].by, on |-> reviewCalls[r].review, open |-> TRUE, replies |-> {}]
              \in CommentRow
        BY <4>1 DEF CommentRow
      <4> QED BY <1>1, <3>1, <4>2 DEF CommentWrite, ReviewTypeOK
    <3>2. CASE ThreadWrite(r)
      BY <1>1, <3>2, CommentChanges
    <3>3. CASE ReviewAbort(r)
      BY <1>1, <3>3 DEF ReviewAbort, ReviewTypeOK
    <3> QED BY <1>3, <3>1, <3>2, <3>3
  <2>3. /\ reviewCalls' \in [Req -> ReviewCall] /\ reviewCalls'[r].op = "idle"
        /\ \A d \in Req \ {r} : reviewCalls'[d] = reviewCalls[d]
    BY <1>1, <2>1, ReviewLeaves
  <2> QED BY <2>1, <2>2, <2>3, ReviewsUnwrittenInv
<1> QED BY <1>2, <1>3

\* A review is written.  None that is submitted is lost, and one that becomes
\* submitted was not being deleted, or the two overlap.
LEMMA ReviewWriteInv ==
  ASSUME ReviewInv, NEW r \in Req, StartWrite(r) \/ VerdictWrite(r) \/ DeleteReview(r)
  PROVE  /\ ReviewInv'
         /\ "delete" \notin reviewOverlap => \A v \in ReviewId : Submitted(v) => Submitted(v)'
<1>1. ReviewTypeOK
  BY DEF ReviewInv
<1>2. /\ reviewCalls' \in [Req -> ReviewCall] /\ reviewCalls'[r].op = "idle"
      /\ \A d \in Req \ {r} : reviewCalls'[d] = reviewCalls[d]
  <2>1. ReviewLeave(r)
    BY DEF StartWrite, VerdictWrite, DeleteReview
  <2> QED BY <1>1, <2>1, ReviewLeaves
<1>3. CASE StartWrite(r)
  <2>1. PICK v \in ReviewId : /\ NewReview(v)
          /\ reviews' = [reviews EXCEPT ![v] = [by |-> reviewCalls[r].by, verdict |-> "DRAFT"]]
    BY <1>3 DEF StartWrite
  <2>2. reviewCalls[r].by \in Reviewer
    BY <1>1, <1>3, ReviewCallFields DEF StartWrite, ReviewAt
  <2>3. /\ reviewOverlap \subseteq reviewOverlap' /\ reviewOverlap' \subseteq reviewOverlap \cup {"start"}
        /\ comments' = comments
    BY <1>3 DEF StartWrite
  <2>4. [by |-> reviewCalls[r].by, verdict |-> "DRAFT"] \in ReviewRow
    BY <2>2 DEF ReviewRow
  <2>5. /\ reviews' \in [ReviewId -> ReviewRow \cup {NoReview}] /\ reviews'[v].verdict = "DRAFT"
        /\ \A u \in ReviewId \ {v} : reviews'[u] = reviews[u]
    BY <1>1, <2>1, <2>4 DEF ReviewTypeOK
  <2>6. ReviewTypeOK'
    BY <1>1, <1>2, <2>3, <2>5 DEF ReviewTypeOK
  <2>7. \A u \in ReviewId : Submitted(u)' = Submitted(u)
    BY <2>1, <2>5 DEF Submitted, There, Draft, NewReview
  <2>8. DraftsDeleted => DraftsDeleted'
    <3> SUFFICES ASSUME DraftsDeleted, NEW d \in Req, reviewCalls'[d].op = "delete"
                 PROVE  ~Submitted(reviewCalls[d].review)'
      BY DEF DraftsDeleted, ReviewAt
    <3>1. /\ reviewCalls'[d] = reviewCalls[d] /\ reviewCalls[d].review \in ReviewId
          /\ ~Submitted(reviewCalls[d].review)
      BY <1>1, <1>2, ReviewCallFields DEF DraftsDeleted, ReviewAt
    <3> QED BY <2>1, <2>5, <3>1 DEF Submitted, There, Draft, NewReview
  <2> QED BY <2>3, <2>6, <2>7, <2>8 DEF ReviewInv
<1>4. CASE VerdictWrite(r)
  <2> DEFINE v == reviewCalls[r].review
             row == [reviews[v] EXCEPT !.verdict = reviewCalls[r].verdict]
  <2>1. v \in ReviewId /\ reviewCalls[r].verdict \in Verdict /\ comments' = comments
    BY <1>1, <1>4, ReviewCallFields DEF VerdictWrite, ReviewAt
  <2>2. CASE There(v)
    <3>1. row \in ReviewRow /\ row.verdict \in Verdict
      BY <1>1, <2>1, <2>2 DEF ReviewTypeOK, There, ReviewRow
    <3>2. reviews' = [reviews EXCEPT ![v] = row]
      BY <1>4, <2>2 DEF VerdictWrite
    <3>3. reviewOverlap' = reviewOverlap \cup
            {"delete" : d \in {d \in Req : ReviewAt(d, "delete") /\ reviewCalls[d].review = v}}
      BY <1>4, <2>2 DEF VerdictWrite
    <3> HIDE DEF row
    <3>4. /\ reviews' \in [ReviewId -> ReviewRow \cup {NoReview}] /\ reviews'[v] = row
          /\ \A u \in ReviewId \ {v} : reviews'[u] = reviews[u]
      BY <1>1, <2>1, <3>1, <3>2 DEF ReviewTypeOK
    <3>5. ReviewTypeOK'
      BY <1>1, <1>2, <2>1, <3>3, <3>4 DEF ReviewTypeOK
    <3>6. \A u \in ReviewId : Submitted(u) => Submitted(u)'
      BY <3>1, <3>4, ReviewsAreThere DEF Submitted, There, Draft, Verdict
    <3>7. ASSUME "delete" \notin reviewOverlap' PROVE DraftsDeleted'
      <4> SUFFICES ASSUME NEW d \in Req, reviewCalls'[d].op = "delete"
                   PROVE  ~Submitted(reviewCalls[d].review)'
        BY DEF DraftsDeleted, ReviewAt
      <4>1. reviewCalls'[d] = reviewCalls[d] /\ reviewCalls[d].review \in ReviewId
        BY <1>1, <1>2, ReviewCallFields
      <4>2. reviewCalls[d].review # v
        BY <3>3, <3>7, <4>1 DEF ReviewAt
      <4>3. ~Submitted(reviewCalls[d].review)
        BY <3>3, <3>7, <4>1 DEF ReviewInv, DraftsDeleted, ReviewAt
      <4> QED BY <3>4, <4>1, <4>2, <4>3 DEF Submitted, There, Draft
    <3> QED BY <3>5, <3>6, <3>7 DEF ReviewInv
  <2>3. CASE ~There(v)
    <3>1. UNCHANGED <<reviews, reviewOverlap>>
      BY <1>4, <2>3 DEF VerdictWrite
    <3> QED BY <1>1, <1>2, <2>1, <3>1, ReviewsUnwrittenInv DEF ReviewTypeOK
  <2> QED BY <2>2, <2>3
<1>5. CASE DeleteReview(r)
  <2> DEFINE v == reviewCalls[r].review
  <2>1. v \in ReviewId /\ reviewOverlap' = reviewOverlap
    BY <1>1, <1>5, ReviewCallFields DEF DeleteReview, ReviewAt
  <2>2. /\ reviews' \in [ReviewId -> ReviewRow \cup {NoReview}] /\ reviews'[v] = NoReview
        /\ \A u \in ReviewId \ {v} : reviews'[u] = reviews[u]
    BY <1>1, <1>5, <2>1 DEF DeleteReview, ReviewTypeOK
  <2>3. comments' \in [CommentId -> CommentRow \cup {NoReview}]
    BY <1>1, <1>5 DEF DeleteReview, ReviewTypeOK
  <2>4. ReviewTypeOK'
    BY <1>1, <1>2, <2>1, <2>2, <2>3 DEF ReviewTypeOK
  <2>5. ASSUME "delete" \notin reviewOverlap
        PROVE  /\ DraftsDeleted'
               /\ \A u \in ReviewId : Submitted(u) => Submitted(u)'
    <3>1. DraftsDeleted
      BY <2>5 DEF ReviewInv
    <3>2. ~Submitted(v)
      BY <1>5, <3>1 DEF DraftsDeleted, DeleteReview
    <3>3. ASSUME NEW d \in Req, reviewCalls'[d].op = "delete"
          PROVE  ~Submitted(reviewCalls[d].review)'
      <4>1. /\ reviewCalls'[d] = reviewCalls[d] /\ reviewCalls[d].review \in ReviewId
            /\ ~Submitted(reviewCalls[d].review)
        BY <1>1, <1>2, <3>1, <3>3, ReviewCallFields DEF DraftsDeleted, ReviewAt
      <4> QED BY <2>2, <4>1 DEF Submitted, There, Draft
    <3>4. \A u \in ReviewId : Submitted(u) => Submitted(u)'
      BY <2>2, <3>2 DEF Submitted, There, Draft
    <3> QED BY <3>3, <3>4 DEF DraftsDeleted, ReviewAt
  <2> QED BY <2>1, <2>4, <2>5 DEF ReviewInv
<1> QED BY <1>3, <1>4, <1>5

LEMMA ReviewInitInv == ReviewInit => ReviewInv
<1> SUFFICES ASSUME ReviewInit PROVE ReviewInv
  OBVIOUS
<1>1. ReviewTypeOK /\ \A r \in Req : reviewCalls[r].op = "idle"
  BY ReviewIdle DEF ReviewInit, ReviewTypeOK
<1> QED BY <1>1 DEF ReviewInv, DraftsDeleted, ReviewAt

LEMMA ReviewStepInv ==
  ASSUME ReviewInv, [ReviewNext]_reviewVars
  PROVE  /\ ReviewInv'
         /\ \A v \in ReviewId : Submitted(v) /\ "delete" \notin reviewOverlap => Submitted(v)'
<1>1. CASE UNCHANGED reviewVars
  BY <1>1 DEF reviewVars, ReviewInv, ReviewTypeOK, DraftsDeleted, ReviewAt, Submitted, There, Draft
<1>2. CASE ReviewNext
  BY <1>2, ReviewReadInv, ReviewWriteInv DEF ReviewNext
<1> QED BY <1>1, <1>2

\* The invariant of Review is inductive: what a deletion is about to remove
\* is a draft, or gone.
THEOREM ReviewInductive == ReviewSpec => []ReviewInv
<1>1. ReviewInv /\ [ReviewNext]_reviewVars => ReviewInv'
  BY ReviewStepInv
<1> QED BY <1>1, ReviewInitInv, PTL DEF ReviewSpec

\* For any number of reviewers, reviews and requests: a submitted review stays
\* submitted (ReviewService's delete checks the state and deletes later),
\* unless the deletion had found it a draft.
THEOREM SubmittedReviewsStay == ReviewSpec => SubmittedStays
<1>1. ReviewInv /\ [ReviewNext]_reviewVars =>
        [\A v \in ReviewId : Submitted(v) /\ "delete" \notin reviewOverlap => Submitted(v)']_reviewVars
  BY ReviewStepInv
<1> QED BY <1>1, ReviewInductive, PTL DEF ReviewSpec, SubmittedStays

-----------------------------------------------------------------------------
(***************************************************************************)
(* Histories                                                               *)
(***************************************************************************)
LEMMA ItemFields ==
  ASSUME NEW row \in ItemRow
  PROVE  row.fields \in [Field -> Value] /\ row.deleted \in {"no", "fresh", "over"}
BY DEF ItemRow

LEMMA OverwriteFields ==
  ASSUME NEW row \in ItemRow, NEW sent \in Sent
  PROVE  Overwrite(row, sent) \in [Field -> Value]
<1>1. \A f \in DOMAIN sent : sent[f] \in Value
  BY DEF Sent
<1>2. row.fields \in [Field -> Value]
  BY ItemFields
<1> QED BY <1>1, <1>2 DEF Overwrite

\* What a write makes of a row.
LEMMA BecameFields ==
  ASSUME NEW row \in ItemRow, NEW sent \in Sent
  PROVE  /\ Became("UPDATE", row, sent) \in ItemRow
         /\ Became("UPDATE", row, sent).fields = Overwrite(row, sent)
         /\ Became("UPDATE", row, sent).deleted = row.deleted
         /\ Became("DELETE", row, sent) \in ItemRow
         /\ Became("DELETE", row, sent).fields = row.fields
         /\ Became("DELETE", row, sent).deleted = "fresh"
         /\ Became("RESTORE", row, sent) \in ItemRow
         /\ Became("RESTORE", row, sent).fields = row.fields
         /\ Became("RESTORE", row, sent).deleted = "no"
<1>1. Became("UPDATE", row, sent) = [row EXCEPT !.fields = Overwrite(row, sent)]
  BY DEF Became
<1>2. Became("DELETE", row, sent) = [row EXCEPT !.deleted = "fresh"]
  BY DEF Became
<1>3. Became("RESTORE", row, sent) = [row EXCEPT !.deleted = "no"]
  BY DEF Became
<1>4. Overwrite(row, sent) \in [Field -> Value]
  BY OverwriteFields
<1>5. /\ Became("UPDATE", row, sent) \in ItemRow
      /\ Became("UPDATE", row, sent).fields = Overwrite(row, sent)
      /\ Became("UPDATE", row, sent).deleted = row.deleted
  BY <1>1, <1>4 DEF ItemRow
<1>6. /\ Became("DELETE", row, sent) \in ItemRow
      /\ Became("DELETE", row, sent).fields = row.fields
      /\ Became("DELETE", row, sent).deleted = "fresh"
  BY <1>2 DEF ItemRow
<1>7. /\ Became("RESTORE", row, sent) \in ItemRow
      /\ Became("RESTORE", row, sent).fields = row.fields
      /\ Became("RESTORE", row, sent).deleted = "no"
  BY <1>3 DEF ItemRow
<1> QED BY <1>5, <1>6, <1>7

LEMMA BecameRow ==
  ASSUME NEW op \in {"UPDATE", "DELETE", "RESTORE"}, NEW row \in ItemRow, NEW sent \in Sent
  PROVE  Became(op, row, sent) \in ItemRow
BY BecameFields

\* Rows equal but for the time since their deletion stay so.
LEMMA SameBecome ==
  ASSUME NEW op \in {"UPDATE", "DELETE", "RESTORE"}, NEW a \in ItemRow, NEW b \in ItemRow,
         NEW sent \in Sent, SameRow(a, b)
  PROVE  SameRow(Became(op, a, sent), Became(op, b, sent))
<1>1. a.fields = b.fields
  BY DEF SameRow
<1>2. Overwrite(a, sent) = Overwrite(b, sent)
  BY <1>1 DEF Overwrite
<1> QED BY <1>2, BecameFields DEF SameRow

LEMMA NothingSent == <<>> \in Sent
<1>1. {} \in SUBSET Field /\ <<>> \in [{} -> Value]
  OBVIOUS
<1> QED BY <1>1 DEF Sent

LEMMA FirstRowFields == FirstRow \in ItemRow
<1>1. 0 \in Value
  BY EntriesAssumption DEF Value
<1> QED BY <1>1 DEF FirstRow, ItemRow

LEMMA HistoryCallFields ==
  ASSUME HistoryTypeOK, NEW r \in Req, historyCalls[r] # Idle
  PROVE  /\ historyCalls[r].op \in {"UPDATE", "DELETE", "RESTORE"}
         /\ historyCalls[r].at \in {"write", "commit"} /\ historyCalls[r].item \in Item
         /\ historyCalls[r].before \in ItemRow /\ historyCalls[r].sent \in Sent
<1>1. historyCalls[r] \in [op : {"UPDATE", "DELETE", "RESTORE"}, at : {"write", "commit"},
                           item : Item, before : ItemRow, sent : Sent]
  BY DEF HistoryTypeOK, HistoryCall
<1> QED BY <1>1

LEMMA HistoryIdle == Idle \in HistoryCall /\ \A op \in {"UPDATE", "DELETE", "RESTORE"} : Idle.op # op
BY DEF HistoryCall, Idle

LEMMA HistoryLeaves ==
  ASSUME HistoryTypeOK, NEW r \in Req, HistoryLeave(r)
  PROVE  /\ historyCalls' \in [Req -> HistoryCall] /\ historyCalls'[r] = Idle
         /\ \A d \in Req \ {r} : historyCalls'[d] = historyCalls[d]
BY HistoryIdle DEF HistoryTypeOK, HistoryLeave, End

\* The rows that a history tells of.
LEMMA LeftRow ==
  ASSUME NEW from \in ItemRow, NEW h \in Seq(Entry), NEW n \in 0 .. Len(h)
  PROVE  Left(from, h, n) \in ItemRow
<1>1. CASE n = 0
  BY <1>1 DEF Left
<1>2. CASE n # 0
  <2>1. h[n] \in Entry
    BY <1>2
  <2>2. h[n].kind \in {"UPDATE", "DELETE", "RESTORE"} /\ h[n].before \in ItemRow /\ h[n].after \in Sent
    BY <2>1 DEF Entry
  <2> QED BY <1>2, <2>2, BecameRow DEF Left
<1> QED BY <1>1, <1>2

\* One more entry: what the history told before, it still tells.
LEMMA EntryAppended ==
  ASSUME NEW from \in ItemRow, NEW h \in Seq(Entry), NEW e \in Entry
  PROVE  LET g == Append(h, e)
         IN /\ g \in Seq(Entry) /\ Len(g) = Len(h) + 1
            /\ Left(from, g, Len(g)) = Became(e.kind, e.before, e.after)
            /\ Chained(from, h) /\ SameRow(e.before, Left(from, h, Len(h))) => Chained(from, g)
<1> DEFINE g == Append(h, e)
<1>1. /\ g \in Seq(Entry) /\ Len(g) = Len(h) + 1 /\ Len(h) \in Nat
      /\ \A n \in 1 .. Len(h) : g[n] = h[n]
      /\ g[Len(h) + 1] = e
      /\ DOMAIN g = 1 .. Len(h) + 1 /\ DOMAIN h = 1 .. Len(h)
  OBVIOUS
<1> HIDE DEF g
<1>2. Left(from, g, Len(g)) = Became(e.kind, e.before, e.after)
  BY <1>1 DEF Left
<1>3. \A n \in 0 .. Len(h) : Left(from, g, n) = Left(from, h, n)
  BY <1>1 DEF Left
<1>4. ASSUME Chained(from, h), SameRow(e.before, Left(from, h, Len(h)))
      PROVE  Chained(from, g)
  <2> SUFFICES ASSUME NEW n \in 1 .. Len(h) + 1 PROVE SameRow(g[n].before, Left(from, g, n - 1))
    BY <1>1 DEF Chained
  <2>1. CASE n = Len(h) + 1
    BY <1>1, <1>3, <1>4, <2>1
  <2>2. CASE n \in 1 .. Len(h)
    <3>1. SameRow(h[n].before, Left(from, h, n - 1))
      BY <1>1, <1>4, <2>2 DEF Chained
    <3>2. n - 1 \in 0 .. Len(h)
      BY <1>1, <2>2
    <3> QED BY <1>1, <1>3, <2>2, <3>1, <3>2
  <2> QED BY <1>1, <2>1, <2>2
<1> QED BY <1>1, <1>2, <1>4 DEF g

LEMMA EntryWritten ==
  ASSUME HistoryTypeOK, NEW r \in Req, historyCalls[r] # Idle,
         WriteEntry(r, historyCalls[r].before)
  PROVE  LET c == historyCalls[r]
             from == start[c.item]
             h == entries[c.item]
             g == entries'[c.item]
         IN /\ entries' \in [Item -> Seq(Entry)] /\ made' \in 0 .. MaxEntries /\ start' = start
            /\ \A j \in Item \ {c.item} : entries'[j] = entries[j]
            /\ Left(from, g, Len(g)) = Became(c.op, c.before, c.sent)
            /\ Chained(from, h) /\ SameRow(c.before, Left(from, h, Len(h))) => Chained(from, g)
<1> DEFINE c == historyCalls[r]
           e == [kind |-> c.op, before |-> c.before, after |-> c.sent]
           h == entries[c.item]
           from == start[c.item]
<1>1. c.item \in Item /\ e \in Entry
  BY HistoryCallFields DEF Entry
<1>2. entries' = [entries EXCEPT ![c.item] = Append(h, e)] /\ start' = start
  BY DEF WriteEntry
<1>3. from \in ItemRow /\ h \in Seq(Entry) /\ e.kind = c.op /\ e.before = c.before /\ e.after = c.sent
  BY <1>1 DEF HistoryTypeOK
<1>4. Append(h, e) \in Seq(Entry)
  BY <1>1, <1>3
<1> HIDE DEF e
<1>5. /\ entries' \in [Item -> Seq(Entry)] /\ entries'[c.item] = Append(h, e)
      /\ \A j \in Item \ {c.item} : entries'[j] = entries[j]
  BY <1>1, <1>2, <1>4 DEF HistoryTypeOK
<1>6. made' \in 0 .. MaxEntries
  BY EntriesAssumption DEF WriteEntry, HistoryTypeOK
<1> HIDE DEF from, h
<1>7. /\ Left(from, Append(h, e), Len(Append(h, e))) = Became(c.op, c.before, c.sent)
      /\ Chained(from, h) /\ SameRow(c.before, Left(from, h, Len(h)))
           => Chained(from, Append(h, e))
  BY <1>1, <1>3, EntryAppended
<1> QED BY <1>2, <1>5, <1>6, <1>7 DEF from, h

\* What no step touches is told as before.
LEMMA ToldElsewhere ==
  ASSUME HistoryInv, NEW j \in Item, j \notin historyOverlap,
         entries'[j] = entries[j], start'[j] = start[j], items'[j] = items[j],
         \A d \in Req : \/ historyCalls'[d] = historyCalls[d]
                        \/ /\ historyCalls[d] = Idle \/ historyCalls[d].item # j
                           /\ historyCalls'[d] = Idle \/ historyCalls'[d].item # j
  PROVE  ToldSoFar(j)'
<1>1. HistoryTypeOK /\ CommitsRestoreCases /\ ToldSoFar(j)
  BY DEF HistoryInv
<1>2. Chained(start[j], entries[j])' = Chained(start[j], entries[j]) /\ Told(j)' = Told(j)
  BY DEF Told
<1>3. ASSUME NEW d \in Req, HistoryAt(d, "RESTORE", "commit"), historyCalls[d].item = j
      PROVE  HistoryAt(d, "RESTORE", "commit")' /\ historyCalls'[d].item = j
  <2>1. historyCalls[d] # Idle
    BY <1>3, HistoryIdle DEF HistoryAt
  <2> QED BY <1>3, <2>1 DEF HistoryAt
<1>4. ASSUME NEW d \in Req, historyCalls'[d] # Idle, historyCalls'[d].item = j
      PROVE  IF historyCalls'[d].at = "write" THEN SameRow(historyCalls'[d].before, items'[j])
             ELSE HalfRestored(d)'
  <2>1. /\ historyCalls'[d] = historyCalls[d]
        /\ IF historyCalls[d].at = "write" THEN SameRow(historyCalls[d].before, items[j])
           ELSE HalfRestored(d)
    BY <1>1, <1>4 DEF ToldSoFar
  <2>2. historyCalls[d].at # "write" => j = "case"
    BY <1>1, <1>4, <2>1, HistoryCallFields DEF CommitsRestoreCases
  <2> QED BY <2>1, <2>2 DEF HalfRestored
<1> QED BY <1>1, <1>2, <1>3, <1>4 DEF ToldSoFar

\* A request finds its row.
LEMMA HistoryStarts ==
  ASSUME HistoryInv, NEW r \in Req, NEW op \in {"UPDATE", "DELETE", "RESTORE"}, NEW i \in Item,
         NEW sent \in Sent, HistoryStart(r, op, i, sent)
  PROVE  HistoryInv'
<1> DEFINE call == [op |-> op, at |-> "write", item |-> i, before |-> items[i], sent |-> sent]
<1>1. HistoryTypeOK /\ CommitsRestoreCases
  BY DEF HistoryInv
<1>2. /\ historyCalls[r] = Idle /\ UNCHANGED <<items, entries, made, start, historyOverlap>>
      /\ historyCalls' = [historyCalls EXCEPT ![r] = call]
  BY DEF HistoryStart, ofEntries
<1>3. call \in HistoryCall /\ call.at = "write" /\ call.item = i /\ call.before = items[i]
  BY <1>1 DEF HistoryTypeOK, HistoryCall
<1> HIDE DEF call
<1>4. /\ historyCalls' \in [Req -> HistoryCall] /\ historyCalls'[r] = call
      /\ \A d \in Req \ {r} : historyCalls'[d] = historyCalls[d]
  BY <1>1, <1>2, <1>3 DEF HistoryTypeOK
<1>5. HistoryTypeOK'
  BY <1>1, <1>2, <1>4 DEF HistoryTypeOK
<1>6. CommitsRestoreCases'
  BY <1>1, <1>3, <1>4 DEF CommitsRestoreCases
<1>7. ASSUME NEW j \in Item, j \notin historyOverlap PROVE ToldSoFar(j)'
  <2>1. CASE j # i
    BY <1>2, <1>3, <1>4, <1>7, <2>1, ToldElsewhere
  <2>2. CASE j = i
    <3>1. ToldSoFar(i)
      BY <1>7, <2>2 DEF HistoryInv
    <3>2. Chained(start[i], entries[i])' = Chained(start[i], entries[i]) /\ Told(i)' = Told(i)
      BY <1>2 DEF Told
    <3>3. ASSUME NEW d \in Req, HistoryAt(d, "RESTORE", "commit")
          PROVE  historyCalls'[d] = historyCalls[d]
      BY <1>2, <1>4, <3>3, HistoryIdle DEF HistoryAt
    <3>4. ASSUME NEW d \in Req, historyCalls'[d] # Idle, historyCalls'[d].item = i
          PROVE  IF historyCalls'[d].at = "write" THEN SameRow(historyCalls'[d].before, items'[i])
                 ELSE HalfRestored(d)'
      <4>1. CASE d = r
        BY <1>2, <1>3, <1>4, <4>1 DEF SameRow
      <4>2. CASE d # r
        BY <1>2, <1>4, <3>1, <3>4, <4>2 DEF ToldSoFar, HalfRestored
      <4> QED BY <4>1, <4>2
    <3> QED BY <2>2, <3>1, <3>2, <3>3, <3>4 DEF ToldSoFar, HistoryAt
  <2> QED BY <2>1, <2>2
<1> QED BY <1>2, <1>5, <1>6, <1>7 DEF HistoryInv

LEMMA HistoryFindInv ==
  ASSUME HistoryInv, NEW r \in Req, UpdateItemFind(r) \/ DeleteItemFind(r) \/ RestoreItemFind(r)
  PROVE  HistoryInv'
<1>1. HistoryTypeOK
  BY DEF HistoryInv
<1>2. CASE UpdateItemFind(r)
  <2>1. PICK i \in Item, some \in SUBSET Field : \E new \in SUBSET some :
          HistoryStart(r, "UPDATE", i, [f \in some |-> IF f \in new THEN made + 1
                                                       ELSE items[i].fields[f]])
    BY <1>2 DEF UpdateItemFind
  <2> PICK new \in SUBSET some :
        HistoryStart(r, "UPDATE", i, [f \in some |-> IF f \in new THEN made + 1
                                                     ELSE items[i].fields[f]])
    BY <2>1
  <2> DEFINE sent == [f \in some |-> IF f \in new THEN made + 1 ELSE items[i].fields[f]]
  <2>2. made + 1 \in Value
    BY <1>1, EntriesAssumption DEF HistoryTypeOK, Value
  <2>3. items[i].fields \in [Field -> Value]
    BY <1>1 DEF HistoryTypeOK, ItemRow
  <2>4. sent \in [some -> Value]
    BY <2>2, <2>3
  <2>5. sent \in Sent
    BY <2>4 DEF Sent
  <2> QED BY <2>5, HistoryStarts
<1>3. CASE DeleteItemFind(r) \/ RestoreItemFind(r)
  <2>1. PICK i \in Item, op \in {"DELETE", "RESTORE"} : HistoryStart(r, op, i, <<>>)
    BY <1>3 DEF DeleteItemFind, RestoreItemFind
  <2> QED BY <2>1, NothingSent, HistoryStarts
<1> QED BY <1>2, <1>3

\* What the end of a request that nothing has overlapped says of the others.
LEMMA NotOverlapped ==
  ASSUME HistoryInv, NEW r \in Req, historyCalls[r] # Idle, MarkOverlap(r)
  PROVE  /\ historyOverlap \subseteq historyOverlap' /\ historyOverlap' \subseteq Item
         /\ historyCalls[r].item \notin historyOverlap' =>
              \A d \in Req \ {r} : historyCalls[d] = Idle \/ historyCalls[d].item # historyCalls[r].item
<1>1. HistoryTypeOK
  BY DEF HistoryInv
<1>2. historyCalls[r].item \in Item /\ historyOverlap \subseteq Item
  BY <1>1, HistoryCallFields DEF HistoryTypeOK
<1> QED BY <1>2 DEF MarkOverlap, Overlaps

\* The row is written.
LEMMA RowWritten ==
  ASSUME HistoryTypeOK, NEW r \in Req, historyCalls[r] # Idle, WriteRow(r)
  PROVE  LET c == historyCalls[r]
         IN /\ items' \in [Item -> ItemRow]
            /\ items'[c.item] = Became(c.op, items[c.item], c.sent)
            /\ \A j \in Item \ {c.item} : items'[j] = items[j]
<1> DEFINE c == historyCalls[r]
           row == Became(c.op, items[c.item], c.sent)
<1>1. c.item \in Item /\ items[c.item] \in ItemRow /\ items \in [Item -> ItemRow]
  BY HistoryCallFields DEF HistoryTypeOK
<1>2. row \in ItemRow
  BY <1>1, BecameRow, HistoryCallFields
<1>3. items' = [items EXCEPT ![c.item] = row]
  BY DEF WriteRow
<1> HIDE DEF row
<1>4. items' \in [Item -> ItemRow] /\ items'[c.item] = row /\ \A j \in Item \ {c.item} : items'[j] = items[j]
  BY <1>1, <1>2, <1>3
<1> QED BY <1>4 DEF row

\* A transaction writes the row and the entry.
LEMMA ItemCommitInv ==
  ASSUME HistoryInv, NEW r \in Req, ItemCommit(r)
  PROVE  HistoryInv'
<1> DEFINE c == historyCalls[r]
<1>1. HistoryTypeOK /\ CommitsRestoreCases
  BY DEF HistoryInv
<1>2. /\ historyCalls[r] # Idle /\ historyCalls[r].at = "write" /\ WriteRow(r)
      /\ WriteEntry(r, historyCalls[r].before) /\ MarkOverlap(r) /\ HistoryLeave(r)
  BY DEF ItemCommit
<1>3. PICK i \in Item, op \in {"UPDATE", "DELETE", "RESTORE"}, before \in ItemRow, sent \in Sent :
        c.item = i /\ c.op = op /\ c.before = before /\ c.sent = sent
  BY <1>1, <1>2, HistoryCallFields
<1>4. /\ items' \in [Item -> ItemRow] /\ items'[i] = Became(op, items[i], sent)
      /\ \A j \in Item \ {i} : items'[j] = items[j]
  BY <1>1, <1>2, <1>3, RowWritten
<1>5. /\ entries' \in [Item -> Seq(Entry)] /\ made' \in 0 .. MaxEntries /\ start' = start
      /\ \A j \in Item \ {i} : entries'[j] = entries[j]
      /\ Left(start[i], entries'[i], Len(entries'[i])) = Became(op, before, sent)
      /\ Chained(start[i], entries[i]) /\ SameRow(before, Left(start[i], entries[i], Len(entries[i])))
           => Chained(start[i], entries'[i])
  BY <1>1, <1>2, <1>3, EntryWritten
<1>6. /\ historyCalls' \in [Req -> HistoryCall] /\ historyCalls'[r] = Idle
      /\ \A d \in Req \ {r} : historyCalls'[d] = historyCalls[d]
  BY <1>1, <1>2, HistoryLeaves
<1>7. /\ historyOverlap \subseteq historyOverlap' /\ historyOverlap' \subseteq Item
      /\ i \notin historyOverlap' =>
           \A d \in Req \ {r} : historyCalls[d] = Idle \/ historyCalls[d].item # i
  BY <1>2, <1>3, NotOverlapped
<1>8. HistoryTypeOK' /\ CommitsRestoreCases'
  BY <1>1, <1>4, <1>5, <1>6, <1>7 DEF HistoryTypeOK, CommitsRestoreCases
<1>9. ASSUME NEW j \in Item, j \notin historyOverlap' PROVE ToldSoFar(j)'
  <2>1. CASE j # i
    BY <1>3, <1>4, <1>5, <1>6, <1>7, <1>9, <2>1, ToldElsewhere
  <2>2. CASE j = i
    <3>1. ToldSoFar(i) /\ \A d \in Req \ {r} : historyCalls[d] = Idle \/ historyCalls[d].item # i
      BY <1>7, <1>9, <2>2 DEF HistoryInv
    <3>2. Told(i) /\ SameRow(before, items[i])
      BY <1>2, <1>3, <3>1, HistoryIdle DEF ToldSoFar, HistoryAt
    <3>3. Chained(start[i], entries'[i])
      BY <1>5, <3>1, <3>2 DEF ToldSoFar, Told, SameRow
    <3>4. Told(i)'
      <4>1. SameRow(items[i], before) /\ items[i] \in ItemRow
        BY <1>1, <3>2 DEF SameRow, HistoryTypeOK
      <4>2. SameRow(Became(op, items[i], sent), Became(op, before, sent))
        BY <4>1, SameBecome
      <4>3. Left(start'[i], entries'[i], Len(entries'[i])) = Became(op, before, sent)
        BY <1>5
      <4> QED BY <1>4, <4>2, <4>3 DEF Told
    <3>5. \A d \in Req : historyCalls'[d] = Idle \/ historyCalls'[d].item # i
      BY <1>6, <3>1
    <3> QED BY <1>5, <2>2, <3>3, <3>4, <3>5 DEF ToldSoFar
  <2> QED BY <2>1, <2>2
<1> QED BY <1>5, <1>8, <1>9 DEF HistoryInv

\* The restoring of a case writes the row first.
LEMMA RestoreCaseRowInv ==
  ASSUME HistoryInv, NEW r \in Req, RestoreCaseRow(r)
  PROVE  HistoryInv'
<1> DEFINE c == historyCalls[r]
           call == [c EXCEPT !.at = "commit"]
<1>1. HistoryTypeOK /\ CommitsRestoreCases
  BY DEF HistoryInv
<1>2. /\ historyCalls[r] # Idle /\ c.op = "RESTORE" /\ c.at = "write" /\ c.item = "case"
      /\ WriteRow(r) /\ MarkOverlap(r) /\ UNCHANGED <<entries, made, start>>
      /\ historyCalls' = [historyCalls EXCEPT ![r] = call]
  BY HistoryIdle DEF RestoreCaseRow, HistoryAt, ofEntries
<1>3. PICK before \in ItemRow, sent \in Sent : c.before = before /\ c.sent = sent
  BY <1>1, <1>2, HistoryCallFields
<1>4. /\ items' \in [Item -> ItemRow] /\ items'["case"] = Became("RESTORE", items["case"], sent)
      /\ \A j \in Item \ {"case"} : items'[j] = items[j]
  BY <1>1, <1>2, <1>3, RowWritten
<1>5. /\ historyOverlap \subseteq historyOverlap' /\ historyOverlap' \subseteq Item
      /\ "case" \notin historyOverlap' =>
           \A d \in Req \ {r} : historyCalls[d] = Idle \/ historyCalls[d].item # "case"
  BY <1>2, NotOverlapped
<1>6. /\ call \in HistoryCall /\ call.op = "RESTORE" /\ call.at = "commit" /\ call.item = "case"
      /\ call.before = before
  <2>1. c \in [op : {"UPDATE", "DELETE", "RESTORE"}, at : {"write", "commit"}, item : Item,
               before : ItemRow, sent : Sent]
    BY <1>1, <1>2 DEF HistoryTypeOK, HistoryCall
  <2>2. call \in [op : {"UPDATE", "DELETE", "RESTORE"}, at : {"write", "commit"}, item : Item,
                  before : ItemRow, sent : Sent]
    BY <2>1
  <2> QED BY <1>2, <1>3, <2>1, <2>2 DEF HistoryCall
<1> HIDE DEF call
<1>7. /\ historyCalls' \in [Req -> HistoryCall] /\ historyCalls'[r] = call
      /\ \A d \in Req \ {r} : historyCalls'[d] = historyCalls[d]
  BY <1>1, <1>2, <1>6 DEF HistoryTypeOK
<1>8. HistoryTypeOK' /\ CommitsRestoreCases'
  BY <1>1, <1>2, <1>4, <1>5, <1>6, <1>7 DEF HistoryTypeOK, CommitsRestoreCases
<1>9. ASSUME NEW j \in Item, j \notin historyOverlap' PROVE ToldSoFar(j)'
  <2>1. CASE j # "case"
    BY <1>2, <1>4, <1>5, <1>6, <1>7, <1>9, <2>1, ToldElsewhere
  <2>2. CASE j = "case"
    <3>1. /\ ToldSoFar("case")
          /\ \A d \in Req \ {r} : historyCalls[d] = Idle \/ historyCalls[d].item # "case"
      BY <1>5, <1>9, <2>2 DEF HistoryInv
    <3>2. Told("case") /\ SameRow(before, items["case"]) /\ Chained(start["case"], entries["case"])
      BY <1>2, <1>3, <3>1, HistoryIdle DEF ToldSoFar, HistoryAt
    <3>3. HalfRestored(r)'
      <4>1. SameRow(before, Left(start["case"], entries["case"], Len(entries["case"])))
        BY <3>2 DEF Told, SameRow
      <4>2. items["case"] \in ItemRow /\ "case" \in Item
        BY <1>1 DEF HistoryTypeOK, Item
      <4>3. SameRow(items'["case"], Became("RESTORE", before, <<>>))
        <5>1. /\ items'["case"].fields = items["case"].fields /\ items'["case"].deleted = "no"
          <6>1. PICK row \in ItemRow : row = items["case"]
            BY <4>2
          <6>2. Became("RESTORE", row, sent).fields = row.fields /\ Became("RESTORE", row, sent).deleted = "no"
            BY BecameFields
          <6> QED BY <1>4, <6>1, <6>2
        <5>2. /\ Became("RESTORE", before, <<>>).fields = before.fields
              /\ Became("RESTORE", before, <<>>).deleted = "no"
          BY NothingSent, BecameFields
        <5>3. items["case"].fields = before.fields
          BY <3>2 DEF SameRow
        <5> QED BY <5>1, <5>2, <5>3 DEF SameRow
      <4> QED BY <1>2, <1>6, <1>7, <4>1, <4>3 DEF HalfRestored
    <3>4. \A d \in Req \ {r} : historyCalls'[d] = Idle \/ historyCalls'[d].item # "case"
      BY <1>7, <3>1
    <3> QED BY <1>2, <1>6, <1>7, <2>2, <3>2, <3>3, <3>4 DEF ToldSoFar, HistoryAt
  <2> QED BY <2>1, <2>2
<1> QED BY <1>8, <1>9 DEF HistoryInv

\* ... and then the entry.
LEMMA RestoreCaseCommitInv ==
  ASSUME HistoryInv, NEW r \in Req, RestoreCaseCommit(r)
  PROVE  HistoryInv'
<1> DEFINE c == historyCalls[r]
<1>1. HistoryTypeOK /\ CommitsRestoreCases
  BY DEF HistoryInv
<1>2. /\ historyCalls[r] # Idle /\ c.op = "RESTORE" /\ c.at = "commit" /\ UNCHANGED items
      /\ WriteEntry(r, historyCalls[r].before) /\ MarkOverlap(r) /\ HistoryLeave(r)
  BY HistoryIdle DEF RestoreCaseCommit, HistoryAt
<1>3. c.item = "case" /\ "case" \in Item
  BY <1>1, <1>2 DEF CommitsRestoreCases, Item
<1>4. PICK before \in ItemRow, sent \in Sent : c.before = before /\ c.sent = sent
  BY <1>1, <1>2, HistoryCallFields
<1>5. /\ entries' \in [Item -> Seq(Entry)] /\ made' \in 0 .. MaxEntries /\ start' = start
      /\ \A j \in Item \ {"case"} : entries'[j] = entries[j]
      /\ Left(start["case"], entries'["case"], Len(entries'["case"])) = Became("RESTORE", before, sent)
      /\ Chained(start["case"], entries["case"]) /\ SameRow(before, Left(start["case"], entries["case"], Len(entries["case"])))
           => Chained(start["case"], entries'["case"])
  BY <1>1, <1>2, <1>3, <1>4, EntryWritten
<1>6. /\ historyCalls' \in [Req -> HistoryCall] /\ historyCalls'[r] = Idle
      /\ \A d \in Req \ {r} : historyCalls'[d] = historyCalls[d]
  BY <1>1, <1>2, HistoryLeaves
<1>7. /\ historyOverlap \subseteq historyOverlap' /\ historyOverlap' \subseteq Item
      /\ "case" \notin historyOverlap' =>
           \A d \in Req \ {r} : historyCalls[d] = Idle \/ historyCalls[d].item # "case"
  BY <1>2, <1>3, NotOverlapped
<1>8. HistoryTypeOK' /\ CommitsRestoreCases'
  BY <1>1, <1>2, <1>5, <1>6, <1>7 DEF HistoryTypeOK, CommitsRestoreCases
<1>9. ASSUME NEW j \in Item, j \notin historyOverlap' PROVE ToldSoFar(j)'
  <2>1. CASE j # "case"
    BY <1>2, <1>3, <1>5, <1>6, <1>7, <1>9, <2>1, ToldElsewhere
  <2>2. CASE j = "case"
    <3>1. /\ ToldSoFar("case")
          /\ \A d \in Req \ {r} : historyCalls[d] = Idle \/ historyCalls[d].item # "case"
      BY <1>7, <1>9, <2>2 DEF HistoryInv
    <3>2. HalfRestored(r) /\ Chained(start["case"], entries["case"])
      BY <1>2, <1>3, <3>1 DEF ToldSoFar
    <3>3. Chained(start["case"], entries'["case"])
      BY <1>4, <1>5, <3>2 DEF HalfRestored
    <3>4. Told("case")'
      <4>1. Left(start'["case"], entries'["case"], Len(entries'["case"]))
              = Became("RESTORE", before, sent)
        BY <1>5
      <4>2. SameRow(items'["case"], Became("RESTORE", before, <<>>))
        BY <1>2, <1>4, <3>2 DEF HalfRestored
      <4>3. SameRow(items'["case"], Became("RESTORE", before, sent))
        BY <4>2, BecameFields, NothingSent DEF SameRow
      <4> QED BY <4>1, <4>3 DEF Told
    <3>5. \A d \in Req : historyCalls'[d] = Idle \/ historyCalls'[d].item # "case"
      BY <1>6, <3>1
    <3> QED BY <1>5, <2>2, <3>3, <3>4, <3>5 DEF ToldSoFar
  <2> QED BY <2>1, <2>2
<1> QED BY <1>5, <1>8, <1>9 DEF HistoryInv

\* An error leaves what was written.
LEMMA HistoryAbortInv ==
  ASSUME HistoryInv, NEW r \in Req, HistoryAbort(r)
  PROVE  HistoryInv'
<1>1. HistoryTypeOK /\ CommitsRestoreCases
  BY DEF HistoryInv
<1>2. /\ historyCalls[r] # Idle /\ UNCHANGED <<items, entries, made, start>> /\ HistoryLeave(r)
      /\ historyOverlap \subseteq historyOverlap' /\ historyOverlap' \subseteq historyOverlap \cup {"case"}
      /\ historyCalls[r].at = "commit" => "case" \in historyOverlap'
  BY DEF HistoryAbort, ofEntries
<1>3. /\ historyCalls' \in [Req -> HistoryCall] /\ historyCalls'[r] = Idle
      /\ \A d \in Req \ {r} : historyCalls'[d] = historyCalls[d]
  BY <1>1, <1>2, HistoryLeaves
<1>4. HistoryTypeOK' /\ CommitsRestoreCases'
  BY <1>1, <1>2, <1>3 DEF HistoryTypeOK, CommitsRestoreCases, Item
<1>5. ASSUME NEW j \in Item, j \notin historyOverlap' PROVE ToldSoFar(j)'
  <2>1. ToldSoFar(j)
    BY <1>2, <1>5 DEF HistoryInv
  <2>2. Chained(start[j], entries[j])' = Chained(start[j], entries[j]) /\ Told(j)' = Told(j)
    BY <1>2 DEF Told
  <2>3. ASSUME NEW d \in Req, HistoryAt(d, "RESTORE", "commit"), historyCalls[d].item = j
        PROVE  historyCalls'[d] = historyCalls[d]
    <3>1. historyCalls[d] # Idle
      BY <2>3, HistoryIdle DEF HistoryAt
    <3>2. j = "case"
      BY <1>1, <2>3, <3>1 DEF CommitsRestoreCases, HistoryAt
    <3> QED BY <1>2, <1>3, <1>5, <2>3, <3>2 DEF HistoryAt
  <2>4. ASSUME NEW d \in Req, historyCalls'[d] # Idle, historyCalls'[d].item = j
        PROVE  IF historyCalls'[d].at = "write" THEN SameRow(historyCalls'[d].before, items'[j])
               ELSE HalfRestored(d)'
    BY <1>2, <1>3, <2>1, <2>4 DEF ToldSoFar, HalfRestored
  <2> QED BY <2>1, <2>2, <2>3, <2>4 DEF ToldSoFar, HistoryAt
<1> QED BY <1>4, <1>5 DEF HistoryInv

\* A row deleted for longer is the same row.
LEMMA ThirtyDaysInv ==
  ASSUME HistoryInv, ThirtyDaysPass
  PROVE  HistoryInv'
<1>1. HistoryTypeOK /\ CommitsRestoreCases
  BY DEF HistoryInv
<1>2. PICK i \in Item : /\ items[i].deleted = "fresh"
                        /\ items' = [items EXCEPT ![i].deleted = "over"]
                        /\ UNCHANGED <<entries, made, start, historyCalls, historyOverlap>>
  BY DEF ThirtyDaysPass, ofEntries
<1>3. /\ items' \in [Item -> ItemRow]
      /\ \A j \in Item : /\ items'[j].fields = items[j].fields
                         /\ items'[j].deleted = "no" <=> items[j].deleted = "no"
  BY <1>1, <1>2 DEF HistoryTypeOK, ItemRow
<1>4. HistoryTypeOK' /\ CommitsRestoreCases'
  BY <1>1, <1>2, <1>3 DEF HistoryTypeOK, CommitsRestoreCases
<1>5. ASSUME NEW j \in Item, ToldSoFar(j) PROVE ToldSoFar(j)'
  <2>1. \A row : /\ SameRow(row, items'[j]) <=> SameRow(row, items[j])
                 /\ SameRow(items'[j], row) <=> SameRow(items[j], row)
    BY <1>3 DEF SameRow
  <2>2. Chained(start[j], entries[j])' = Chained(start[j], entries[j]) /\ (Told(j) => Told(j)')
    BY <1>2, <2>1 DEF Told
  <2>3. \A d \in Req : HalfRestored(d) => HalfRestored(d)'
    <3>1. "case" \in Item
      BY DEF Item
    <3> QED BY <1>2, <1>3, <3>1 DEF HalfRestored, SameRow
  <2> QED BY <1>2, <1>5, <2>1, <2>2, <2>3 DEF ToldSoFar, HistoryAt
<1> QED BY <1>2, <1>4, <1>5 DEF HistoryInv

\* What remains of a history begins where what was removed has ended.
LEMMA EntriesRemoved ==
  ASSUME NEW from \in ItemRow, NEW h \in Seq(Entry), NEW n \in DOMAIN h
  PROVE  LET g == SubSeq(h, n + 1, Len(h))
             to == Left(from, h, n)
         IN /\ g \in Seq(Entry) /\ to \in ItemRow
            /\ Left(to, g, Len(g)) = Left(from, h, Len(h))
            /\ Chained(from, h) => Chained(to, g)
<1> DEFINE g == SubSeq(h, n + 1, Len(h))
           to == Left(from, h, n)
<1>1. /\ Len(h) \in Nat /\ n \in 1 .. Len(h) /\ DOMAIN h = 1 .. Len(h)
      /\ g \in Seq(Entry) /\ Len(g) = Len(h) - n /\ DOMAIN g = 1 .. Len(h) - n
      /\ \A k \in 1 .. Len(h) - n : g[k] = h[n + k]
  OBVIOUS
<1>2. to \in ItemRow
  BY <1>1, LeftRow
<1> HIDE DEF g
<1>3. \A k \in 0 .. Len(h) - n : Left(to, g, k) = Left(from, h, n + k)
  <2> TAKE k \in 0 .. Len(h) - n
  <2>1. CASE k = 0
    BY <1>1, <2>1 DEF Left
  <2>2. CASE k # 0
    <3>1. k \in 1 .. Len(h) - n /\ n + k # 0
      BY <1>1, <2>2
    <3> QED BY <1>1, <2>2, <3>1 DEF Left
  <2> QED BY <2>1, <2>2
<1>4. Left(to, g, Len(g)) = Left(from, h, Len(h))
  <2>1. Len(g) \in 0 .. Len(h) - n /\ n + Len(g) = Len(h)
    BY <1>1
  <2> QED BY <1>3, <2>1
<1>5. ASSUME Chained(from, h) PROVE Chained(to, g)
  <2> SUFFICES ASSUME NEW k \in 1 .. Len(h) - n PROVE SameRow(g[k].before, Left(to, g, k - 1))
    BY <1>1 DEF Chained
  <2>1. /\ n + k \in DOMAIN h /\ k - 1 \in 0 .. Len(h) - n
        /\ n + (k - 1) = (n + k) - 1
    BY <1>1
  <2>2. SameRow(h[n + k].before, Left(from, h, (n + k) - 1))
    BY <1>5, <2>1 DEF Chained
  <2> QED BY <1>1, <1>3, <2>1, <2>2
<1> QED BY <1>1, <1>2, <1>4, <1>5 DEF g

\* The job takes the old entries and leaves what remains of the history as
\* good as it was.
LEMMA HistoryCleanupInv ==
  ASSUME HistoryInv, HistoryCleanup
  PROVE  HistoryInv'
<1>1. HistoryTypeOK /\ CommitsRestoreCases
  BY DEF HistoryInv
<1>0. PICK i \in Item : \E n \in DOMAIN entries[i] :
        /\ entries' = [entries EXCEPT ![i] = SubSeq(@, n + 1, Len(@))]
        /\ start' = [start EXCEPT ![i] = Left(@, entries[i], n)]
        /\ UNCHANGED <<items, made, historyCalls, historyOverlap>>
  BY DEF HistoryCleanup
<1>2. PICK n \in DOMAIN entries[i] :
        /\ entries' = [entries EXCEPT ![i] = SubSeq(@, n + 1, Len(@))]
        /\ start' = [start EXCEPT ![i] = Left(@, entries[i], n)]
        /\ UNCHANGED <<items, made, historyCalls, historyOverlap>>
  BY <1>0
<1>3. PICK from \in ItemRow, h \in Seq(Entry) : from = start[i] /\ h = entries[i]
  BY <1>1 DEF HistoryTypeOK
<1> DEFINE g == SubSeq(h, n + 1, Len(h))
           to == Left(from, h, n)
<1>4. /\ g \in Seq(Entry) /\ to \in ItemRow
      /\ Left(to, g, Len(g)) = Left(from, h, Len(h))
      /\ Chained(from, h) => Chained(to, g)
  BY <1>3, EntriesRemoved
<1>5. entries' = [entries EXCEPT ![i] = g] /\ start' = [start EXCEPT ![i] = to]
  BY <1>2, <1>3
<1> HIDE DEF g, to
<1>6. /\ entries'[i] = g /\ start'[i] = to
      /\ \A j \in Item \ {i} : entries'[j] = entries[j] /\ start'[j] = start[j]
      /\ entries' \in [Item -> Seq(Entry)] /\ start' \in [Item -> ItemRow]
  BY <1>1, <1>4, <1>5 DEF HistoryTypeOK
<1>7. HistoryTypeOK' /\ CommitsRestoreCases'
  BY <1>1, <1>2, <1>6 DEF HistoryTypeOK, CommitsRestoreCases
<1>8. ASSUME NEW j \in Item, j \notin historyOverlap PROVE ToldSoFar(j)'
  <2>1. CASE j # i
    BY <1>2, <1>6, <1>8, <2>1, ToldElsewhere
  <2>2. CASE j = i
    <3>1. ToldSoFar(i)
      BY <1>8, <2>2 DEF HistoryInv
    <3>2. Chained(start'[i], entries'[i])
      BY <1>3, <1>4, <1>6, <3>1 DEF ToldSoFar
    <3>3. Left(start'[i], entries'[i], Len(entries'[i])) = Left(start[i], entries[i], Len(entries[i]))
      BY <1>3, <1>4, <1>6
    <3>4. Told(i) <=> Told(i)'
      BY <1>2, <3>3 DEF Told
    <3>5. ASSUME NEW d \in Req, historyCalls[d] # Idle, historyCalls[d].item = i
          PROVE  IF historyCalls[d].at = "write" THEN SameRow(historyCalls[d].before, items[i])
                 ELSE HalfRestored(d)'
      <4>1. IF historyCalls[d].at = "write" THEN SameRow(historyCalls[d].before, items[i])
            ELSE HalfRestored(d)
        BY <3>1, <3>5 DEF ToldSoFar
      <4>2. historyCalls[d].at # "write" => i = "case"
        BY <1>1, <3>5, HistoryCallFields DEF CommitsRestoreCases
      <4> QED BY <1>2, <3>3, <4>1, <4>2 DEF HalfRestored
    <3> QED BY <1>2, <2>2, <3>1, <3>2, <3>4, <3>5 DEF ToldSoFar, HistoryAt
  <2> QED BY <2>1, <2>2
<1> QED BY <1>2, <1>7, <1>8 DEF HistoryInv

LEMMA HistoryInitInv == HistoryInit => HistoryInv
<1> SUFFICES ASSUME HistoryInit PROVE HistoryInv
  OBVIOUS
<1>1. /\ \A i \in Item : items[i] = FirstRow /\ start[i] = FirstRow /\ entries[i] = <<>>
      /\ \A r \in Req : historyCalls[r] = Idle
  BY DEF HistoryInit
<1>2. HistoryTypeOK
  BY FirstRowFields, HistoryIdle, EntriesAssumption DEF HistoryInit, HistoryTypeOK
<1>3. \A i \in Item : Chained(start[i], entries[i]) /\ Told(i)
  BY <1>1 DEF Chained, Told, Left, SameRow
<1> QED BY <1>1, <1>2, <1>3 DEF HistoryInv, CommitsRestoreCases, ToldSoFar

LEMMA HistoryStepInv == HistoryInv /\ [HistoryNext]_historyVars => HistoryInv'
<1> SUFFICES ASSUME HistoryInv, [HistoryNext]_historyVars PROVE HistoryInv'
  OBVIOUS
<1>1. CASE UNCHANGED historyVars
  <2>1. UNCHANGED <<items, entries, made, start, historyCalls, historyOverlap>>
    BY <1>1 DEF historyVars, ofEntries
  <2>2. HistoryTypeOK' /\ CommitsRestoreCases'
    BY <2>1 DEF HistoryInv, HistoryTypeOK, CommitsRestoreCases
  <2>3. \A j \in Item : j \notin historyOverlap => ToldSoFar(j)'
    BY <2>1, ToldElsewhere
  <2> QED BY <2>1, <2>2, <2>3 DEF HistoryInv
<1>2. CASE HistoryNext
  BY <1>2, HistoryFindInv, ItemCommitInv, RestoreCaseRowInv, RestoreCaseCommitInv, HistoryAbortInv,
     ThirtyDaysInv, HistoryCleanupInv DEF HistoryNext
<1> QED BY <1>1, <1>2

\* The invariant of History is inductive: a request that nothing overlaps has
\* the row as it still is, and the half-done restoring of a case the row that
\* its history ends with.
THEOREM HistoryInductive == HistorySpec => []HistoryInv
BY HistoryInitInv, HistoryStepInv, PTL DEF HistorySpec

\* For any fields, number of entries and requests: what remains of the
\* histories of a suite and of a case replays to the row (writeHistory in the
\* services' updates, deletions and restorings, history-cleanup.ts), unless
\* requests overlapped or a case's restoring was cut short.
THEOREM HistoriesReplay == HistorySpec => []HistoryReplays
<1>1. HistoryInv => HistoryReplays
  BY DEF HistoryInv, HistoryReplays, ToldSoFar
<1> QED BY <1>1, HistoryInductive, PTL

-----------------------------------------------------------------------------
(***************************************************************************)
(* Windows that show an execution                                          *)
(***************************************************************************)
\* The edit in a slot is still the same one.
SameEdit(c, d) ==
  /\ d \in ViewCall /\ (d = Idle <=> c = Idle)
  /\ c # Idle => /\ d.op = c.op /\ d.at = c.at /\ d.win = c.win /\ d.row = c.row
                 /\ d.sent = c.sent /\ d.before = c.before /\ (d.alone => c.alone)
                 /\ c.at # "write" => d.result = c.result

LEMMA EditFields ==
  ASSUME NEW c \in ViewCall
  PROVE  /\ c = Idle => c.op # "edit"
         /\ c.op = "edit" => c # Idle
         /\ c # Idle =>
              /\ c.op = "edit" /\ c.at \in {"write", "publish", "answer"}
              /\ c.win \in Window \cup {Agent} /\ c.row \in Row /\ c.sent \in Content
              /\ c.before \in Copy \cup {NoView} /\ c.alone \in BOOLEAN
              /\ c.at \in {"publish", "answer"} => c.result \in Content
BY DEF ViewCall, Idle

LEMMA SameIsSame == \A c \in ViewCall : SameEdit(c, c)
BY DEF SameEdit

LEMMA DisturbedEdit ==
  ASSUME NEW c \in ViewCall, c # Idle
  PROVE  SameEdit(c, [c EXCEPT !.alone = FALSE]) /\ ~[c EXCEPT !.alone = FALSE].alone
<1> DEFINE d == [c EXCEPT !.alone = FALSE]
<1>1. CASE c \in [op : {"edit"}, at : {"write"}, win : Window \cup {Agent}, row : Row,
                  sent : Content, before : Copy \cup {NoView}, alone : BOOLEAN]
  <2>1. d \in [op : {"edit"}, at : {"write"}, win : Window \cup {Agent}, row : Row,
               sent : Content, before : Copy \cup {NoView}, alone : BOOLEAN]
    BY <1>1
  <2>2. d # Idle
    BY <2>1 DEF Idle
  <2> QED BY <1>1, <2>1, <2>2 DEF SameEdit, ViewCall
<1>2. CASE c \in [op : {"edit"}, at : {"publish", "answer"}, win : Window \cup {Agent},
                  row : Row, sent : Content, before : Copy \cup {NoView}, alone : BOOLEAN,
                  result : Content]
  <2>1. d \in [op : {"edit"}, at : {"publish", "answer"}, win : Window \cup {Agent}, row : Row,
               sent : Content, before : Copy \cup {NoView}, alone : BOOLEAN, result : Content]
    BY <1>2
  <2>2. d # Idle
    BY <2>1 DEF Idle
  <2> QED BY <1>2, <2>1, <2>2 DEF SameEdit, ViewCall
<1> QED BY <1>1, <1>2 DEF ViewCall

\* What a disturbance does to the edits.
LEMMA Disturbance ==
  ASSUME NEW calls \in [Req -> ViewCall], NEW w
  PROVE  /\ Disturb(calls, w) \in [Req -> ViewCall]
         /\ \A r \in Req : /\ SameEdit(calls[r], Disturb(calls, w)[r])
                           /\ Disturb(calls, w)[r] # Idle /\ Disturb(calls, w)[r].win = w
                                => ~Disturb(calls, w)[r].alone
<1>1. \A r \in Req : /\ SameEdit(calls[r], Disturb(calls, w)[r])
                     /\ Disturb(calls, w)[r] # Idle /\ Disturb(calls, w)[r].win = w
                          => ~Disturb(calls, w)[r].alone
  <2> TAKE r \in Req
  <2>1. calls[r] \in ViewCall
    OBVIOUS
  <2>2. CASE calls[r] # Idle /\ calls[r].win = w
    BY <2>1, <2>2, DisturbedEdit DEF Disturb
  <2>3. CASE ~(calls[r] # Idle /\ calls[r].win = w)
    BY <2>1, <2>3, SameIsSame DEF Disturb
  <2> QED BY <2>2, <2>3
<1>2. \A r \in Req : Disturb(calls, w)[r] \in ViewCall
  BY <1>1 DEF SameEdit
<1>3. Disturb(calls, w) = [r \in Req |-> Disturb(calls, w)[r]]
  BY DEF Disturb
<1> QED BY <1>1, <1>2, <1>3

\* A copy with rows is not the absence of one, and patches keep it a copy.
LEMMA Copies ==
  ASSUME NEW v \in Copy, NEW x \in Row, NEW c \in Content
  PROVE  v # NoView /\ [v EXCEPT ![x] = c] \in Copy /\ v[x] \in Content
<1>1. DOMAIN v = Row /\ DOMAIN NoView = 1 .. 0
  BY DEF Copy, NoView
<1>2. 1 .. 0 = {}
  OBVIOUS
<1>3. v # NoView
  BY <1>1, <1>2
<1> QED BY <1>3 DEF Copy

LEMMA ComingStays ==
  ASSUME ViewTypeOK, NEW x \in Row, rows'[x] = rows[x], Coming(x),
         \A d \in Req : EditAt(d, "publish") /\ viewCalls[d].row = x
                          => SameEdit(viewCalls[d], viewCalls[d]')
  PROVE  Coming(x)'
<1>1. PICK d \in Req : /\ EditAt(d, "publish") /\ viewCalls[d].row = x
                       /\ viewCalls[d].result = rows[x]
  BY DEF Coming
<1>2. SameEdit(viewCalls[d], viewCalls[d]') /\ viewCalls[d] \in ViewCall
  BY <1>1 DEF ViewTypeOK
<1>3. viewCalls[d] # Idle
  BY <1>1, <1>2, EditFields DEF EditAt
<1> QED BY <1>1, <1>2, <1>3 DEF Coming, EditAt, SameEdit

\* Edits that go on, or are not about the row in the window, and rows and a
\* copy that stay, agree as they did.
LEMMA AgreesStays ==
  ASSUME ViewTypeOK, viewCalls' \in [Req -> ViewCall],
         NEW w \in Window, NEW x \in Row, Agrees(w, x),
         rows'[x] = rows[x], view'[w][x] = view[w][x],
         \A d \in Req : \/ SameEdit(viewCalls[d], viewCalls'[d])
                        \/ /\ ~(EditAt(d, "publish") /\ viewCalls[d].row = x)
                           /\ ~Writing(d, w, x) /\ ~Writing(d, w, x)'
  PROVE  Agrees(w, x)'
<1>1. CASE Coming(x)
  <2>1. PICK d \in Req : /\ EditAt(d, "publish") /\ viewCalls[d].row = x
                         /\ viewCalls[d].result = rows[x]
    BY <1>1 DEF Coming
  <2>2. SameEdit(viewCalls[d], viewCalls'[d]) /\ viewCalls[d] \in ViewCall
    BY <2>1 DEF ViewTypeOK
  <2>3. viewCalls[d] # Idle
    BY <2>1, <2>2, EditFields DEF EditAt
  <2> QED BY <2>1, <2>2, <2>3 DEF Agrees, Coming, EditAt, SameEdit
<1>2. CASE ~Coming(x)
  <2>1. \A r \in Req : viewCalls[r] \in ViewCall /\ viewCalls'[r] \in ViewCall
    BY DEF ViewTypeOK
  <2>2. \A r \in Req : Writing(r, w, x) => Writing(r, w, x)'
    BY <2>1, EditFields DEF Writing, EditAt, SameEdit
  <2>3. \A r \in Req : Writing(r, w, x)' /\ viewCalls'[r].alone
          => Writing(r, w, x) /\ viewCalls[r].alone /\ viewCalls'[r].before = viewCalls[r].before
    BY <2>1, EditFields DEF Writing, EditAt, SameEdit
  <2>4. /\ (\E r \in Req : Writing(r, w, x)) \/ view[w][x] = rows[x]
        /\ \A r \in Req : Writing(r, w, x) /\ viewCalls[r].alone
                            => viewCalls[r].before[x] = rows[x]
    BY <1>2 DEF Agrees
  <2>5. (\E r \in Req : Writing(r, w, x)') \/ view'[w][x] = rows'[x]
    BY <2>2, <2>4
  <2>6. \A r \in Req : Writing(r, w, x)' /\ viewCalls'[r].alone
          => viewCalls'[r].before[x] = rows'[x]
    BY <2>3, <2>4
  <2> QED BY <2>5, <2>6 DEF Agrees
<1> QED BY <1>1, <1>2

\* What holds of the edits goes on to hold when some end, and when only the
\* copies of windows whose edits are not alone change.
Undisturbed(u) ==
  \/ view'[u] = view[u]
  \/ /\ \A r \in Req : viewCalls'[r] # Idle /\ viewCalls'[r].win = u => ~viewCalls'[r].alone
     /\ view[u] \in Copy /\ view[u] # NoView => view'[u] \in Copy /\ view'[u] # NoView

\* The edit goes on in its window.
Continues(c, d) == /\ c # Idle /\ d.win = c.win /\ d.before = c.before /\ (d.alone => c.alone)
                   /\ d.at = "write" => c.at = "write" /\ d.row = c.row

LEMMA EditsKeepViews ==
  ASSUME ViewTypeOK, EditsHaveViews, viewCalls' \in [Req -> ViewCall],
         \A d \in Req : viewCalls'[d] = Idle \/ Continues(viewCalls[d], viewCalls'[d]),
         \A u \in Window : Undisturbed(u)
  PROVE  EditsHaveViews'
<1>1. \A r \in Req : viewCalls[r] \in ViewCall /\ viewCalls'[r] \in ViewCall
  BY DEF ViewTypeOK
<1> SUFFICES ASSUME NEW r \in Req, viewCalls'[r] # Idle, viewCalls'[r].win # Agent
             PROVE  /\ view'[viewCalls'[r].win] \in Copy /\ viewCalls'[r].before \in Copy
                    /\ view'[viewCalls'[r].win] # NoView
                    /\ viewCalls'[r].alone =>
                         /\ \A d \in Req \ {r} : viewCalls'[d] # Idle
                                                   => viewCalls'[d].win # viewCalls'[r].win
                         /\ viewCalls'[r].at = "write" =>
                              \A y \in Row \ {viewCalls'[r].row} :
                                view'[viewCalls'[r].win][y] = viewCalls'[r].before[y]
  BY DEF EditsHaveViews
<1>2. /\ viewCalls[r] # Idle /\ viewCalls[r].win # Agent
      /\ Continues(viewCalls[r], viewCalls'[r])
  BY <1>1 DEF Continues
<1>3. PICK u \in Window : u = viewCalls[r].win
  BY <1>1, <1>2, EditFields
<1>4. /\ view[u] \in Copy /\ viewCalls[r].before \in Copy /\ view[u] # NoView
      /\ viewCalls[r].alone =>
           /\ \A d \in Req \ {r} : viewCalls[d] # Idle => viewCalls[d].win # u
           /\ viewCalls[r].at = "write" => \A y \in Row \ {viewCalls[r].row} :
                view[u][y] = viewCalls[r].before[y]
  BY <1>2, <1>3 DEF EditsHaveViews
<1>5. viewCalls'[r].win = u /\ Undisturbed(u)
  BY <1>2, <1>3 DEF Continues
<1>6. \A d \in Req : viewCalls'[d] # Idle
                       => viewCalls[d] # Idle /\ viewCalls'[d].win = viewCalls[d].win
  BY DEF Continues
<1> QED BY <1>2, <1>4, <1>5, <1>6 DEF Continues, Undisturbed

LEMMA FactsOfEditsStay ==
  ASSUME ViewInv, rows' = rows, viewCalls' \in [Req -> ViewCall],
         \A d \in Req : viewCalls'[d] = Idle \/ SameEdit(viewCalls[d], viewCalls'[d]),
         \A u \in Window : Undisturbed(u)
  PROVE  EditsHaveViews' /\ NotesStay' /\ AgentsDoNotWait'
<1>1. \A r \in Req : viewCalls[r] \in ViewCall /\ viewCalls'[r] \in ViewCall
  BY DEF ViewInv, ViewTypeOK
<1>2. \A d \in Req : viewCalls'[d] = Idle \/ Continues(viewCalls[d], viewCalls'[d])
  BY DEF SameEdit, Continues
<1>3. EditsHaveViews'
  BY <1>2, EditsKeepViews DEF ViewInv
<1>4. NotesStay' /\ AgentsDoNotWait'
  BY <1>1, EditFields DEF ViewInv, NotesStay, AgentsDoNotWait, EditAt, SameEdit
<1> QED BY <1>3, <1>4

\* What events and refetches tell stays true of rows that stay, when no edit
\* that will be published is forgotten.
EditsGoOn == \A d \in Req : EditAt(d, "publish") => SameEdit(viewCalls[d], viewCalls'[d])

LEMMA ToldStays ==
  ASSUME ViewInv, rows' = rows, EditsGoOn, channel' = channel, fetch' = fetch
  PROVE  EventsTell' /\ FetchesTell'
<1>1. \A x \in Row : Coming(x) => Coming(x)'
  BY ComingStays DEF ViewInv, EditsGoOn
<1>2. EventsTell'
  BY <1>1 DEF ViewInv, EventsTell, LastFor
<1>3. FetchesTell'
  BY <1>1 DEF ViewInv, FetchesTell, NoneFor
<1> QED BY <1>2, <1>3

LEMMA FetchFields ==
  ASSUME NEW f \in Fetch
  PROVE  /\ f.at = "read" => f.rows \in Copy /\ f.sound \in BOOLEAN
         /\ Unsound(f) \in Fetch /\ Unsound(f).at = f.at
         /\ f.at = "read" => Unsound(f).rows = f.rows /\ ~Unsound(f).sound
<1>1. CASE f.at = "read"
  <2>1. f \in [at : {"read"}, rows : Copy, sound : BOOLEAN]
    BY <1>1 DEF Fetch, NoFetch
  <2> QED BY <1>1, <2>1 DEF Unsound, Fetch
<1>2. CASE f.at # "read"
  BY <1>2 DEF Unsound
<1> QED BY <1>1, <1>2

-----------------------------------------------------------------------------
\* One lemma per group of actions: queries, and the connection.
LEMMA QueryKeepsViews ==
  ASSUME ViewInv, NEW w \in Window, FetchStart(w)
  PROVE  ViewInv'
<1> USE DEF FetchStart, ViewInv
<1>1. ViewTypeOK'
  BY DEF ViewTypeOK, Fetch
<1>2. fetch'[w].at = "sent" /\ \A u \in Window \ {w} : fetch'[u] = fetch[u]
  BY DEF ViewTypeOK
<1>3. FetchesTell'
  BY <1>2 DEF FetchesTell, NoneFor, Coming, EditAt
<1> QED BY <1>1, <1>3 DEF OfflineHearNothing, EventsTell, LastFor, ViewsTell, Agrees, Writing,
          NoneFor, Coming, EditsHaveViews, NotesStay, AgentsDoNotWait, EditAt

LEMMA ReadKeepsViews ==
  ASSUME ViewInv, NEW w \in Window, FetchRead(w)
  PROVE  ViewInv'
<1> USE DEF FetchRead, ViewInv
<1>1. ViewTypeOK'
  BY DEF ViewTypeOK, Fetch
<1>2. fetch'[w].rows = rows /\ \A u \in Window \ {w} : fetch'[u] = fetch[u]
  BY DEF ViewTypeOK
<1>3. FetchesTell'
  BY <1>2 DEF FetchesTell, NoneFor, Coming, EditAt
<1> QED BY <1>1, <1>3 DEF OfflineHearNothing, EventsTell, LastFor, ViewsTell, Agrees, Writing,
          NoneFor, Coming, EditsHaveViews, NotesStay, AgentsDoNotWait, EditAt

LEMMA ConnectKeepsViews ==
  ASSUME ViewInv, NEW w \in Window, Connect(w)
  PROVE  ViewInv'
<1> USE DEF Connect, ViewInv
<1>1. ViewTypeOK'
  BY DEF ViewTypeOK
<1>2. OfflineHearNothing'
  BY DEF ViewTypeOK, OfflineHearNothing
<1> QED BY <1>1, <1>2 DEF FetchesTell, EventsTell, LastFor, ViewsTell, Agrees, Writing,
          NoneFor, Coming, EditsHaveViews, NotesStay, AgentsDoNotWait, EditAt

\* A refetch that no event overtook brings the rows as they are.
LEMMA ApplyKeepsViews ==
  ASSUME ViewInv, NEW w \in Window, FetchApply(w)
  PROVE  ViewInv'
<1> USE DEF FetchApply
<1>1. /\ ViewTypeOK /\ OfflineHearNothing /\ EventsTell /\ FetchesTell /\ ViewsTell
      /\ viewCalls \in [Req -> ViewCall]
  BY DEF ViewInv, ViewTypeOK
<1>2. /\ viewCalls' \in [Req -> ViewCall]
      /\ \A d \in Req : /\ SameEdit(viewCalls[d], viewCalls'[d])
                        /\ viewCalls'[d] # Idle /\ viewCalls'[d].win = w => ~viewCalls'[d].alone
  BY <1>1, Disturbance
<1>3. fetch[w].rows \in Copy /\ fetch[w].sound \in BOOLEAN
  BY <1>1, FetchFields DEF ViewTypeOK
<1>4. ViewTypeOK'
  BY <1>1, <1>2, <1>3 DEF ViewTypeOK, Fetch
<1>5. OfflineHearNothing'
  BY <1>1 DEF OfflineHearNothing
<1>6. \A x \in Row : Coming(x) => Coming(x)'
  BY <1>1, <1>2, ComingStays
<1>7. EventsTell'
  BY <1>1, <1>6 DEF EventsTell, LastFor
<1>8. FetchesTell'
  BY <1>1, <1>6 DEF FetchesTell, NoneFor, ViewTypeOK, NoFetch
<1>9. ViewsTell'
  <2> SUFFICES ASSUME NEW u \in Window, NEW x \in Row,
                      view'[u] # NoView, doubts'[u] = {}, NoneFor(u, x)'
               PROVE  Agrees(u, x)'
    BY DEF ViewsTell
  <2>1. CASE u # w
    <3>1. view'[u] = view[u] /\ doubts'[u] = doubts[u] /\ NoneFor(u, x)
      BY <2>1, <1>1 DEF ViewTypeOK, NoneFor
    <3>2. Agrees(u, x)
      BY <3>1, <1>1 DEF ViewsTell
    <3> QED BY <3>1, <3>2, <1>1, <1>2, AgreesStays
  <2>2. CASE u = w
    <3>1. fetch[w].sound /\ view'[w] = fetch[w].rows /\ NoneFor(w, x)
      BY <2>2, <1>1, <1>3 DEF ViewTypeOK, NoneFor
    <3>2. Coming(x)' \/ view'[w][x] = rows'[x]
      BY <3>1, <1>1, <1>6 DEF FetchesTell
    <3>3. \A r \in Req : ~(Writing(r, w, x)' /\ viewCalls'[r].alone)
      BY <1>2, EditFields DEF Writing, EditAt
    <3> QED BY <2>2, <3>2, <3>3 DEF Agrees
  <2> QED BY <2>1, <2>2
<1>10. \A u \in Window : Undisturbed(u)
  <2> TAKE u \in Window
  <2>1. CASE u # w
    BY <2>1, <1>1 DEF ViewTypeOK, Undisturbed
  <2>2. CASE u = w
    <3>1. view'[w] = fetch[w].rows
      BY <1>1 DEF ViewTypeOK
    <3>2. view[w] \in Copy /\ view[w] # NoView => view'[w] # NoView
      BY <3>1, <1>3 DEF Copy, NoView
    <3> QED BY <2>2, <3>1, <3>2, <1>2, <1>3 DEF Undisturbed
  <2> QED BY <2>1, <2>2
<1>11. EditsHaveViews' /\ NotesStay' /\ AgentsDoNotWait'
  BY <1>2, <1>10, FactsOfEditsStay
<1> QED BY <1>4, <1>5, <1>7, <1>8, <1>9, <1>11 DEF ViewInv

LEMMA DisconnectKeepsViews ==
  ASSUME ViewInv, NEW w \in Window, Disconnect(w)
  PROVE  ViewInv'
<1> USE DEF Disconnect
<1>1. /\ ViewTypeOK /\ OfflineHearNothing /\ EventsTell /\ FetchesTell /\ ViewsTell
      /\ EditsHaveViews /\ NotesStay /\ AgentsDoNotWait
  BY DEF ViewInv
<1>2. /\ channel'[w] = <<>> /\ \A u \in Window \ {w} : channel'[u] = channel[u]
      /\ \A u \in Window \ {w} : doubts'[u] = doubts[u] /\ fetch'[u] = fetch[u]
      /\ channel[w] # <<>> => doubts'[w] # {} /\ fetch'[w] = Unsound(fetch[w])
      /\ channel[w] = <<>> => doubts'[w] = doubts[w] /\ fetch'[w] = fetch[w]
  BY <1>1 DEF ViewTypeOK, Doubt
<1>3. \A u \in Window : fetch[u] \in Fetch
  BY <1>1 DEF ViewTypeOK
<1>4. ViewTypeOK'
  <2>1. <<>> \in Seq(Event)
    OBVIOUS
  <2>2. Unsound(fetch[w]) \in Fetch
    BY <1>3, FetchFields
  <2> QED BY <1>1, <2>1, <2>2 DEF ViewTypeOK, Doubt
<1>5. OfflineHearNothing'
  BY <1>1, <1>2 DEF OfflineHearNothing, ViewTypeOK
<1>6. \A x \in Row : Coming(x)' <=> Coming(x)
  BY DEF Coming, EditAt
<1>7. DOMAIN <<>> = {}
  BY DOMAIN <<>> = 1 .. 0
<1>8. EventsTell'
  BY <1>1, <1>2, <1>6, <1>7 DEF EventsTell, LastFor
<1>9. FetchesTell'
  <2> SUFFICES ASSUME NEW u \in Window, NEW x \in Row,
                      fetch'[u].at = "read", NoneFor(u, x)', fetch'[u].sound
               PROVE  Coming(x)' \/ fetch'[u].rows[x] = rows'[x]
    BY DEF FetchesTell
  <2>1. fetch'[u] = fetch[u] /\ (u # w \/ channel[u] = <<>>)
    BY <1>2, <1>3, FetchFields
  <2>2. NoneFor(u, x)
    BY <1>2, <2>1, <1>7 DEF NoneFor
  <2> QED BY <1>1, <1>6, <2>1, <2>2 DEF FetchesTell
<1>10. ViewsTell'
  <2> SUFFICES ASSUME NEW u \in Window, NEW x \in Row,
                      view'[u] # NoView, doubts'[u] = {}, NoneFor(u, x)'
               PROVE  Agrees(u, x)'
    BY DEF ViewsTell
  <2>1. doubts'[u] = doubts[u] /\ (u # w \/ channel[u] = <<>>)
    BY <1>2
  <2>2. NoneFor(u, x)
    BY <1>2, <2>1, <1>7 DEF NoneFor
  <2>3. Agrees(u, x)
    BY <1>1, <2>1, <2>2 DEF ViewsTell
  <2> QED BY <2>3, <1>6 DEF Agrees, Writing, EditAt
<1>11. EditsHaveViews' /\ NotesStay' /\ AgentsDoNotWait'
  BY <1>1 DEF EditsHaveViews, NotesStay, AgentsDoNotWait, EditAt
<1> QED BY <1>4, <1>5, <1>8, <1>9, <1>10, <1>11 DEF ViewInv

\* An event that was not overtaken tells the row as it is.
LEMMA DeliverKeepsViews ==
  ASSUME ViewInv, NEW w \in Window, Deliver(w)
  PROVE  ViewInv'
<1>1. /\ ViewTypeOK /\ OfflineHearNothing /\ EventsTell /\ FetchesTell /\ ViewsTell
      /\ viewCalls \in [Req -> ViewCall] /\ \A u \in Window : fetch[u] \in Fetch
  BY DEF ViewInv, ViewTypeOK
<1>2. PICK e \in Event : e = Head(channel[w]) /\ e = channel[w][1]
  BY <1>1 DEF ViewTypeOK, Deliver
<1>3. /\ Tail(channel[w]) \in Seq(Event)
      /\ DOMAIN channel[w] = 1 .. Len(channel[w]) /\ Len(channel[w]) \in Nat \ {0}
      /\ DOMAIN Tail(channel[w]) = 1 .. (Len(channel[w]) - 1)
      /\ \A i \in DOMAIN Tail(channel[w]) : Tail(channel[w])[i] = channel[w][i + 1]
  BY <1>1 DEF ViewTypeOK, Deliver
<1>4. /\ rows' = rows /\ edits' = edits /\ online' = online
      /\ channel'[w] = Tail(channel[w]) /\ \A u \in Window \ {w} : channel'[u] = channel[u]
      /\ fetch'[w] = Unsound(fetch[w]) /\ \A u \in Window \ {w} : fetch'[u] = fetch[u]
      /\ \A u \in Window \ {w} : view'[u] = view[u] /\ doubts'[u] = doubts[u]
      /\ view'[w] = IF view[w] = NoView THEN NoView
                    ELSE [view[w] EXCEPT ![e.row] = e.content]
      /\ doubts'[w] = {} => doubts[w] = {} /\ e.sound
      /\ viewCalls' = Disturb(viewCalls, w)
  BY <1>1, <1>2 DEF ViewTypeOK, Deliver, Doubt
<1>5. /\ viewCalls' \in [Req -> ViewCall]
      /\ \A d \in Req : /\ SameEdit(viewCalls[d], viewCalls'[d])
                        /\ viewCalls'[d] # Idle /\ viewCalls'[d].win = w => ~viewCalls'[d].alone
  BY <1>1, <1>4, Disturbance
<1>6. e.row \in Row /\ e.content \in Content /\ e.sound \in BOOLEAN
  BY DEF Event
<1>7. view[w] # NoView => view[w] \in Copy /\ view'[w] \in Copy /\ view'[w] # NoView
  <2> HAVE view[w] # NoView
  <2>1. view[w] \in Copy
    BY <1>1 DEF ViewTypeOK
  <2>2. [view[w] EXCEPT ![e.row] = e.content] \in Copy
    BY <2>1, <1>6, Copies
  <2>3. \A v \in Copy : v # NoView
    BY <1>6, Copies
  <2> QED BY <2>1, <2>2, <2>3, <1>4
<1>8. ViewTypeOK'
  <2>1. Unsound(fetch[w]) \in Fetch
    BY <1>1, FetchFields
  <2>2. view'[w] \in Copy \cup {NoView}
    BY <1>4, <1>7
  <2>3. view' \in [Window -> Copy \cup {NoView}]
    BY <1>1, <2>2, <1>2, <1>4 DEF ViewTypeOK, Deliver
  <2> QED BY <1>1, <1>3, <1>4, <1>5, <2>1, <2>3 DEF ViewTypeOK, Deliver, Doubt
<1>9. OfflineHearNothing'
  BY <1>1, <1>3, <1>4 DEF OfflineHearNothing, Deliver
<1>10. \A x \in Row : Coming(x) => Coming(x)'
  BY <1>1, <1>4, <1>5, ComingStays
\* Events after the first one are where they were, one earlier.
<1>11. EventsTell'
  <2> SUFFICES ASSUME NEW u \in Window, NEW x \in Row, NEW i \in DOMAIN channel'[u],
                      LastFor(u, x, i)'
               PROVE  Coming(x)' \/ ~channel'[u][i].sound \/ channel'[u][i].content = rows'[x]
    BY DEF EventsTell
  <2>1. CASE u # w
    BY <2>1, <1>1, <1>4, <1>10 DEF EventsTell, LastFor
  <2>2. CASE u = w
    <3>1. i + 1 \in DOMAIN channel[w] /\ channel'[w][i] = channel[w][i + 1]
      BY <2>2, <1>3, <1>4
    <3>2. \A j \in DOMAIN channel[w] : j > i + 1 =>
            /\ j - 1 \in DOMAIN channel'[w] /\ j - 1 > i /\ channel'[w][j - 1] = channel[w][j]
      BY <2>2, <1>3, <1>4
    <3>3. LastFor(w, x, i + 1)
      BY <2>2, <3>1, <3>2 DEF LastFor
    <3> QED BY <2>2, <3>1, <3>3, <1>1, <1>4, <1>10 DEF EventsTell
  <2> QED BY <2>1, <2>2
<1>12. FetchesTell'
  <2> SUFFICES ASSUME NEW u \in Window, NEW x \in Row,
                      fetch'[u].at = "read", NoneFor(u, x)', fetch'[u].sound
               PROVE  Coming(x)' \/ fetch'[u].rows[x] = rows'[x]
    BY DEF FetchesTell
  <2>1. u # w
    BY <1>1, <1>4, FetchFields
  <2> QED BY <2>1, <1>1, <1>4, <1>10 DEF FetchesTell, NoneFor
<1>13. ViewsTell'
  <2> SUFFICES ASSUME NEW u \in Window, NEW x \in Row,
                      view'[u] # NoView, doubts'[u] = {}, NoneFor(u, x)'
               PROVE  Agrees(u, x)'
    BY DEF ViewsTell
  <2>1. CASE u # w
    <3>1. Agrees(u, x)
      BY <2>1, <1>1, <1>4 DEF ViewsTell, NoneFor
    <3> QED BY <2>1, <3>1, <1>1, <1>4, <1>5, AgreesStays
  <2>2. CASE u = w
    <3>1. /\ view[w] # NoView /\ doubts[w] = {} /\ e.sound
          /\ \A j \in DOMAIN channel[w] : j > 1 => channel[w][j].row # x
      <4>1. \A j \in DOMAIN channel[w] : j > 1 =>
              j - 1 \in DOMAIN channel'[w] /\ channel'[w][j - 1] = channel[w][j]
        BY <1>3, <1>4
      <4> QED BY <2>2, <4>1, <1>4 DEF NoneFor
    <3>2. CASE e.row = x
      <4>1. LastFor(w, x, 1) /\ 1 \in DOMAIN channel[w]
        BY <3>1, <3>2, <1>2, <1>3 DEF LastFor
      <4>2. Coming(x)' \/ e.content = rows'[x]
        BY <4>1, <3>1, <1>1, <1>2, <1>4, <1>10 DEF EventsTell
      <4>3. view'[w][x] = e.content
        BY <3>1, <3>2, <1>4, <1>7 DEF Copy
      <4>4. \A r \in Req : ~(Writing(r, w, x)' /\ viewCalls'[r].alone)
        BY <1>5, EditFields DEF Writing, EditAt
      <4> QED BY <2>2, <4>2, <4>3, <4>4 DEF Agrees
    <3>3. CASE e.row # x
      <4>1. NoneFor(w, x)
        BY <3>1, <3>3, <1>2, <1>3 DEF NoneFor
      <4>2. Agrees(w, x) /\ view'[w][x] = view[w][x]
        BY <4>1, <3>1, <3>3, <1>1, <1>4, <1>7 DEF ViewsTell, Copy
      <4> QED BY <2>2, <4>2, <1>1, <1>4, <1>5, AgreesStays
    <3> QED BY <3>2, <3>3
  <2> QED BY <2>1, <2>2
<1>14. \A u \in Window : Undisturbed(u)
  BY <1>4, <1>5, <1>7 DEF Undisturbed
<1>15. EditsHaveViews' /\ NotesStay' /\ AgentsDoNotWait'
  BY <1>4, <1>5, <1>14, FactsOfEditsStay
<1> QED BY <1>8, <1>9, <1>11, <1>12, <1>13, <1>15 DEF ViewInv

-----------------------------------------------------------------------------
\* The start of edits.
LEMMA BegunEdit ==
  ASSUME ViewInv, NEW r \in Req, NEW w \in Window \cup {Agent}, NEW x \in Row,
         NEW sent \in Content, EditBegin(r, w, x, sent)
  PROVE  /\ viewCalls' \in [Req -> ViewCall] /\ edits' \in 0 .. MaxEdits
         /\ viewCalls[r] = Idle
         /\ \A d \in Req \ {r} : /\ SameEdit(viewCalls[d], viewCalls'[d])
                                 /\ viewCalls'[d] # Idle /\ viewCalls'[d].win = w
                                      => ~viewCalls'[d].alone
         /\ viewCalls'[r] # Idle /\ viewCalls'[r].at = "write" /\ viewCalls'[r].win = w
         /\ viewCalls'[r].row = x /\ viewCalls'[r].sent = sent
         /\ w # Agent => viewCalls'[r].before = view[w]
         /\ viewCalls'[r].alone => \A d \in Req : viewCalls[d] # Idle => viewCalls[d].win # w
<1> DEFINE c == [op |-> "edit", at |-> "write", win |-> w, row |-> x, sent |-> sent,
                 before |-> IF w = Agent THEN NoView ELSE view[w],
                 alone |-> ~\E d \in Req : viewCalls[d] # Idle /\ viewCalls[d].win = w]
<1>1. viewCalls \in [Req -> ViewCall] /\ view \in [Window -> Copy \cup {NoView}]
  BY DEF ViewInv, ViewTypeOK
<1>2. /\ Disturb(viewCalls, w) \in [Req -> ViewCall]
      /\ \A d \in Req : /\ SameEdit(viewCalls[d], Disturb(viewCalls, w)[d])
                        /\ Disturb(viewCalls, w)[d] # Idle /\ Disturb(viewCalls, w)[d].win = w
                             => ~Disturb(viewCalls, w)[d].alone
  BY <1>1, Disturbance
<1>3. c \in ViewCall /\ c # Idle
  <2>1. c.before \in Copy \cup {NoView}
    BY <1>1
  <2> QED BY <2>1 DEF ViewCall, Idle
<1>4. viewCalls' = [Disturb(viewCalls, w) EXCEPT ![r] = c]
  BY DEF EditBegin
<1>5. edits \in 0 .. MaxEdits /\ MaxEdits \in Nat
  BY EditsAssumption DEF ViewInv, ViewTypeOK
<1>6. viewCalls'[r] = c /\ \A d \in Req \ {r} : viewCalls'[d] = Disturb(viewCalls, w)[d]
  BY <1>2, <1>4
<1>7. viewCalls' \in [Req -> ViewCall]
  BY <1>2, <1>3, <1>4
<1>8. edits' \in 0 .. MaxEdits /\ viewCalls[r] = Idle
  BY <1>5 DEF EditBegin
<1>9. c.alone => \A d \in Req : viewCalls[d] # Idle => viewCalls[d].win # w
  OBVIOUS
<1> HIDE DEF c
<1>10. /\ c.at = "write" /\ c.win = w /\ c.row = x /\ c.sent = sent
       /\ w # Agent => c.before = view[w]
  BY DEF c
<1> QED BY <1>2, <1>3, <1>6, <1>7, <1>8, <1>9, <1>10

\* A window's own edit: the copy says at once what was sent.
LEMMA PatchKeepsViews ==
  ASSUME ViewInv, NEW r \in Req, EditStart(r)
  PROVE  ViewInv'
<1>1. PICK w \in Window, x \in Row :
        /\ view[w] # NoView
        /\ \E sent \in {[view[w][x] EXCEPT !.status = edits + 1],
                        [view[w][x] EXCEPT !.note = edits + 1], [view[w][x] EXCEPT !.note = 0]} :
             EditBegin(r, w, x, sent) /\ view' = [view EXCEPT ![w][x] = sent]
        /\ fetch' = [fetch EXCEPT ![w] = NoFetch]
  BY DEF EditStart
<1>2. /\ ViewTypeOK /\ OfflineHearNothing /\ EventsTell /\ FetchesTell /\ ViewsTell
      /\ EditsHaveViews /\ NotesStay /\ AgentsDoNotWait
  BY DEF ViewInv
<1>3. PICK sent \in Content : EditBegin(r, w, x, sent) /\ view' = [view EXCEPT ![w][x] = sent]
  <2>1. view[w] \in Copy /\ edits \in Nat
    BY <1>1, <1>2 DEF ViewTypeOK
  <2>2. view[w][x] \in Content
    BY <2>1 DEF Copy
  <2>3. edits + 1 \in 0 .. MaxEdits /\ 0 \in 0 .. MaxEdits
    BY <1>1, <2>1, EditsAssumption DEF EditBegin
  <2>4. /\ [view[w][x] EXCEPT !.status = edits + 1] \in Content
        /\ [view[w][x] EXCEPT !.note = edits + 1] \in Content
        /\ [view[w][x] EXCEPT !.note = 0] \in Content
    BY <2>2, <2>3 DEF Content
  <2> QED BY <1>1, <2>4
<1>4. rows' = rows /\ online' = online /\ channel' = channel /\ doubts' = doubts
  BY <1>3 DEF EditBegin
<1>5. /\ view[w] \in Copy /\ view'[w] \in Copy /\ view'[w] # NoView /\ view'[w][x] = sent
      /\ \A y \in Row \ {x} : view'[w][y] = view[w][y]
      /\ \A u \in Window \ {w} : view'[u] = view[u]
      /\ view' \in [Window -> Copy \cup {NoView}]
  <2>1. view[w] \in Copy /\ view \in [Window -> Copy \cup {NoView}]
    BY <1>1, <1>2 DEF ViewTypeOK
  <2>2. view'[w] = [view[w] EXCEPT ![x] = sent]
    BY <1>3, <2>1
  <2>3. [view[w] EXCEPT ![x] = sent] \in Copy
    BY <2>1, Copies
  <2>4. \A v \in Copy : v # NoView
    BY <1>3, Copies
  <2>5. \A u \in Window \ {w} : view'[u] = view[u]
    BY <1>3, <2>1
  <2>6. view'[w][x] = sent /\ \A y \in Row \ {x} : view'[w][y] = view[w][y]
    BY <2>1, <2>2 DEF Copy
  <2>7. view' \in [Window -> Copy \cup {NoView}]
    BY <1>3, <2>1, <2>2, <2>3
  <2> QED BY <2>1, <2>2, <2>3, <2>4, <2>5, <2>6, <2>7
<1>6. /\ viewCalls' \in [Req -> ViewCall] /\ edits' \in 0 .. MaxEdits /\ viewCalls[r] = Idle
      /\ \A d \in Req \ {r} : /\ SameEdit(viewCalls[d], viewCalls'[d])
                              /\ viewCalls'[d] # Idle /\ viewCalls'[d].win = w
                                   => ~viewCalls'[d].alone
      /\ viewCalls'[r] # Idle /\ viewCalls'[r].at = "write" /\ viewCalls'[r].win = w
      /\ viewCalls'[r].row = x /\ viewCalls'[r].sent = sent /\ viewCalls'[r].before = view[w]
      /\ viewCalls'[r].alone => \A d \in Req : viewCalls[d] # Idle => viewCalls[d].win # w
  BY <1>2, <1>3, BegunEdit, AgentAssumption
<1>7. \A d \in Req : viewCalls[d] \in ViewCall /\ viewCalls'[d] \in ViewCall
  BY <1>2, <1>6 DEF ViewTypeOK
<1>8. ViewTypeOK'
  <2>1. fetch' \in [Window -> Fetch]
    BY <1>1, <1>2 DEF ViewTypeOK, Fetch
  <2> QED BY <1>2, <1>4, <1>5, <1>6, <2>1 DEF ViewTypeOK
<1>9. OfflineHearNothing'
  BY <1>2, <1>4 DEF OfflineHearNothing
<1>10. \A y \in Row : Coming(y) => Coming(y)'
  <2>1. \A d \in Req : EditAt(d, "publish") => d # r
    BY <1>6, <1>7, EditFields DEF EditAt
  <2> QED BY <2>1, <1>2, <1>4, <1>6, ComingStays
<1>11. EventsTell'
  BY <1>2, <1>4, <1>10 DEF EventsTell, LastFor
<1>12. FetchesTell'
  <2>1. \A u \in Window : fetch'[u].at = "read" => fetch'[u] = fetch[u]
    BY <1>1, <1>2 DEF ViewTypeOK, NoFetch
  <2> QED BY <2>1, <1>2, <1>4, <1>10 DEF FetchesTell, NoneFor
<1>13. ViewsTell'
  <2> SUFFICES ASSUME NEW u \in Window, NEW y \in Row, ~Coming(y)',
                      view'[u] # NoView, doubts'[u] = {}, NoneFor(u, y)'
               PROVE  Agrees(u, y)'
    BY DEF ViewsTell, Agrees
  <2>1. view[u] # NoView /\ NoneFor(u, y)
    BY <1>1, <1>4, <1>5 DEF NoneFor
  <2>2. /\ (\E d \in Req : Writing(d, u, y)) \/ view[u][y] = rows[y]
        /\ \A d \in Req : Writing(d, u, y) /\ viewCalls[d].alone => viewCalls[d].before[y] = rows[y]
    BY <2>1, <1>2, <1>4, <1>10 DEF ViewsTell, Agrees
  <2>3. \A d \in Req : Writing(d, u, y) => Writing(d, u, y)' /\ d # r
    BY <1>6, <1>7, EditFields DEF Writing, EditAt, SameEdit
  <2>4. (\E d \in Req : Writing(d, u, y)') \/ view'[u][y] = rows'[y]
    <3>1. CASE u = w /\ y = x
      <4>1. Writing(r, u, y)'
        BY <3>1, <1>6, <1>7, EditFields DEF Writing, EditAt
      <4> QED BY <4>1
    <3>2. CASE ~(u = w /\ y = x)
      BY <3>2, <2>2, <2>3, <1>4, <1>5
    <3> QED BY <3>1, <3>2
  <2>5. \A d \in Req : Writing(d, u, y)' /\ viewCalls'[d].alone => viewCalls'[d].before[y] = rows'[y]
    <3> SUFFICES ASSUME NEW d \in Req, Writing(d, u, y)', viewCalls'[d].alone
                 PROVE  viewCalls'[d].before[y] = rows[y]
      BY <1>4
    <3>1. CASE d = r
      <4>1. u = w /\ y = x /\ viewCalls'[r].before = view[w]
        BY <3>1, <1>6 DEF Writing
      <4>2. \A q \in Req : ~Writing(q, w, y)
        BY <3>1, <1>6, <1>7, EditFields DEF Writing, EditAt
      <4> QED BY <3>1, <4>1, <4>2, <2>2
    <3>2. CASE d # r
      <4>1. viewCalls'[d] # Idle
        BY <1>7, EditFields DEF Writing, EditAt
      <4>2. /\ Writing(d, u, y) /\ viewCalls[d].alone
            /\ viewCalls'[d].before = viewCalls[d].before
        BY <3>2, <4>1, <1>6 DEF Writing, EditAt, SameEdit
      <4> QED BY <4>2, <2>2
    <3> QED BY <3>1, <3>2
  <2> QED BY <2>4, <2>5 DEF Agrees
<1>14. EditsHaveViews'
  <2> SUFFICES ASSUME NEW d \in Req, viewCalls'[d] # Idle, viewCalls'[d].win # Agent
               PROVE  /\ view'[viewCalls'[d].win] \in Copy /\ viewCalls'[d].before \in Copy
                      /\ view'[viewCalls'[d].win] # NoView
                      /\ viewCalls'[d].alone =>
                           /\ \A q \in Req \ {d} : viewCalls'[q] # Idle
                                                     => viewCalls'[q].win # viewCalls'[d].win
                           /\ viewCalls'[d].at = "write" =>
                                \A y \in Row \ {viewCalls'[d].row} :
                                  view'[viewCalls'[d].win][y] = viewCalls'[d].before[y]
    BY DEF EditsHaveViews
  <2>1. CASE d = r
    <3>1. \A q \in Req \ {r} : viewCalls'[q] # Idle
            => viewCalls[q] # Idle /\ viewCalls'[q].win = viewCalls[q].win
      BY <1>6 DEF SameEdit
    <3> QED BY <2>1, <3>1, <1>5, <1>6
  <2>2. CASE d # r
    <3>1. /\ viewCalls[d] # Idle /\ viewCalls[d].win # Agent
          /\ SameEdit(viewCalls[d], viewCalls'[d])
      BY <2>2, <1>6 DEF SameEdit
    <3>2. PICK u \in Window : u = viewCalls[d].win /\ u = viewCalls'[d].win
      BY <3>1, <1>7, EditFields DEF SameEdit
    <3>3. /\ view[u] \in Copy /\ viewCalls[d].before \in Copy /\ view[u] # NoView
          /\ viewCalls[d].alone =>
               /\ \A q \in Req \ {d} : viewCalls[q] # Idle => viewCalls[q].win # u
               /\ viewCalls[d].at = "write" => \A y \in Row \ {viewCalls[d].row} :
                    view[u][y] = viewCalls[d].before[y]
      <4>1. EditsHaveViews /\ viewCalls[d] # Idle /\ viewCalls[d].win # Agent
        BY <3>1, <1>2
      <4>2. u = viewCalls[d].win
        BY <3>2
      <4> QED BY ONLY <4>1, <4>2, d \in Req DEF EditsHaveViews
    <3>4. \A q \in Req \ {r} : viewCalls'[q] # Idle
            => viewCalls[q] # Idle /\ viewCalls'[q].win = viewCalls[q].win
      BY <1>6 DEF SameEdit
    <3>5. CASE u = w
      <4>1. ~viewCalls'[d].alone
        BY <2>2, <3>1, <3>2, <3>5, <1>6 DEF SameEdit
      <4> QED BY <4>1, <3>1, <3>2, <3>3, <3>5, <1>5 DEF SameEdit
    <3>6. CASE u # w
      <4>1. view'[u] = view[u] /\ viewCalls'[r].win # u
        BY <3>6, <1>5, <1>6
      <4> QED BY <4>1, <3>1, <3>2, <3>3, <3>4 DEF SameEdit
    <3> QED BY <3>5, <3>6
  <2> QED BY <2>1, <2>2
<1>15. NotesStay' /\ AgentsDoNotWait'
  BY <1>2, <1>4, <1>6, <1>7, EditFields DEF NotesStay, AgentsDoNotWait, EditAt, SameEdit
<1> QED BY <1>8, <1>9, <1>11, <1>12, <1>13, <1>14, <1>15 DEF ViewInv

\* An agent's edit is none of the windows'.
LEMMA AgentStartKeepsViews ==
  ASSUME ViewInv, NEW r \in Req, AgentEditStart(r)
  PROVE  ViewInv'
<1>1. PICK x \in Row : \E note \in {0, edits + 1, rows[x].note} :
        /\ EditBegin(r, Agent, x, [status |-> edits + 1, note |-> note])
        /\ view' = view /\ fetch' = fetch
  BY DEF AgentEditStart
<1>2. /\ ViewTypeOK /\ OfflineHearNothing /\ EventsTell /\ FetchesTell /\ ViewsTell
      /\ EditsHaveViews /\ NotesStay /\ AgentsDoNotWait
  BY DEF ViewInv
<1>3. PICK sent \in Content :
        EditBegin(r, Agent, x, sent) /\ view' = view /\ fetch' = fetch
  <2>1. edits < MaxEdits /\ edits \in Nat /\ MaxEdits \in Nat
    BY <1>1, <1>2, EditsAssumption DEF EditBegin, ViewTypeOK
  <2>2. rows[x].note \in 0 .. MaxEdits
    BY <1>2 DEF ViewTypeOK, Copy, Content
  <2>3. \A note \in {0, edits + 1, rows[x].note} : [status |-> edits + 1, note |-> note] \in Content
    BY <2>1, <2>2 DEF Content
  <2> QED BY <1>1, <2>3
<1>4. /\ rows' = rows /\ online' = online /\ channel' = channel /\ doubts' = doubts
      /\ view' = view /\ fetch' = fetch
  BY <1>3 DEF EditBegin
<1>5. /\ viewCalls' \in [Req -> ViewCall] /\ edits' \in 0 .. MaxEdits /\ viewCalls[r] = Idle
      /\ \A d \in Req \ {r} : SameEdit(viewCalls[d], viewCalls'[d])
      /\ viewCalls'[r].at = "write" /\ viewCalls'[r].win = Agent
  BY <1>2, <1>3, BegunEdit
<1>6. \A d \in Req : viewCalls[d] \in ViewCall /\ viewCalls'[d] \in ViewCall
  BY <1>2, <1>5 DEF ViewTypeOK
<1>7. ViewTypeOK' /\ OfflineHearNothing'
  BY <1>2, <1>4, <1>5 DEF ViewTypeOK, OfflineHearNothing
<1>8. ~EditAt(r, "publish") /\ \A w \in Window, y \in Row : ~Writing(r, w, y)
  BY <1>5, <1>6, EditFields DEF EditAt, Writing
<1>9. EventsTell' /\ FetchesTell'
  BY <1>4, <1>5, <1>8, ToldStays DEF EditsGoOn
<1>10. ViewsTell'
  <2> SUFFICES ASSUME NEW w \in Window, NEW y \in Row,
                      view'[w] # NoView, doubts'[w] = {}, NoneFor(w, y)'
               PROVE  Agrees(w, y)'
    BY DEF ViewsTell
  <2>1. Agrees(w, y)
    BY <1>2, <1>4 DEF ViewsTell, NoneFor
  <2>2. ~Writing(r, w, y)'
    BY <1>5, AgentAssumption DEF Writing
  <2> QED BY <2>1, <2>2, <1>2, <1>4, <1>5, <1>8, AgreesStays
<1>11. EditsHaveViews'
  <2> SUFFICES ASSUME NEW d \in Req, viewCalls'[d] # Idle, viewCalls'[d].win # Agent
               PROVE  /\ view'[viewCalls'[d].win] \in Copy /\ viewCalls'[d].before \in Copy
                      /\ view'[viewCalls'[d].win] # NoView
                      /\ viewCalls'[d].alone =>
                           /\ \A q \in Req \ {d} : viewCalls'[q] # Idle
                                                     => viewCalls'[q].win # viewCalls'[d].win
                           /\ viewCalls'[d].at = "write" =>
                                \A y \in Row \ {viewCalls'[d].row} :
                                  view'[viewCalls'[d].win][y] = viewCalls'[d].before[y]
    BY DEF EditsHaveViews
  <2>1. /\ viewCalls[d] # Idle /\ viewCalls[d].win # Agent
        /\ SameEdit(viewCalls[d], viewCalls'[d])
    BY <1>5 DEF SameEdit
  <2>2. /\ view[viewCalls[d].win] \in Copy /\ viewCalls[d].before \in Copy
        /\ view[viewCalls[d].win] # NoView
        /\ viewCalls[d].alone =>
             /\ \A q \in Req \ {d} : viewCalls[q] # Idle => viewCalls[q].win # viewCalls[d].win
             /\ viewCalls[d].at = "write" => \A y \in Row \ {viewCalls[d].row} :
                  view[viewCalls[d].win][y] = viewCalls[d].before[y]
    BY <1>2, <2>1 DEF EditsHaveViews
  <2>3. \A q \in Req \ {r} : viewCalls'[q] # Idle
          => viewCalls[q] # Idle /\ viewCalls'[q].win = viewCalls[q].win
    BY <1>5 DEF SameEdit
  <2> QED BY <2>1, <2>2, <2>3, <1>4, <1>5 DEF SameEdit
<1>12. NotesStay' /\ AgentsDoNotWait'
  BY <1>2, <1>4, <1>5, <1>6, EditFields DEF NotesStay, AgentsDoNotWait, EditAt, SameEdit
<1> QED BY <1>7, <1>9, <1>10, <1>11, <1>12 DEF ViewInv

-----------------------------------------------------------------------------
\* The steps of edits.  A row just written is the one to be published.
LEMMA WriteKeepsViews ==
  ASSUME ViewInv, NEW r \in Req, EditWrite(r)
  PROVE  ViewInv'
<1>there. viewCalls[r] \in ViewCall /\ viewCalls[r] # Idle
  BY EditFields DEF ViewInv, ViewTypeOK, EditWrite, EditAt
<1>row. PICK x \in Row : x = viewCalls[r].row
  BY <1>there, EditFields
<1> DEFINE c == viewCalls[r]
           result == IF c.sent.note = 0 THEN [c.sent EXCEPT !.note = rows[x].note] ELSE c.sent
           written == [op |-> "edit", at |-> "publish", win |-> c.win, row |-> c.row,
                       sent |-> c.sent, before |-> c.before, alone |-> c.alone,
                       result |-> result]
<1>1. /\ ViewTypeOK /\ OfflineHearNothing /\ EventsTell /\ FetchesTell /\ ViewsTell
      /\ EditsHaveViews /\ NotesStay /\ AgentsDoNotWait
  BY DEF ViewInv
<1>2. /\ viewCalls[r] \in ViewCall /\ viewCalls[r] # Idle /\ viewCalls[r].at = "write"
      /\ rows \in Copy /\ viewCalls \in [Req -> ViewCall]
  BY <1>1, EditFields DEF EditWrite, EditAt, ViewTypeOK
<1>3. /\ x = c.row /\ c.win \in Window \cup {Agent} /\ c.sent \in Content
      /\ c.before \in Copy \cup {NoView} /\ c.alone \in BOOLEAN
  BY <1>2, <1>row, EditFields
<1>4. rows[x] \in Content
  BY <1>2 DEF Copy
<1>5. /\ result \in Content
      /\ result = c.sent \/ (c.sent.note = 0 /\ result.note # 0)
      /\ result.note = IF c.sent.note = 0 THEN rows[x].note ELSE c.sent.note
  <2>1. CASE c.sent.note # 0
    BY <2>1, <1>3
  <2>2. CASE c.sent.note = 0
    <3>1. /\ result = [c.sent EXCEPT !.note = rows[x].note] /\ result \in Content
          /\ result.note = rows[x].note /\ result.status = c.sent.status
      BY <2>2, <1>3, <1>4 DEF Content
    <3>2. /\ c.sent = [status |-> c.sent.status, note |-> c.sent.note]
          /\ result = [status |-> result.status, note |-> result.note]
      BY <3>1, <1>3 DEF Content
    <3>3. rows[x].note = 0 => result = c.sent
      BY <2>2, <3>1, <3>2
    <3> QED BY <2>2, <3>1, <3>3
  <2> QED BY <2>1, <2>2
<1>6. written \in ViewCall /\ written # Idle
  BY <1>3, <1>5 DEF ViewCall, Idle
<1>7. /\ rows' = [rows EXCEPT ![x] = result] /\ viewCalls' = [viewCalls EXCEPT ![r] = written]
      /\ UNCHANGED <<edits, view, online, channel, fetch, doubts>>
  BY <1>row DEF EditWrite
<1>8. /\ viewCalls'[r] = written /\ \A d \in Req \ {r} : viewCalls'[d] = viewCalls[d]
      /\ rows'[x] = result /\ \A y \in Row \ {x} : rows'[y] = rows[y]
      /\ rows' \in Copy /\ viewCalls' \in [Req -> ViewCall]
  BY <1>2, <1>3, <1>5, <1>6, <1>7 DEF Copy
<1>9. /\ written.at = "publish" /\ written.win = c.win /\ written.row = c.row
      /\ written.sent = c.sent /\ written.before = c.before /\ written.alone = c.alone
      /\ written.result = result /\ written.op = "edit"
  OBVIOUS
<1> HIDE DEF result, written
<1>10. ViewTypeOK' /\ OfflineHearNothing'
  BY <1>1, <1>7, <1>8 DEF ViewTypeOK, OfflineHearNothing
<1>11. Coming(x)'
  BY <1>8, <1>9, <1>row DEF Coming, EditAt
<1>12. \A y \in Row \ {x} : Coming(y) => Coming(y)'
  BY <1>2, <1>8, <1>row DEF Coming, EditAt
<1>13. EventsTell' /\ FetchesTell'
  <2>1. \A y \in Row : Coming(y)' \/ (rows'[y] = rows[y] /\ (Coming(y) => Coming(y)'))
    BY <1>8, <1>11, <1>12
  <2>2. EventsTell'
    BY <2>1, <1>1, <1>7 DEF EventsTell, LastFor
  <2>3. FetchesTell'
    BY <2>1, <1>1, <1>7 DEF FetchesTell, NoneFor
  <2> QED BY <2>2, <2>3
<1>14. ViewsTell'
  <2>0. \A w \in Window : Agrees(w, x)'
    BY <1>11 DEF Agrees
  <2> SUFFICES ASSUME NEW w \in Window, NEW y \in Row, y # x,
                      view'[w] # NoView, doubts'[w] = {}, NoneFor(w, y)'
               PROVE  Agrees(w, y)'
    BY <2>0 DEF ViewsTell
  <2>1. Agrees(w, y)
    BY <1>1, <1>7 DEF ViewsTell, NoneFor
  <2>2. \A d \in Req : SameEdit(viewCalls[d], viewCalls'[d]) \/ d = r
    BY <1>2, <1>8, SameIsSame
  <2>3. /\ ~(EditAt(r, "publish") /\ viewCalls[r].row = y)
        /\ ~Writing(r, w, y) /\ ~Writing(r, w, y)'
    BY <1>8, <1>9, <1>row DEF Writing
  <2>4. rows'[y] = rows[y] /\ view'[w][y] = view[w][y]
    BY <1>7, <1>8
  <2> QED BY <2>1, <2>2, <2>3, <2>4, <1>1, <1>8, AgreesStays
<1>15. EditsHaveViews'
  <2>1. \A u \in Window : Undisturbed(u)
    BY <1>7 DEF Undisturbed
  <2>2. \A d \in Req : viewCalls'[d] = Idle \/ Continues(viewCalls[d], viewCalls'[d])
    BY <1>2, <1>8, <1>9 DEF Continues
  <2> QED BY <2>1, <2>2, <1>1, <1>8, EditsKeepViews
<1>16. NotesStay'
  <2> SUFFICES ASSUME NEW d \in Req, (EditAt(d, "publish") \/ EditAt(d, "answer"))'
               PROVE  \/ viewCalls'[d].result = viewCalls'[d].sent
                      \/ viewCalls'[d].sent.note = 0 /\ rows'[viewCalls'[d].row].note # 0
    BY DEF NotesStay
  <2>1. CASE d = r
    BY <2>1, <1>5, <1>8, <1>9, <1>row
  <2>2. CASE d # r
    <3>1. /\ viewCalls'[d] = viewCalls[d]
          /\ \/ viewCalls[d].result = viewCalls[d].sent
             \/ viewCalls[d].sent.note = 0 /\ rows[viewCalls[d].row].note # 0
      BY <2>2, <1>1, <1>8 DEF NotesStay, EditAt
    <3>2. viewCalls[d].row \in Row
      BY <2>2, <1>2, <1>8, EditFields DEF EditAt
    <3>3. rows[x].note # 0 => rows'[x].note # 0
      BY <1>5, <1>8
    <3> QED BY <3>1, <3>2, <3>3, <1>8
  <2> QED BY <2>1, <2>2
<1>17. AgentsDoNotWait'
  BY <1>1, <1>8, <1>9 DEF AgentsDoNotWait, EditAt
<1> QED BY <1>10, <1>13, <1>14, <1>15, <1>16, <1>17 DEF ViewInv

\* A row is told to some of who is connected, and missed by everybody else.
LEMMA PublishedEdit ==
  ASSUME NEW c \in ViewCall, c # Idle, c.at = "publish"
  PROVE  LET d == [c EXCEPT !.at = "answer"]
         IN /\ d \in ViewCall /\ d # Idle /\ d.at = "answer" /\ d.win = c.win /\ d.row = c.row
            /\ d.sent = c.sent /\ d.before = c.before /\ d.alone = c.alone /\ d.result = c.result
<1>1. c \in [op : {"edit"}, at : {"publish", "answer"}, win : Window \cup {Agent}, row : Row,
             sent : Content, before : Copy \cup {NoView}, alone : BOOLEAN, result : Content]
  BY DEF ViewCall
<1>2. [c EXCEPT !.at = "answer"]
        \in [op : {"edit"}, at : {"publish", "answer"}, win : Window \cup {Agent}, row : Row,
             sent : Content, before : Copy \cup {NoView}, alone : BOOLEAN, result : Content]
  BY <1>1
<1>3. [c EXCEPT !.at = "answer"] # Idle
  BY <1>2 DEF Idle
<1> QED BY <1>1, <1>2, <1>3 DEF ViewCall

LEMMA OneMore ==
  ASSUME NEW s \in Seq(Event), NEW e \in Event
  PROVE  /\ Append(s, e) \in Seq(Event) /\ DOMAIN Append(s, e) = 1 .. (Len(s) + 1)
         /\ Append(s, e)[Len(s) + 1] = e
         /\ \A i \in DOMAIN s : Append(s, e)[i] = s[i]
OBVIOUS

\* Events that no longer tell the latest.
LEMMA OutdatedEvents ==
  ASSUME NEW s \in Seq(Event)
  PROVE  /\ Outdated(s) \in Seq(Event) /\ DOMAIN Outdated(s) = DOMAIN s
         /\ Len(Outdated(s)) = Len(s)
         /\ \A i \in DOMAIN s : ~Outdated(s)[i].sound /\ Outdated(s)[i].row = s[i].row
<1>1. \A i \in DOMAIN s : LET e == [s[i] EXCEPT !.sound = FALSE]
                          IN e \in Event /\ ~e.sound /\ e.row = s[i].row
  <2> TAKE i \in DOMAIN s
  <2>1. s[i] \in Event
    OBVIOUS
  <2> QED BY <2>1 DEF Event
<1>2. PICK n \in Nat : n = Len(s) /\ DOMAIN s = 1 .. n
  OBVIOUS
<1> DEFINE t == [i \in 1 .. n |-> [s[i] EXCEPT !.sound = FALSE]]
<1>3. t \in [1 .. n -> Event] /\ \A i \in 1 .. n : ~t[i].sound /\ t[i].row = s[i].row
  BY <1>1, <1>2
<1>4. Outdated(s) = t
  BY <1>2 DEF Outdated
<1> HIDE DEF t
<1>5. t \in Seq(Event) /\ DOMAIN t = 1 .. n /\ Len(t) = n
  BY <1>3
<1> QED BY <1>2, <1>3, <1>4, <1>5

LEMMA PublishKeepsViews ==
  ASSUME ViewInv, NEW r \in Req, EditPublish(r)
  PROVE  ViewInv'
<1>1. /\ ViewTypeOK /\ OfflineHearNothing /\ EventsTell /\ FetchesTell /\ ViewsTell
      /\ EditsHaveViews /\ NotesStay /\ AgentsDoNotWait
  BY DEF ViewInv
<1>2. PICK c \in ViewCall : c = viewCalls[r] /\ c # Idle /\ c.at = "publish" /\ c.op = "edit"
  BY <1>1, EditFields DEF EditPublish, EditAt, ViewTypeOK
<1>3. PICK x \in Row : x = c.row
  BY <1>2, EditFields
<1> DEFINE e == [row |-> x, content |-> c.sent,
                 sound |-> c.sent = rows[x] \/ ToBePublished(r, x)]
<1>4. e \in Event
  BY <1>2, EditFields DEF Event
<1>0. PICK reached \in SUBSET {w \in Window : online[w]} :
        /\ channel' = [w \in Window |-> IF w \in reached THEN Append(channel[w], e)
                                        ELSE Outdated(channel[w])]
        /\ doubts' = [w \in Window |-> IF w \in reached THEN doubts[w]
                                       ELSE doubts[w] \cup {"missed"}]
        /\ fetch' = [w \in Window |-> IF w \in reached THEN fetch[w] ELSE Unsound(fetch[w])]
  BY <1>2, <1>3 DEF EditPublish
<1>5. /\ \A w \in Window : /\ channel'[w] = IF w \in reached THEN Append(channel[w], e)
                                            ELSE Outdated(channel[w])
                           /\ doubts'[w] = IF w \in reached THEN doubts[w]
                                           ELSE doubts[w] \cup {"missed"}
                           /\ fetch'[w] = IF w \in reached THEN fetch[w] ELSE Unsound(fetch[w])
      /\ rows' = rows /\ edits' = edits /\ view' = view /\ online' = online
  BY <1>0 DEF EditPublish
<1>6. /\ \A d \in Req \ {r} : viewCalls'[d] = viewCalls[d]
      /\ viewCalls' \in [Req -> ViewCall]
      /\ viewCalls'[r] # Idle =>
           /\ viewCalls'[r].at = "answer" /\ viewCalls'[r].win = c.win
           /\ viewCalls'[r].row = c.row /\ viewCalls'[r].sent = c.sent
           /\ viewCalls'[r].before = c.before /\ viewCalls'[r].alone = c.alone
           /\ viewCalls'[r].result = c.result /\ c.win # Agent
  <2>1. viewCalls \in [Req -> ViewCall]
    BY <1>1 DEF ViewTypeOK
  <2>2. CASE c.win = Agent
    <3>1. viewCalls' = [viewCalls EXCEPT ![r] = Idle]
      BY <2>2, <1>2 DEF EditPublish, End
    <3>2. Idle \in ViewCall
      BY DEF ViewCall
    <3> QED BY <2>1, <3>1, <3>2
  <2>3. CASE c.win # Agent
    <3>1. viewCalls' = [viewCalls EXCEPT ![r] = [c EXCEPT !.at = "answer"]]
      BY <2>3, <1>2 DEF EditPublish
    <3> DEFINE d == [c EXCEPT !.at = "answer"]
    <3>2. /\ d \in ViewCall /\ d # Idle /\ d.at = "answer" /\ d.win = c.win /\ d.row = c.row
          /\ d.sent = c.sent /\ d.before = c.before /\ d.alone = c.alone /\ d.result = c.result
      BY <1>2, PublishedEdit
    <3>3. viewCalls'[r] = d
      BY <2>1, <3>1
    <3> HIDE DEF d
    <3>4. \A q \in Req \ {r} : viewCalls'[q] = viewCalls[q]
      BY <2>1, <3>1
    <3>5. viewCalls' \in [Req -> ViewCall]
      BY <2>1, <3>1, <3>2 DEF d
    <3> QED BY <2>3, <3>2, <3>3, <3>4, <3>5
  <2> QED BY <2>2, <2>3
<1> HIDE DEF e
<1>7. e.row = x /\ e.content = c.sent /\ e.sound = (c.sent = rows[x] \/ ToBePublished(r, x))
  BY DEF e
<1>8. \A d \in Req : viewCalls[d] \in ViewCall
  BY <1>1 DEF ViewTypeOK
<1>9. (\A y \in Row \ {x} : Coming(y) => Coming(y)') /\ (ToBePublished(r, x) => Coming(x)')
  BY <1>2, <1>3, <1>5, <1>6 DEF Coming, ToBePublished, EditAt
<1>10. \A w \in Window : /\ channel[w] \in Seq(Event) /\ Len(channel[w]) \in Nat
                         /\ DOMAIN channel[w] = 1 .. Len(channel[w])
  BY <1>1 DEF ViewTypeOK
<1>11. \A w \in Window : w \in reached =>
         /\ DOMAIN channel'[w] = 1 .. (Len(channel[w]) + 1)
         /\ channel'[w][Len(channel[w]) + 1] = e
         /\ \A i \in DOMAIN channel[w] : channel'[w][i] = channel[w][i]
  <2> SUFFICES ASSUME NEW w \in Window, w \in reached
               PROVE  /\ DOMAIN channel'[w] = 1 .. (Len(channel[w]) + 1)
                      /\ channel'[w][Len(channel[w]) + 1] = e
                      /\ \A i \in DOMAIN channel[w] : channel'[w][i] = channel[w][i]
    OBVIOUS
  <2>1. PICK s \in Seq(Event) : s = channel[w]
    BY <1>10
  <2>2. channel'[w] = Append(s, e)
    BY <2>1, <1>5
  <2> QED BY <2>1, <2>2, <1>4, OneMore
<1>12. ViewTypeOK'
  <2>1. channel' \in [Window -> Seq(Event)]
    <3>1. \A w \in Window : channel'[w] \in Seq(Event)
      <4> TAKE w \in Window
      <4>1. PICK s \in Seq(Event) : s = channel[w]
        BY <1>10
      <4>2. channel'[w] = IF w \in reached THEN Append(s, e) ELSE Outdated(s)
        BY <4>1, <1>5
      <4>3. Append(s, e) \in Seq(Event)
        BY <1>4, OneMore
      <4>4. Outdated(s) \in Seq(Event)
        BY OutdatedEvents
      <4>5. CASE w \in reached
        BY <4>2, <4>3, <4>5
      <4>6. CASE w \notin reached
        BY <4>2, <4>4, <4>6
      <4> QED BY <4>5, <4>6
    <3>2. channel' = [w \in Window |-> channel'[w]]
      BY <1>0
    <3> QED BY <3>1, <3>2
  <2>2. fetch' \in [Window -> Fetch]
    <3>1. \A w \in Window : fetch'[w] \in Fetch
      <4> TAKE w \in Window
      <4>1. fetch[w] \in Fetch
        BY <1>1 DEF ViewTypeOK
      <4>2. fetch'[w] = fetch[w] \/ fetch'[w] = Unsound(fetch[w])
        BY <1>5
      <4>3. Unsound(fetch[w]) \in Fetch
        BY <4>1, FetchFields
      <4> QED BY <4>1, <4>2, <4>3
    <3>2. fetch' = [w \in Window |-> fetch'[w]]
      BY <1>0
    <3> QED BY <3>1, <3>2
  <2>3. doubts' \in [Window -> SUBSET {"missed", "event", "answer", "rollback", "refetch"}]
    BY <1>0, <1>1 DEF ViewTypeOK
  <2> QED BY <1>1, <1>5, <1>6, <2>1, <2>2, <2>3 DEF ViewTypeOK
<1>13. OfflineHearNothing'
  <2> SUFFICES ASSUME NEW w \in Window, ~online[w]
               PROVE  channel'[w] = <<>>
    BY <1>5 DEF OfflineHearNothing
  <2>1. channel[w] = <<>> /\ channel'[w] = Outdated(channel[w])
    BY <1>1, <1>5 DEF OfflineHearNothing
  <2>2. channel'[w] \in Seq(Event) /\ Len(channel'[w]) = 0
    BY <2>1, <1>10, OutdatedEvents
  <2> QED BY <2>2
<1>14. \A w \in Window, y \in Row : NoneFor(w, y)' => w \notin reached \/ (y # x /\ NoneFor(w, y))
  <2> SUFFICES ASSUME NEW w \in Window, NEW y \in Row, NoneFor(w, y)', w \in reached
               PROVE  y # x /\ NoneFor(w, y)
    OBVIOUS
  <2>1. \A i \in DOMAIN channel'[w] : channel'[w][i].row # y
    BY DEF NoneFor
  <2>2. Len(channel[w]) + 1 \in DOMAIN channel'[w] /\ DOMAIN channel[w] \subseteq DOMAIN channel'[w]
    BY <1>10, <1>11
  <2> QED BY <2>1, <2>2, <1>7, <1>11 DEF NoneFor
<1>15. EventsTell'
  <2> SUFFICES ASSUME NEW w \in Window, NEW y \in Row, NEW i \in DOMAIN channel'[w],
                      LastFor(w, y, i)'
               PROVE  Coming(y)' \/ ~channel'[w][i].sound \/ channel'[w][i].content = rows'[y]
    BY DEF EventsTell
  <2>1. CASE w \notin reached
    <3>1. channel'[w] = Outdated(channel[w])
      BY <2>1, <1>5
    <3> QED BY <3>1, <1>10, OutdatedEvents
  <2>2. CASE w \in reached /\ i = Len(channel[w]) + 1
    <3>1. channel'[w][i] = e /\ y = x
      BY <2>2, <1>7, <1>11 DEF LastFor
    <3> QED BY <3>1, <1>5, <1>7, <1>9
  <2>3. CASE w \in reached /\ i # Len(channel[w]) + 1
    <3>1. i \in DOMAIN channel[w] /\ channel'[w][i] = channel[w][i] /\ i < Len(channel[w]) + 1
      BY <2>3, <1>10, <1>11
    <3>2. /\ channel'[w][i].row = y
          /\ \A j \in DOMAIN channel'[w] : j > i => channel'[w][j].row # y
      BY DEF LastFor
    <3>3. y # x
      <4>1. Len(channel[w]) + 1 \in DOMAIN channel'[w] /\ Len(channel[w]) + 1 > i
        BY <2>3, <3>1, <1>10, <1>11
      <4> QED BY <4>1, <3>2, <2>3, <1>7, <1>11
    <3>4. LastFor(w, y, i)
      <4>1. DOMAIN channel[w] \subseteq DOMAIN channel'[w]
        BY <2>3, <1>10, <1>11
      <4> QED BY <4>1, <2>3, <3>1, <3>2, <1>11 DEF LastFor
    <3> QED BY <3>1, <3>3, <3>4, <1>1, <1>5, <1>9 DEF EventsTell
  <2> QED BY <2>1, <2>2, <2>3
<1>16. FetchesTell'
  <2> SUFFICES ASSUME NEW w \in Window, NEW y \in Row,
                      fetch'[w].at = "read", NoneFor(w, y)', fetch'[w].sound
               PROVE  Coming(y)' \/ fetch'[w].rows[y] = rows'[y]
    BY DEF FetchesTell
  <2>1. w \in reached /\ fetch'[w] = fetch[w]
    <3>1. fetch[w] \in Fetch
      BY <1>1 DEF ViewTypeOK
    <3>2. w \notin reached => fetch'[w] = Unsound(fetch[w])
      BY <1>5
    <3>3. Unsound(fetch[w]).at = "read" => ~Unsound(fetch[w]).sound
      BY <3>1, FetchFields
    <3> QED BY <3>2, <3>3, <1>5
  <2>2. y # x /\ NoneFor(w, y)
    BY <2>1, <1>14
  <2> QED BY <2>1, <2>2, <1>1, <1>5, <1>9 DEF FetchesTell
<1>17. ViewsTell'
  <2> SUFFICES ASSUME NEW w \in Window, NEW y \in Row,
                      view'[w] # NoView, doubts'[w] = {}, NoneFor(w, y)'
               PROVE  Agrees(w, y)'
    BY DEF ViewsTell
  <2>1. w \in reached /\ doubts[w] = {} /\ y # x /\ NoneFor(w, y)
    BY <1>5, <1>14
  <2>2. Agrees(w, y)
    BY <2>1, <1>1, <1>5 DEF ViewsTell
  <2>3. /\ ~(EditAt(r, "publish") /\ viewCalls[r].row = y)
        /\ ~Writing(r, w, y) /\ ~Writing(r, w, y)'
    BY <2>1, <1>2, <1>3, <1>6, EditFields DEF Writing, EditAt
  <2>4. \A d \in Req \ {r} : SameEdit(viewCalls[d], viewCalls'[d])
    BY <1>6, <1>8, SameIsSame
  <2> QED BY <2>2, <2>3, <2>4, <1>1, <1>5, <1>6, AgreesStays
<1>18. EditsHaveViews'
  <2>1. \A u \in Window : Undisturbed(u)
    BY <1>5 DEF Undisturbed
  <2>2. \A d \in Req : viewCalls'[d] = Idle \/ Continues(viewCalls[d], viewCalls'[d])
    BY <1>2, <1>6 DEF Continues
  <2> QED BY <2>1, <2>2, <1>1, <1>6, EditsKeepViews
<1>19. NotesStay' /\ AgentsDoNotWait'
  <2>1. \A d \in Req : (EditAt(d, "publish") \/ EditAt(d, "answer"))' =>
          /\ EditAt(d, "publish") \/ EditAt(d, "answer")
          /\ viewCalls'[d].result = viewCalls[d].result /\ viewCalls'[d].sent = viewCalls[d].sent
          /\ viewCalls'[d].row = viewCalls[d].row
    BY <1>2, <1>6, EditFields DEF EditAt
  <2>2. NotesStay'
    BY <2>1, <1>1, <1>5 DEF NotesStay
  <2>3. AgentsDoNotWait'
    BY <1>1, <1>2, <1>6, EditFields DEF AgentsDoNotWait, EditAt
  <2> QED BY <2>2, <2>3
<1> QED BY <1>12, <1>13, <1>15, <1>16, <1>17, <1>18, <1>19 DEF ViewInv

-----------------------------------------------------------------------------
\* The end of edits.
LEMMA EndedEdit ==
  ASSUME ViewTypeOK, NEW r \in Req, NEW w, viewCalls' = Disturb(End(viewCalls, r), w)
  PROVE  /\ viewCalls' \in [Req -> ViewCall] /\ viewCalls'[r] = Idle
         /\ \A d \in Req \ {r} : SameEdit(viewCalls[d], viewCalls'[d])
         /\ \A d \in Req : viewCalls'[d] # Idle /\ viewCalls'[d].win = w => ~viewCalls'[d].alone
<1> DEFINE calls == End(viewCalls, r)
<1>1. /\ calls \in [Req -> ViewCall] /\ calls[r] = Idle
      /\ \A d \in Req \ {r} : calls[d] = viewCalls[d]
  <2>1. Idle \in ViewCall
    BY DEF ViewCall
  <2> QED BY <2>1 DEF ViewTypeOK, End
<1> HIDE DEF calls
<1>2. viewCalls' = Disturb(calls, w)
  BY DEF calls
<1>3. /\ viewCalls' \in [Req -> ViewCall]
      /\ \A d \in Req : /\ SameEdit(calls[d], viewCalls'[d])
                        /\ viewCalls'[d] # Idle /\ viewCalls'[d].win = w => ~viewCalls'[d].alone
  BY <1>1, <1>2, Disturbance
<1>4. viewCalls'[r] = Idle
  BY <1>1, <1>3 DEF SameEdit
<1> QED BY <1>1, <1>3, <1>4

\* The answer brings the row as it was written: when the copy said what was
\* sent and that is how the row is, it has the note that was kept, too.
LEMMA AnswerKeepsViews ==
  ASSUME ViewInv, NEW r \in Req, EditAnswer(r)
  PROVE  ViewInv'
<1>1. /\ ViewTypeOK /\ OfflineHearNothing /\ EventsTell /\ FetchesTell /\ ViewsTell
      /\ EditsHaveViews /\ NotesStay /\ AgentsDoNotWait /\ EditAt(r, "answer")
  BY DEF ViewInv, EditAnswer
<1>2. PICK c \in ViewCall : c = viewCalls[r] /\ c # Idle /\ c.at = "answer"
  BY <1>1, EditFields DEF EditAt, ViewTypeOK
<1>3. PICK w \in Window, x \in Row : w = c.win /\ x = c.row
  BY <1>1, <1>2, EditFields DEF AgentsDoNotWait
<1>4. /\ c.result \in Content
      /\ c.result = c.sent \/ (c.sent.note = 0 /\ rows[x].note # 0)
      /\ view[w] \in Copy
  <2>1. c.result \in Content
    BY <1>2, EditFields
  <2>2. c.result = c.sent \/ (c.sent.note = 0 /\ rows[x].note # 0)
    BY <1>1, <1>2, <1>3 DEF NotesStay
  <2>3. w # Agent
    BY AgentAssumption
  <2>4. view[w] \in Copy
    BY <2>3, <1>1, <1>2, <1>3 DEF EditsHaveViews
  <2> QED BY <2>1, <2>2, <2>4
<1>5. /\ rows' = rows /\ edits' = edits /\ online' = online /\ channel' = channel
      /\ fetch' = fetch /\ view' = [view EXCEPT ![w][x] = c.result]
      /\ viewCalls' = Disturb(End(viewCalls, r), w)
      /\ IF view[w][x] \in {c.sent, c.result} THEN doubts' = doubts ELSE Doubt(w, "answer")
  BY <1>2, <1>3 DEF EditAnswer
<1>6. /\ viewCalls' \in [Req -> ViewCall] /\ viewCalls'[r] = Idle
      /\ \A d \in Req \ {r} : SameEdit(viewCalls[d], viewCalls'[d])
      /\ \A d \in Req : viewCalls'[d] # Idle /\ viewCalls'[d].win = w => ~viewCalls'[d].alone
  BY <1>1, <1>5, EndedEdit
<1>7. \A d \in Req : viewCalls[d] \in ViewCall /\ viewCalls'[d] \in ViewCall
  BY <1>1, <1>6 DEF ViewTypeOK
<1>8. /\ view'[w] \in Copy /\ view'[w] # NoView /\ view'[w][x] = c.result
      /\ \A y \in Row \ {x} : view'[w][y] = view[w][y]
      /\ \A u \in Window \ {w} : view'[u] = view[u]
      /\ view' \in [Window -> Copy \cup {NoView}]
  <2>1. view \in [Window -> Copy \cup {NoView}]
    BY <1>1 DEF ViewTypeOK
  <2>2. view'[w] = [view[w] EXCEPT ![x] = c.result]
    BY <1>5, <2>1
  <2>3. [view[w] EXCEPT ![x] = c.result] \in Copy
    BY <1>4, Copies
  <2>4. \A v \in Copy : v # NoView
    BY <1>4, Copies
  <2>5. \A u \in Window \ {w} : view'[u] = view[u]
    BY <1>5, <2>1
  <2>6. view'[w][x] = c.result /\ \A y \in Row \ {x} : view'[w][y] = view[w][y]
    BY <1>4, <2>2 DEF Copy
  <2>7. view' \in [Window -> Copy \cup {NoView}]
    BY <1>5, <2>1, <2>2, <2>3
  <2> QED BY <2>2, <2>3, <2>4, <2>5, <2>6, <2>7
<1>9. /\ \A u \in Window : doubts'[u] = {} => doubts[u] = {}
      /\ doubts'[w] = {} => view[w][x] \in {c.sent, c.result}
      /\ doubts' \in [Window -> SUBSET {"missed", "event", "answer", "rollback", "refetch"}]
  BY <1>1, <1>5 DEF Doubt, ViewTypeOK
<1>10. ViewTypeOK' /\ OfflineHearNothing'
  BY <1>1, <1>5, <1>6, <1>8, <1>9 DEF ViewTypeOK, OfflineHearNothing
<1>11. EventsTell' /\ FetchesTell'
  <2>1. EditsGoOn
    BY <1>2, <1>6 DEF EditsGoOn, EditAt
  <2> QED BY <2>1, <1>5, ToldStays
<1>12. ViewsTell'
  <2> SUFFICES ASSUME NEW u \in Window, NEW y \in Row,
                      view'[u] # NoView, doubts'[u] = {}, NoneFor(u, y)'
               PROVE  Agrees(u, y)'
    BY DEF ViewsTell
  <2>1. view[u] # NoView /\ NoneFor(u, y) /\ Agrees(u, y)
    <3>1. view[w] # NoView
      BY <1>4, Copies
    <3> QED BY <3>1, <1>1, <1>5, <1>8, <1>9 DEF ViewsTell, NoneFor
  <2>2. \A d \in Req \ {r} : SameEdit(viewCalls[d], viewCalls'[d])
    BY <1>6
  <2>3. /\ ~EditAt(r, "publish") /\ ~Writing(r, u, y) /\ ~Writing(r, u, y)'
    BY <1>2, <1>6, <1>7, EditFields DEF Writing, EditAt
  <2>4. CASE ~(u = w /\ y = x)
    <3>1. view'[u][y] = view[u][y]
      BY <2>4, <1>8
    <3> QED BY <3>1, <2>1, <2>2, <2>3, <1>1, <1>5, <1>6, AgreesStays
  <2>5. CASE u = w /\ y = x
    <3>1. \A d \in Req : ~(Writing(d, w, x)' /\ viewCalls'[d].alone)
      BY <1>6, <1>7, EditFields DEF Writing, EditAt
    <3>2. CASE Coming(x)
      <4>1. Coming(x)'
        BY <3>2, <2>2, <2>3, <1>1, <1>5, ComingStays
      <4> QED BY <4>1, <2>5 DEF Agrees
    <3>3. CASE \E d \in Req : Writing(d, w, x)
      <4>1. \E d \in Req : Writing(d, w, x)'
        BY <3>3, <2>2, <2>3, <2>5, <1>7, EditFields DEF Writing, EditAt, SameEdit
      <4> QED BY <4>1, <3>1, <2>5 DEF Agrees
    <3>4. CASE ~Coming(x) /\ ~\E d \in Req : Writing(d, w, x)
      <4>1. view[w][x] = rows[x]
        BY <3>4, <2>1, <2>5 DEF Agrees
      <4>2. rows[x] \in {c.sent, c.result}
        BY <4>1, <2>5, <1>9
      <4>3. c.result = rows[x]
        BY <4>2, <1>4
      <4> QED BY <4>3, <3>1, <2>5, <1>5, <1>8 DEF Agrees
    <3> QED BY <3>2, <3>3, <3>4
  <2> QED BY <2>4, <2>5
<1>13. \A u \in Window : Undisturbed(u)
  BY <1>6, <1>8 DEF Undisturbed
<1>14. EditsHaveViews' /\ NotesStay' /\ AgentsDoNotWait'
  BY <1>5, <1>6, <1>13, FactsOfEditsStay
<1> QED BY <1>10, <1>11, <1>12, <1>14 DEF ViewInv

\* An edit that was alone in its window is undone without a trace.
LEMMA FailKeepsViews ==
  ASSUME ViewInv, NEW r \in Req, EditFail(r)
  PROVE  ViewInv'
<1>1. /\ ViewTypeOK /\ OfflineHearNothing /\ EventsTell /\ FetchesTell /\ ViewsTell
      /\ EditsHaveViews /\ NotesStay /\ AgentsDoNotWait
      /\ EditAt(r, "write") \/ EditAt(r, "answer")
  BY DEF ViewInv, EditFail
<1>2. PICK c \in ViewCall : c = viewCalls[r] /\ c # Idle /\ c.at \in {"write", "answer"}
  BY <1>1, EditFields DEF EditAt, ViewTypeOK
<1>3. PICK x \in Row, w \in Window \cup {Agent} : x = c.row /\ w = c.win
  BY <1>2, EditFields
<1>4. /\ rows' = rows /\ edits' = edits /\ online' = online /\ channel' = channel
      /\ fetch' = fetch /\ viewCalls' = Disturb(End(viewCalls, r), w)
  BY <1>2, <1>3 DEF EditFail
<1>5. /\ viewCalls' \in [Req -> ViewCall] /\ viewCalls'[r] = Idle
      /\ \A d \in Req \ {r} : SameEdit(viewCalls[d], viewCalls'[d])
      /\ \A d \in Req : viewCalls'[d] # Idle /\ viewCalls'[d].win = w => ~viewCalls'[d].alone
  BY <1>1, <1>4, EndedEdit
<1>6. \A d \in Req : viewCalls[d] \in ViewCall /\ viewCalls'[d] \in ViewCall
  BY <1>1, <1>5 DEF ViewTypeOK
<1>7. /\ view' \in [Window -> Copy \cup {NoView}]
      /\ doubts' \in [Window -> SUBSET {"missed", "event", "answer", "rollback", "refetch"}]
      /\ \A u \in Window \ {w} : view'[u] = view[u]
      /\ \A u \in Window : doubts'[u] = {} => doubts[u] = {}
      /\ w # Agent => /\ c.before \in Copy /\ view[w] \in Copy
                      /\ view[w] # NoView /\ view'[w] = c.before
                      /\ doubts'[w] = {} => c.at = "write" /\ c.alone
  <2>1. CASE w = Agent
    BY <2>1, <1>1, <1>2, <1>3, AgentAssumption DEF EditFail, ViewTypeOK
  <2>2. CASE w # Agent
    <3>1. c.before \in Copy /\ view[w] \in Copy /\ view[w] # NoView
      BY <2>2, <1>1, <1>2, <1>3 DEF EditsHaveViews
    <3>2. view' = [view EXCEPT ![w] = c.before]
      BY <2>2, <1>2, <1>3 DEF EditFail
    <3>3. IF c.at = "write" /\ c.alone THEN doubts' = doubts ELSE Doubt(w, "rollback")
      BY <2>2, <1>2, <1>3, EditFields DEF EditFail, EditAt
    <3>4. /\ view' \in [Window -> Copy \cup {NoView}] /\ view'[w] = c.before
          /\ \A u \in Window \ {w} : view'[u] = view[u]
      BY <2>2, <3>1, <3>2, <1>1 DEF ViewTypeOK
    <3>5. /\ doubts' \in [Window -> SUBSET {"missed", "event", "answer", "rollback", "refetch"}]
          /\ \A u \in Window : doubts'[u] = {} => doubts[u] = {}
          /\ doubts'[w] = {} => c.at = "write" /\ c.alone
      <4>1. CASE c.at = "write" /\ c.alone
        BY <4>1, <3>3, <1>1 DEF ViewTypeOK
      <4>2. CASE ~(c.at = "write" /\ c.alone)
        BY <4>2, <2>2, <3>3, <1>1 DEF ViewTypeOK, Doubt
      <4> QED BY <4>1, <4>2
    <3> QED BY <3>1, <3>4, <3>5
  <2> QED BY <2>1, <2>2
<1>8. ViewTypeOK' /\ OfflineHearNothing'
  BY <1>1, <1>4, <1>5, <1>7 DEF ViewTypeOK, OfflineHearNothing
<1>9. EventsTell' /\ FetchesTell'
  <2>1. EditsGoOn
    BY <1>2, <1>5 DEF EditsGoOn, EditAt
  <2> QED BY <2>1, <1>4, ToldStays
<1>10. ViewsTell'
  <2> SUFFICES ASSUME NEW u \in Window, NEW y \in Row,
                      view'[u] # NoView, doubts'[u] = {}, NoneFor(u, y)'
               PROVE  Agrees(u, y)'
    BY DEF ViewsTell
  <2>1. Agrees(u, y)
    <3>1. view[u] # NoView
      BY <1>7, AgentAssumption
    <3> QED BY <3>1, <1>1, <1>4, <1>7 DEF ViewsTell, NoneFor
  <2>2. \A d \in Req \ {r} : SameEdit(viewCalls[d], viewCalls'[d])
    BY <1>5
  <2>3. CASE u # w
    <3>1. /\ ~EditAt(r, "publish") /\ ~Writing(r, u, y) /\ ~Writing(r, u, y)'
      BY <2>3, <1>2, <1>3, <1>5, <1>6, EditFields DEF Writing, EditAt
    <3>2. view'[u][y] = view[u][y]
      BY <2>3, <1>7
    <3> QED BY <3>1, <3>2, <2>1, <2>2, <1>1, <1>4, <1>5, AgreesStays
  <2>4. CASE u = w
    <3>1. w # Agent /\ c.at = "write" /\ c.alone
      BY <2>4, <1>7, AgentAssumption
    <3>2. \A d \in Req : ~(Writing(d, w, y)' /\ viewCalls'[d].alone)
      BY <1>5, <1>6, EditFields DEF Writing, EditAt
    <3>3. CASE Coming(y)
      <4>1. \A d \in Req : EditAt(d, "publish") => SameEdit(viewCalls[d], viewCalls'[d])
        BY <1>2, <1>5 DEF EditAt
      <4>2. Coming(y)'
        BY <3>3, <4>1, <1>1, <1>4, ComingStays
      <4> QED BY <4>2, <2>4 DEF Agrees
    <3>4. CASE ~Coming(y)
      <4>1. /\ (\E d \in Req : Writing(d, w, y)) \/ view[w][y] = rows[y]
            /\ \A d \in Req : Writing(d, w, y) /\ viewCalls[d].alone
                                => viewCalls[d].before[y] = rows[y]
        BY <3>4, <2>1, <2>4 DEF Agrees
      <4>2. /\ \A d \in Req \ {r} : viewCalls[d] # Idle => viewCalls[d].win # w
            /\ \A z \in Row \ {x} : view[w][z] = c.before[z]
        BY <3>1, <1>1, <1>2, <1>3 DEF EditsHaveViews
      <4>3. c.before[y] = rows[y]
        <5>1. CASE y = x
          <6>1. Writing(r, w, y)
            BY <5>1, <3>1, <1>2, <1>3, EditFields DEF Writing, EditAt
          <6> QED BY <6>1, <4>1, <3>1, <1>2
        <5>2. CASE y # x
          <6>1. \A d \in Req : ~Writing(d, w, y)
            BY <5>2, <4>2, <1>2, <1>3, <1>6, EditFields DEF Writing, EditAt
          <6> QED BY <6>1, <5>2, <4>1, <4>2
        <5> QED BY <5>1, <5>2
      <4>4. view'[w][y] = rows'[y]
        BY <4>3, <3>1, <1>4, <1>7
      <4> QED BY <4>4, <3>2, <2>4 DEF Agrees
    <3> QED BY <3>3, <3>4
  <2> QED BY <2>3, <2>4
<1>11. \A u \in Window : Undisturbed(u)
  <2> TAKE u \in Window
  <2>1. CASE u # w
    BY <2>1, <1>7 DEF Undisturbed
  <2>2. CASE u = w
    <3>1. w # Agent
      BY <2>2, AgentAssumption
    <3>2. c.before # NoView
      BY <3>1, <1>7 DEF Copy, NoView
    <3> QED BY <2>2, <3>1, <3>2, <1>5, <1>7 DEF Undisturbed
  <2> QED BY <2>1, <2>2
<1>12. EditsHaveViews' /\ NotesStay' /\ AgentsDoNotWait'
  BY <1>4, <1>5, <1>11, FactsOfEditsStay
<1> QED BY <1>8, <1>9, <1>10, <1>12 DEF ViewInv

\* A row that is written and never told leaves every window in doubt.
LEMMA LossKeepsViews ==
  ASSUME ViewInv, NEW r \in Req, EditLost(r)
  PROVE  ViewInv'
<1>1. /\ ViewTypeOK /\ OfflineHearNothing /\ EditsHaveViews /\ EditAt(r, "publish")
  BY DEF ViewInv, EditLost
<1>2. PICK c \in ViewCall : c = viewCalls[r] /\ c # Idle
  BY <1>1, EditFields DEF EditAt, ViewTypeOK
<1>3. PICK w \in Window \cup {Agent} : w = c.win
  BY <1>2, EditFields
<1>4. /\ rows' = rows /\ edits' = edits /\ online' = online
      /\ viewCalls' = Disturb(End(viewCalls, r), w)
      /\ doubts' = [u \in Window |-> doubts[u] \cup {"missed"}]
      /\ fetch' = [u \in Window |-> Unsound(fetch[u])]
      /\ channel' = [u \in Window |-> Outdated(channel[u])]
  BY <1>2, <1>3 DEF EditLost
<1>5. /\ viewCalls' \in [Req -> ViewCall] /\ viewCalls'[r] = Idle
      /\ \A d \in Req \ {r} : SameEdit(viewCalls[d], viewCalls'[d])
      /\ \A d \in Req : viewCalls'[d] # Idle /\ viewCalls'[d].win = w => ~viewCalls'[d].alone
  BY <1>1, <1>4, EndedEdit
<1>6. /\ view' \in [Window -> Copy \cup {NoView}]
      /\ \A u \in Window \ {w} : view'[u] = view[u]
      /\ w # Agent => /\ c.before \in Copy /\ view[w] \in Copy
                      /\ view[w] # NoView /\ view'[w] = c.before
  <2>1. CASE w = Agent
    BY <2>1, <1>1, <1>2, <1>3, AgentAssumption DEF EditLost, ViewTypeOK
  <2>2. CASE w # Agent
    <3>1. c.before \in Copy /\ view[w] \in Copy /\ view[w] # NoView
      BY <2>2, <1>1, <1>2, <1>3 DEF EditsHaveViews
    <3>2. view' = [view EXCEPT ![w] = c.before]
      BY <2>2, <1>2, <1>3 DEF EditLost
    <3> QED BY <2>2, <3>1, <3>2, <1>1, <1>2 DEF ViewTypeOK
  <2> QED BY <2>1, <2>2
<1>7. \A u \in Window : /\ channel[u] \in Seq(Event) /\ Len(channel[u]) \in Nat
                        /\ DOMAIN channel[u] = 1 .. Len(channel[u]) /\ fetch[u] \in Fetch
  BY <1>1 DEF ViewTypeOK
<1>8. \A u \in Window : /\ channel'[u] \in Seq(Event) /\ Len(channel'[u]) = Len(channel[u])
                        /\ \A i \in DOMAIN channel'[u] : ~channel'[u][i].sound
  BY <1>4, <1>7, OutdatedEvents
<1>9. ViewTypeOK'
  <2>1. fetch' \in [Window -> Fetch]
    BY <1>4, <1>7, FetchFields
  <2>2. channel' \in [Window -> Seq(Event)]
    BY <1>4, <1>8
  <2> QED BY <2>1, <2>2, <1>1, <1>4, <1>5, <1>6 DEF ViewTypeOK
<1>10. OfflineHearNothing'
  <2> SUFFICES ASSUME NEW u \in Window, ~online[u]
               PROVE  channel'[u] = <<>>
    BY <1>4 DEF OfflineHearNothing
  <2>1. channel[u] = <<>>
    BY <1>1 DEF OfflineHearNothing
  <2>2. Len(channel'[u]) = 0
    BY <2>1, <1>4, <1>7, <1>8
  <2> QED BY <2>2, <1>8
<1>11. EventsTell'
  BY <1>8 DEF EventsTell
<1>12. FetchesTell'
  <2>1. \A u \in Window : fetch'[u].at = "read" => ~fetch'[u].sound
    BY <1>4, <1>7, FetchFields
  <2> QED BY <2>1 DEF FetchesTell
<1>13. ViewsTell'
  BY <1>4 DEF ViewsTell
<1>14. \A u \in Window : Undisturbed(u)
  <2> TAKE u \in Window
  <2>1. CASE u # w
    BY <2>1, <1>6 DEF Undisturbed
  <2>2. CASE u = w
    <3>1. w # Agent
      BY <2>2, AgentAssumption
    <3>2. \A v \in Copy : v # NoView
      BY <1>2, EditFields, Copies
    <3> QED BY <2>2, <3>1, <3>2, <1>5, <1>6 DEF Undisturbed
  <2> QED BY <2>1, <2>2
<1>15. EditsHaveViews' /\ NotesStay' /\ AgentsDoNotWait'
  BY <1>4, <1>5, <1>14, FactsOfEditsStay
<1> QED BY <1>9, <1>10, <1>11, <1>12, <1>13, <1>15 DEF ViewInv

-----------------------------------------------------------------------------
\* ViewInv is an invariant, whatever the windows, rows, requests and edits.
THEOREM ViewInductive == ViewSpec => []ViewInv
<1>1. ViewInit => ViewInv
  <2> SUFFICES ASSUME ViewInit PROVE ViewInv
    OBVIOUS
  <2>1. rows \in Copy /\ edits \in 0 .. MaxEdits
    BY EditsAssumption DEF ViewInit, Copy, Content
  <2>2. ViewTypeOK
    <3>1. <<>> \in Seq(Event) /\ NoFetch \in Fetch /\ Idle \in ViewCall
      BY DEF Fetch, ViewCall
    <3> QED BY <2>1, <3>1 DEF ViewInit, ViewTypeOK
  <2>3. OfflineHearNothing /\ ViewsTell
    BY DEF ViewInit, OfflineHearNothing, ViewsTell
  <2>4. EventsTell
    <3>1. DOMAIN <<>> = 1 .. 0
      OBVIOUS
    <3> QED BY <3>1 DEF ViewInit, EventsTell
  <2>5. FetchesTell
    BY DEF ViewInit, FetchesTell, NoFetch
  <2>6. EditsHaveViews /\ NotesStay /\ AgentsDoNotWait
    BY DEF ViewInit, EditsHaveViews, NotesStay, AgentsDoNotWait, EditAt, Idle
  <2> QED BY <2>2, <2>3, <2>4, <2>5, <2>6 DEF ViewInv
<1>2. ViewInv /\ [ViewNext]_viewVars => ViewInv'
  <2> SUFFICES ASSUME ViewInv, [ViewNext]_viewVars PROVE ViewInv'
    OBVIOUS
  <2>1. ASSUME NEW r \in Req, EditStart(r) PROVE ViewInv'
    BY <2>1, PatchKeepsViews
  <2>2. ASSUME NEW r \in Req, AgentEditStart(r) PROVE ViewInv'
    BY <2>2, AgentStartKeepsViews
  <2>3. ASSUME NEW r \in Req, EditWrite(r) PROVE ViewInv'
    BY <2>3, WriteKeepsViews
  <2>4. ASSUME NEW r \in Req, EditPublish(r) PROVE ViewInv'
    BY <2>4, PublishKeepsViews
  <2>5. ASSUME NEW r \in Req, EditAnswer(r) PROVE ViewInv'
    BY <2>5, AnswerKeepsViews
  <2>6. ASSUME NEW r \in Req, EditFail(r) PROVE ViewInv'
    BY <2>6, FailKeepsViews
  <2>7. ASSUME NEW r \in Req, EditLost(r) PROVE ViewInv'
    BY <2>7, LossKeepsViews
  <2>8. ASSUME NEW w \in Window, FetchStart(w) PROVE ViewInv'
    BY <2>8, QueryKeepsViews
  <2>9. ASSUME NEW w \in Window, FetchRead(w) PROVE ViewInv'
    BY <2>9, ReadKeepsViews
  <2>10. ASSUME NEW w \in Window, FetchApply(w) PROVE ViewInv'
    BY <2>10, ApplyKeepsViews
  <2>11. ASSUME NEW w \in Window, Deliver(w) PROVE ViewInv'
    BY <2>11, DeliverKeepsViews
  <2>12. ASSUME NEW w \in Window, Connect(w) PROVE ViewInv'
    BY <2>12, ConnectKeepsViews
  <2>13. ASSUME NEW w \in Window, Disconnect(w) PROVE ViewInv'
    BY <2>13, DisconnectKeepsViews
  <2>14. CASE UNCHANGED viewVars
    <3> USE <2>14 DEF viewVars
    <3>1. ViewTypeOK' /\ OfflineHearNothing' /\ EditsHaveViews' /\ NotesStay' /\ AgentsDoNotWait'
      BY DEF ViewInv, ViewTypeOK, OfflineHearNothing, EditsHaveViews, NotesStay, AgentsDoNotWait,
             EditAt
    <3>2. EventsTell' /\ FetchesTell'
      BY DEF ViewInv, EventsTell, FetchesTell, NoneFor, LastFor, Coming, EditAt
    <3>3. ViewsTell'
      BY DEF ViewInv, ViewsTell, Agrees, Writing, NoneFor, Coming, EditAt
    <3> QED BY <3>1, <3>2, <3>3 DEF ViewInv
  <2> QED BY <2>1, <2>2, <2>3, <2>4, <2>5, <2>6, <2>7, <2>8, <2>9, <2>10, <2>11, <2>12, <2>13,
             <2>14 DEF ViewNext
<1> QED BY <1>1, <1>2, PTL DEF ViewSpec

\* A window with nothing on its way, and that met none of what makes a copy
\* wrong since its last refetch, shows the rows as they are
\* (useExecutionRealtime.ts, Execution.tsx).
THEOREM QuietWindowsAgree == ViewSpec => []QuietViewsAgree
<1>1. ViewInv => QuietViewsAgree
  <2> SUFFICES ASSUME ViewInv, NEW w \in Window,
                      view[w] # NoView, Quiet(w), doubts[w] = {}
               PROVE  view[w] = rows
    BY DEF QuietViewsAgree
  <2>1. view[w] \in Copy /\ rows \in Copy
    BY DEF ViewInv, ViewTypeOK
  <2>2. \A x \in Row : view[w][x] = rows[x]
    <3> TAKE x \in Row
    <3>1. DOMAIN <<>> = 1 .. 0
      OBVIOUS
    <3>2. NoneFor(w, x)
      BY <3>1 DEF Quiet, NoneFor
    <3>3. \A r \in Req : ~EditAt(r, "publish") /\ ~EditAt(r, "write")
      BY DEF Quiet, EditAt, Idle
    <3> QED BY <3>2, <3>3 DEF ViewInv, ViewsTell, Agrees, Coming, Writing
  <2> QED BY <2>1, <2>2 DEF Copy
<1> QED BY <1>1, ViewInductive, PTL

-----------------------------------------------------------------------------
(***************************************************************************)
(* The composition                                                         *)
(***************************************************************************)
\* Whichever service a behaviour is about, it is a behaviour of each of them.
LEMMA EachAlone ==
  Spec => /\ OrgSpec /\ AdminSpec /\ AuthSpec /\ LoginSpec /\ CodeSpec /\ OAuthSpec /\ ReviewSpec
          /\ ViewSpec /\ HistorySpec /\ AccountSpec
<1>1. Init => /\ OrgInit /\ AdminInit /\ AuthInit /\ LoginInit /\ CodeInit /\ OAuthInit
              /\ ReviewInit /\ ViewInit /\ HistoryInit /\ AccountInit
  BY DEF Init
<1>2. [Next]_vars => /\ [OrgNext]_orgVars /\ [AdminNext]_adminVars /\ [AuthNext]_authVars
                     /\ [LoginNext]_loginVars /\ [CodeNext]_codeVars /\ [OAuthNext]_oauthVars
                     /\ [ReviewNext]_reviewVars /\ [ViewNext]_viewVars
                     /\ [HistoryNext]_historyVars /\ [AccountNext]_accountVars
  BY DEF Next, OrgStep, AdminStep, AuthStep, LoginStep, CodeStep, OAuthStep, ReviewStep, ViewStep,
         HistoryStep, AccountStep, vars
<1> QED BY <1>1, <1>2, PTL DEF Spec, OrgSpec, AdminSpec, AuthSpec, LoginSpec, CodeSpec, OAuthSpec,
          ReviewSpec, ViewSpec, HistorySpec, AccountSpec

\* Every service keeps the types of its rows and requests.
THEOREM ServicesTyped == Spec => []TypesOK
<1>1. /\ OrgInv => OrgTypeOK
      /\ AdminInv => AdminTypeOK
      /\ AuthInv => AuthTypeOK
      /\ LoginInv => LoginTypeOK
      /\ CodeInv => CodeTypeOK
      /\ OAuthInv => OAuthTypeOK
      /\ ReviewInv => ReviewTypeOK
      /\ ViewInv => ViewTypeOK
      /\ HistoryInv => HistoryTypeOK
      /\ AccountInv => AccountTypeOK
  BY DEF OrgInv, AdminInv, AuthInv, LoginInv, CodeInv, OAuthInv, ReviewInv, ViewInv, HistoryInv,
         AccountInv
<1>2. OrgTypeOK /\ AdminTypeOK /\ AuthTypeOK /\ LoginTypeOK /\ CodeTypeOK /\ OAuthTypeOK
        /\ ReviewTypeOK /\ ViewTypeOK /\ HistoryTypeOK /\ AccountTypeOK => TypesOK
  BY DEF TypesOK
<1> QED BY <1>1, <1>2, EachAlone, OrgInductive, AdminInductive, AuthInductive, LoginInductive,
          CodeInductive, OAuthInductive, ReviewInductive, ViewInductive, HistoryInductive,
          AccountInductive, PTL
=============================================================================
