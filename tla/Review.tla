------------------------------- MODULE Review -------------------------------
(***************************************************************************)
(* The reviews of one test suite (apps/api review.service.ts): a reviewer  *)
(* drafts, submits, and others answer.  Every request reads the review,    *)
(* checks author, state and the caller's role, and writes one row.         *)
(***************************************************************************)
EXTENDS Requests

CONSTANTS Reviewer, ReviewId, CommentId  \* ids bound the rows at any time

VARIABLES reviews,       \* reviews[v]: the row, or NoReview
          comments,      \* comments[c]: the row, or NoReview
          reviewCalls,   \* reviewCalls[r]: the request in slot r
          reviewOverlap  \* history: the kinds of requests that overlapped

reviewVars == <<reviews, comments, reviewCalls, reviewOverlap>>

-----------------------------------------------------------------------------
NoReview == [by |-> "nobody"]
Verdict == {"APPROVED", "CHANGES_REQUESTED"}  \* COMMENT_ONLY is like them
ReviewRow == [by : Reviewer, verdict : Verdict \cup {"DRAFT"}]
CommentRow == [by : Reviewer, on : ReviewId, open : BOOLEAN, replies : SUBSET Reviewer]
ReviewCall == {Idle}
  \cup [op : {"start"}, at : {"write"}, by : Reviewer]
  \cup [op : {"submit", "verdict"}, at : {"write"}, review : ReviewId, verdict : Verdict]
  \cup [op : {"delete"}, at : {"write"}, review : ReviewId]
  \cup [op : {"comment"}, at : {"write"}, review : ReviewId, by : Reviewer]
  \cup [op : {"settle"}, at : {"write"}, comment : CommentId, open : BOOLEAN]
  \cup [op : {"reply", "unreply"}, at : {"write"}, comment : CommentId, by : Reviewer]
  \cup [op : {"uncomment"}, at : {"write"}, comment : CommentId]

\* One type invariant for the component.
ReviewTypeOK == /\ reviews \in [ReviewId -> ReviewRow \cup {NoReview}]
                /\ comments \in [CommentId -> CommentRow \cup {NoReview}]
                /\ reviewCalls \in [Req -> ReviewCall]
                /\ reviewOverlap \subseteq {"start", "delete"}

ReviewInit == /\ reviews = [v \in ReviewId |-> NoReview]
              /\ comments = [c \in CommentId |-> NoReview]
              /\ reviewCalls = [r \in Req |-> Idle]
              /\ reviewOverlap = {}

There(v) == reviews[v] # NoReview
Draft(v) == There(v) /\ reviews[v].verdict = "DRAFT"
Submitted(v) == There(v) /\ ~Draft(v)
Commented(c) == comments[c] # NoReview

\* An id stands for a new row when no request refers to the old one.
NewReview(v) == ~There(v) /\ \A r \in Req :
  reviewCalls[r].op \in {"submit", "verdict", "delete", "comment"} => reviewCalls[r].review # v
NewComment(c) == ~Commented(c) /\ \A r \in Req :
  reviewCalls[r].op \in {"settle", "reply", "unreply", "uncomment"} => reviewCalls[r].comment # c

ReviewAt(r, op) == reviewCalls[r].op = op
ReviewLeave(r) == reviewCalls' = End(reviewCalls, r)
ReviewEnter(r, call) == /\ reviewCalls[r] = Idle
                        /\ reviewCalls' = [reviewCalls EXCEPT ![r] = call]
                        /\ UNCHANGED <<reviews, comments, reviewOverlap>>

-----------------------------------------------------------------------------
(***************************************************************************)
(* What each request checks.  Only their author edits, submits or deletes  *)
(* a review, a comment or a reply.                                         *)
(***************************************************************************)
MayComment(v, p) == Submitted(v) \/ (Draft(v) /\ reviews[v].by = p)

ReviewRequest(r) ==
  \/ \E p \in Reviewer :
       /\ \A v \in ReviewId : Draft(v) => reviews[v].by # p
       /\ ReviewEnter(r, [op |-> "start", at |-> "write", by |-> p])
  \/ \E v \in ReviewId, g \in Verdict :
       \/ Draft(v) /\ ReviewEnter(r, [op |-> "submit", at |-> "write", review |-> v, verdict |-> g])
       \/ Submitted(v) /\ ReviewEnter(r, [op |-> "verdict", at |-> "write", review |-> v, verdict |-> g])
  \/ \E v \in ReviewId, p \in Reviewer :
       /\ MayComment(v, p)
       /\ ReviewEnter(r, [op |-> "comment", at |-> "write", review |-> v, by |-> p])
  \/ \E c \in CommentId :
       /\ Commented(c)
       /\ \/ ReviewEnter(r, [op |-> "uncomment", at |-> "write", comment |-> c])
          \/ \E b \in BOOLEAN :
               ReviewEnter(r, [op |-> "settle", at |-> "write", comment |-> c, open |-> b])
          \/ \E p \in Reviewer :
               ReviewEnter(r, [op |-> "reply", at |-> "write", comment |-> c, by |-> p])
          \/ \E p \in comments[c].replies :
               ReviewEnter(r, [op |-> "unreply", at |-> "write", comment |-> c, by |-> p])

\* Mutant: a submitted review can be deleted.
DeleteRequestAny(r) == \E v \in ReviewId :
  There(v) /\ ReviewEnter(r, [op |-> "delete", at |-> "write", review |-> v])

DeleteRequest(r) == \E v \in ReviewId :
  Draft(v) /\ ReviewEnter(r, [op |-> "delete", at |-> "write", review |-> v])

-----------------------------------------------------------------------------
(***************************************************************************)
(* What each request writes.                                               *)
(***************************************************************************)
StartWrite(r) ==
  /\ ReviewAt(r, "start")
  /\ \E v \in ReviewId :
       /\ NewReview(v)
       /\ reviews' = [reviews EXCEPT ![v] = [by |-> reviewCalls[r].by, verdict |-> "DRAFT"]]
  /\ reviewOverlap' = reviewOverlap \cup
       {"start" : d \in {d \in Req \ {r} : ReviewAt(d, "start") /\ reviewCalls[d].by = reviewCalls[r].by}}
  /\ ReviewLeave(r)
  /\ UNCHANGED comments

\* submit and updateVerdict; a deletion may have found the draft.
VerdictWrite(r) ==
  /\ ReviewAt(r, "submit") \/ ReviewAt(r, "verdict")
  /\ LET c == reviewCalls[r]
     IN IF There(c.review)
        THEN /\ reviews' = [reviews EXCEPT ![c.review].verdict = c.verdict]
             /\ reviewOverlap' = reviewOverlap \cup
                  {"delete" : d \in {d \in Req : ReviewAt(d, "delete") /\ reviewCalls[d].review = c.review}}
        ELSE UNCHANGED <<reviews, reviewOverlap>>
  /\ ReviewLeave(r)
  /\ UNCHANGED comments

\* The comments go with the review.
DeleteReview(r) ==
  /\ ReviewAt(r, "delete")
  /\ LET v == reviewCalls[r].review
     IN /\ reviews' = [reviews EXCEPT ![v] = NoReview]
        /\ comments' = [c \in CommentId |-> IF Commented(c) /\ comments[c].on = v
                                            THEN NoReview ELSE comments[c]]
  /\ ReviewLeave(r)
  /\ UNCHANGED reviewOverlap

CommentWrite(r) ==
  /\ ReviewAt(r, "comment")
  /\ LET v == reviewCalls[r].review
     IN IF There(v)
        THEN \E c \in CommentId :
               /\ NewComment(c)
               /\ comments' = [comments EXCEPT ![c] = [by |-> reviewCalls[r].by, on |-> v,
                                                       open |-> TRUE, replies |-> {}]]
        ELSE UNCHANGED comments
  /\ ReviewLeave(r)
  /\ UNCHANGED <<reviews, reviewOverlap>>

\* A change of one comment, which fails when the row is gone.
ThreadWrite(r) ==
  /\ reviewCalls[r].op \in {"settle", "reply", "unreply", "uncomment"}
  /\ LET q == reviewCalls[r]
         row == comments[q.comment]
     IN comments' = IF ~Commented(q.comment) THEN comments
                    ELSE [comments EXCEPT ![q.comment] =
                           CASE q.op = "settle" -> [row EXCEPT !.open = q.open]
                             [] q.op = "reply" -> [row EXCEPT !.replies = @ \cup {q.by}]
                             [] q.op = "unreply" -> [row EXCEPT !.replies = @ \ {q.by}]
                             [] q.op = "uncomment" -> NoReview]
  /\ ReviewLeave(r)
  /\ UNCHANGED <<reviews, reviewOverlap>>

\* A missing permission, an error or a crash.
ReviewAbort(r) == /\ reviewCalls[r] # Idle
                  /\ ReviewLeave(r)
                  /\ UNCHANGED <<reviews, comments, reviewOverlap>>

ReviewNext == \E r \in Req :
  \/ ReviewRequest(r) \/ DeleteRequest(r) \/ StartWrite(r) \/ VerdictWrite(r)
  \/ DeleteReview(r) \/ CommentWrite(r) \/ ThreadWrite(r) \/ ReviewAbort(r)

ReviewSpec == ReviewInit /\ [][ReviewNext]_reviewVars

-----------------------------------------------------------------------------
\* A submitted review neither disappears nor becomes a draft again: unless a
\* deletion had found it a draft before it was submitted.
SubmittedStays ==
  [][\A v \in ReviewId : Submitted(v) /\ "delete" \notin reviewOverlap => Submitted(v)']_reviewVars

-----------------------------------------------------------------------------
\* Why: a deletion under way has found a draft, or else the submission of it
\* would have seen the two overlap.
DraftsDeleted == \A r \in Req : ReviewAt(r, "delete") => ~Submitted(reviewCalls[r].review)
ReviewInv == ReviewTypeOK /\ ("delete" \notin reviewOverlap => DraftsDeleted)
=============================================================================
