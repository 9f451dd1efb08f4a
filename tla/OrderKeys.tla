----------------------------- MODULE OrderKeys ------------------------------
(***************************************************************************)
(* How the API keeps an ordered collection in PostgreSQL: rows with an     *)
(* order key, no uniqueness constraint on it, and requests that read the   *)
(* rows, plan the keys and write them one row after the other in a         *)
(* READ COMMITTED transaction.                                             *)
(*                                                                         *)
(* `kind` says which of the two variants of the code is running:           *)
(*   "child": steps, preconditions and expected results of a test case     *)
(*            (test-case-*.service.ts; a suite's preconditions likewise),  *)
(*            deleted for good and renumbered;                             *)
(*   "case":  test cases of a suite (test-case.service.ts and              *)
(*            reorderTestCases), hidden by deletedAt and restorable.       *)
(*                                                                         *)
(* A request in flight is its plan, a sequence of row writes, and how many *)
(* it has executed.  A row it has written is locked until it commits; what *)
(* it wrote is visible to others only then.  Content, history rows and     *)
(* events are left out: they are written in the same transaction.          *)
(***************************************************************************)
EXTENDS SequencesExt

CONSTANTS Id,      \* row ids (UUIDs)
          Req,     \* slots for requests in flight: bounds the concurrency
          Kinds,   \* the variants explored
          MaxKey   \* requests that would number a row beyond it are left out

ASSUME KindsAssumption == Kinds \subseteq {"child", "case"}
ASSUME MaxKeyAssumption == MaxKey \in Nat \ {0}
\* Renumbering never exceeds it.
ASSUME IdAssumption == IsFiniteSet(Id) /\ Cardinality(Id) <= MaxKey

VARIABLES kind, rows, calls,
          answer,   \* history: the request the last step committed, if any
          collided  \* history: two requests overlapped as in Collide, or a
                    \* client named the key of a row it added

vars == <<kind, rows, calls, answer, collided>>

-----------------------------------------------------------------------------
\* A row; `live` is deletedAt = null.  `skipped` is a history flag: the test
\* cases were reordered while this one was deleted.
Row == [id : Id, key : 1 .. MaxKey, live : BOOLEAN, skipped : BOOLEAN]

Write == [what : {"insert", "update", "delete", "hide"}, id : Id, key : 0 .. MaxKey]
Op == {"add", "delete", "reorder", "sync", "restore"}
\* `reading`: a delete that has yet to read the rows it will renumber.
Call == [req : Req, op : Op, items : Seq(Id), plan : Seq(Write), done : Nat,
         reading : BOOLEAN]

None == [op |-> "none", items |-> <<>>]

Live == {k \in rows : k.live}
Ids(S) == {k.id : k \in S}
Has(i) == \E k \in rows : k.id = i
RowOf(i) == CHOOSE k \in rows : k.id = i

\* What `orderBy: { orderKey: 'asc' }` may return: rows with equal keys come
\* in any order.
Sorted(S) == {s \in SetToSeqs(S) :
                \A m, n \in 1 .. Len(s) : m < n => s[m].key <= s[n].key}

\* Mutant: the first two keys are the same.
IndexToOrderKeyTwice(n) == IF n = 1 THEN 1 ELSE n - 1

\* indexToOrderKey, for an index that starts at 1.
IndexToOrderKey(n) == n

\* Mutant: deleted rows do not count.
NextOrderKeyLive == Max({0} \cup {k.key : k \in Live}) + 1

\* getNextOrderKey of the row with the highest key, deleted rows included.
NextOrderKey == Max({0} \cup {k.key : k \in rows}) + 1

Renumber(s) == [n \in 1 .. Len(s) |->
                 [what |-> "update", id |-> s[n], key |-> IndexToOrderKey(n)]]

\* A UUID nobody has seen.
Fresh(i) == /\ ~Has(i)
            /\ i \notin ToSet(answer.items)
            /\ \A c \in calls : /\ i \notin ToSet(c.items)
                                /\ \A w \in ToSet(c.plan) : w.id # i
NewId(i) == Fresh(i) /\ i = CHOOSE j \in Id : Fresh(j)

-----------------------------------------------------------------------------
(***************************************************************************)
(* Requests in flight                                                      *)
(***************************************************************************)
\* Overlaps that may leave duplicate keys or undo a reorder: two requests
\* that insert, a sync and anything, a reorder and a delete or a restore,
\* and two reorders of different rows (an add committed between their reads).
Collide(o, s, d) ==
  \/ {o, d.op} \subseteq {"add", "sync"}
  \/ "sync" \in {o, d.op}
  \/ {o, d.op} \in {{"reorder", "delete"}, {"reorder", "restore"}}
  \/ {o, d.op} = {"reorder"} /\ ToSet(s) # ToSet(d.items)

Start(r, o, items, plan, reading) ==
  /\ calls' = calls \cup {[req |-> r, op |-> o, items |-> items, plan |-> plan,
                           done |-> 0, reading |-> reading]}
  /\ collided' = (collided \/ \E c \in calls : Collide(o, items, c))
  /\ answer' = None
  /\ UNCHANGED <<kind, rows>>

Done(c) == {c.plan[n] : n \in 1 .. c.done}

\* Another transaction has written the row and not committed.
Blocked(c, i) == \E d \in calls \ {c} : \E w \in Done(d) :
                   w.id = i /\ w.what # "insert"

\* The rows once a call's writes are visible.
Written(c) ==
  LET inserts == {w \in Done(c) : w.what = "insert"}
      deletes == {w.id : w \in {v \in Done(c) : v.what = "delete"}}
      hides   == {w.id : w \in {v \in Done(c) : v.what = "hide"}}
      updates == {w \in Done(c) : w.what = "update"}
      Rekey(k) == IF \E w \in updates : w.id = k.id
                  THEN (CHOOSE w \in updates : w.id = k.id).key ELSE k.key
      Missed(k) == IF c.op # "reorder" THEN k.skipped
                   ELSE k.id \notin ToSet(c.items) /\ (k.skipped \/ ~k.live)
  IN  {[id |-> k.id, key |-> Rekey(k), live |-> k.live /\ k.id \notin hides,
        skipped |-> Missed(k)] : k \in {l \in rows : l.id \notin deletes}}
        \cup {[id |-> w.id, key |-> w.key, live |-> TRUE, skipped |-> FALSE] :
                w \in inserts}

-----------------------------------------------------------------------------
Init == /\ kind \in Kinds
        /\ rows = {}
        /\ calls = {}
        /\ answer = None
        /\ collided = FALSE

\* addStep, addPrecondition, addExpectedResult, and create of a test case: the
\* highest key is read here, the next one inserted by a later statement.
AddStart(r) ==
  \E i \in Id :
    /\ NewId(i)
    /\ NextOrderKey <= MaxKey
    /\ Start(r, "add", <<i>>,
             <<[what |-> "insert", id |-> i, key |-> NextOrderKey]>>, FALSE)

\* The same with a key of the client's own, which is inserted as it comes
\* (data.orderKey; not for test cases).  A number stands for the place that a
\* string takes among the keys; what getNextOrderKey makes of the highest key
\* when that is no number of its own making is one of these keys too.
AddOwnKey(r) ==
  /\ kind = "child"
  /\ \E i \in Id, own \in 1 .. MaxKey :
       /\ NewId(i)
       /\ calls' = calls \cup
            {[req |-> r, op |-> "add", items |-> <<i>>,
              plan |-> <<[what |-> "insert", id |-> i, key |-> own]>>,
              done |-> 0, reading |-> FALSE]}
  /\ collided' = TRUE
  /\ answer' = None
  /\ UNCHANGED <<kind, rows>>

\* deleteStep ...: the row is there and will be deleted, the others are read
\* after that.
DeleteStart(r, i) ==
  /\ kind = "child"
  /\ Has(i)
  /\ Start(r, "delete", <<i>>, <<[what |-> "delete", id |-> i, key |-> 0]>>, TRUE)

\* softDelete of a test case: no renumbering.
SoftDeleteStart(r, i) ==
  /\ kind = "case"
  /\ i \in Ids(Live)
  /\ Start(r, "delete", <<i>>, <<[what |-> "hide", id |-> i, key |-> 0]>>, FALSE)

\* reorderSteps ..., reorderTestCases: exactly the rows read, in an order
\* that differs from theirs.
ReorderStart(r) ==
  \E s \in SetToSeqs(Ids(Live)), t \in Sorted(Live) :
    /\ s # [n \in 1 .. Len(t) |-> t[n].id]
    /\ Start(r, "reorder", s, Renumber(s), FALSE)

\* syncChildEntitiesWithHistory: the caller sends the list it wants, ids of
\* rows that exist and at most one row without id.
SyncStart(r) ==
  /\ kind = "child"
  /\ \E keep \in SUBSET Ids(rows), new \in SUBSET {i \in Id : NewId(i)} :
       \E s \in SetToSeqs(keep \cup new),
          gone \in {SetToSeq(Ids(rows) \ keep)} :
         /\ Start(r, "sync", s,
              [n \in 1 .. Len(gone) |->
                 [what |-> "delete", id |-> gone[n], key |-> 0]]
              \o [n \in 1 .. Len(s) |->
                    [what |-> IF s[n] \in new THEN "insert" ELSE "update",
                     id |-> s[n], key |-> IndexToOrderKey(n)]], FALSE)

\* restore of a test case: it was found deleted.
RestoreStart(r, i) ==
  /\ kind = "case"
  /\ i \in Ids(rows \ Live)
  /\ Start(r, "restore", <<i>>, <<>>, FALSE)

-----------------------------------------------------------------------------
\* Mutant: an update of a row that is gone does nothing (updateMany).
WriteRowIfThere(c) ==
  /\ c.op # "restore"
  /\ c.done < Len(c.plan)
  /\ ~Blocked(c, c.plan[c.done + 1].id)
  /\ calls' = (calls \ {c}) \cup {[c EXCEPT !.done = @ + 1]}
  /\ answer' = None
  /\ UNCHANGED <<kind, rows, collided>>

\* The next statement of a transaction.  A row that is gone makes the call
\* fail (P2025), a locked one makes it wait.
WriteRow(c) ==
  /\ c.op # "restore"
  /\ c.done < Len(c.plan)
  /\ LET w == c.plan[c.done + 1]
     IN  \/ /\ w.what = "insert" \/ (Has(w.id) /\ ~Blocked(c, w.id))
            /\ calls' = (calls \ {c}) \cup {[c EXCEPT !.done = @ + 1]}
         \/ /\ w.what # "insert" /\ ~Has(w.id)
            /\ calls' = calls \ {c}
  /\ answer' = None
  /\ UNCHANGED <<kind, rows, collided>>

\* Mutant: the remaining rows come in any order (no orderBy).
ReadRemainingUnsorted(c) ==
  /\ c.reading /\ c.done = 1
  /\ \E t \in SetToSeqs({k \in rows : k.id # c.plan[1].id}) :
       calls' = (calls \ {c}) \cup
         {[c EXCEPT !.reading = FALSE,
             !.plan = @ \o Renumber([n \in 1 .. Len(t) |-> t[n].id])]}
  /\ answer' = None
  /\ UNCHANGED <<kind, rows, collided>>

\* deleteStep reads the remaining rows: what is committed by now, without
\* the row it has deleted itself.
ReadRemaining(c) ==
  /\ c.reading /\ c.done = 1
  /\ \E t \in Sorted({k \in rows : k.id # c.plan[1].id}) :
       calls' = (calls \ {c}) \cup
         {[c EXCEPT !.reading = FALSE,
             !.plan = @ \o Renumber([n \in 1 .. Len(t) |-> t[n].id])]}
  /\ answer' = None
  /\ UNCHANGED <<kind, rows, collided>>

Commit(c) ==
  /\ c.op # "restore" /\ ~c.reading
  /\ c.done = Len(c.plan)
  /\ rows' = Written(c)
  /\ calls' = calls \ {c}
  /\ answer' = [op |-> c.op, items |-> c.items]
  /\ UNCHANGED <<kind, collided>>

\* TestCaseRepository.restore runs on a connection of its own, outside the
\* transaction that writes the RESTORE history, and so commits at once.
Restore(c) ==
  /\ c.op = "restore"
  /\ LET i == c.items[1]
     IN  /\ ~Blocked(c, i)
         /\ rows' = (rows \ {RowOf(i)}) \cup {[RowOf(i) EXCEPT !.live = TRUE]}
         /\ collided' = (collided \/ RowOf(i).skipped)
  /\ calls' = calls \ {c}
  /\ answer' = [op |-> "restore", items |-> c.items]
  /\ UNCHANGED kind

\* A transaction may fail at any time: a deadlock (two requests that lock
\* the same rows in different orders), the transaction timeout, a lost
\* connection, a crash of the server.
Abort(c) ==
  /\ calls' = calls \ {c}
  /\ answer' = None
  /\ UNCHANGED <<kind, rows, collided>>

-----------------------------------------------------------------------------
Free(r) == \A c \in calls : c.req # r

Arrive(r) == \/ AddStart(r) \/ AddOwnKey(r) \/ ReorderStart(r) \/ SyncStart(r)
             \/ \E i \in Id : \/ DeleteStart(r, i) \/ SoftDeleteStart(r, i)
                              \/ RestoreStart(r, i)

Resume(c) == WriteRow(c) \/ ReadRemaining(c) \/ Commit(c) \/ Restore(c) \/ Abort(c)

Next == \/ \E r \in Req : Free(r) /\ Arrive(r)
        \/ \E c \in calls : Resume(c)

Spec == Init /\ [][Next]_vars

-----------------------------------------------------------------------------
\* Type invariant.
TypeOK == /\ kind \in Kinds
          /\ rows \subseteq Row
          /\ calls \subseteq Call
          /\ answer \in [op : Op \cup {"none"}, items : Seq(Id)]
          /\ collided \in BOOLEAN

\* What the service promises of order keys: no two rows shown have the same
\* one (docs: keys are serial numbers).  It fails: RestoreStart brings back a
\* key a reorder has given away, two adds read the same maximum, and a client
\* may name a key that is taken.
OrderKeysDistinct == \A k, l \in Live : k.key = l.key => k = l

\* As long as clients leave the keys to the server, without the overlaps of
\* Collide, and unless a test case is restored after a reorder, keys are distinct: row locks and the failure of updates of
\* missing rows are what makes the renumbering of deleteStep and reorderSteps
\* safe against concurrent adds, deletes and reorders.
KeysDistinctUnlessCollided == ~collided => OrderKeysDistinct

\* A reorder that is answered with success took effect as a whole, whatever
\* ran at the same time: right after it, the rows it named and that are
\* still shown are in the order it named (reorderSteps, reorderTestCases).
ReorderTakesEffect ==
  [][answer'.op = "reorder" =>
       \A m, n \in DOMAIN answer'.items : \A k, l \in rows' :
         m < n /\ k.id = answer'.items[m] /\ l.id = answer'.items[n]
           => k.key < l.key]_vars

\* The refinement: rows sorted by key are the list of OrderedList.
ShownList == LET t == CHOOSE s \in Sorted(Live) : TRUE
             IN  [n \in 1 .. Len(t) |-> t[n].id]
List == INSTANCE OrderedList WITH Item <- Id, list <- ShownList
ImplementsList == List!Spec
-----------------------------------------------------------------------------
(***************************************************************************)
(* Why.  A request writes each row once, what it inserts is nowhere yet,   *)
(* and a row it has written stays there and is nobody else's until the     *)
(* commit.                                                                 *)
(***************************************************************************)
PlanIds(c) == {c.plan[n].id : n \in DOMAIN c.plan}

PlanShaped(c) ==
  /\ c.done <= Len(c.plan)
  /\ \A m, n \in DOMAIN c.plan : c.plan[m].id = c.plan[n].id => m = n
  /\ c.reading => c.op = "delete" /\ kind = "child" /\ Len(c.plan) = 1
  /\ c.op = "add" => /\ Len(c.plan) = 1 /\ c.plan[1].what = "insert" /\ c.plan[1].key > 0
                     /\ c.items = <<c.plan[1].id>>
  /\ c.op = "delete" =>
       /\ Len(c.plan) > 0 /\ c.plan[1].key = 0 /\ c.items = <<c.plan[1].id>>
       /\ c.plan[1].what = IF kind = "child" THEN "delete" ELSE "hide"
       /\ kind = "case" => Len(c.plan) = 1
       /\ kind = "child" /\ ~c.reading => c.done > 0
       /\ \A n \in DOMAIN c.plan : n > 1 => c.plan[n].what = "update" /\ c.plan[n].key = n - 1
  /\ c.op = "reorder" => c.plan = Renumber(c.items)
  /\ c.op = "sync" =>
       /\ kind = "child"
       /\ \A n \in DOMAIN c.plan :
            /\ c.plan[n].what \in {"delete", "update", "insert"}
            /\ c.plan[n].what # "delete" =>
                 c.plan[n].key \in DOMAIN c.items /\ c.plan[n].id = c.items[c.plan[n].key]
       /\ \A m \in DOMAIN c.items : \E n \in DOMAIN c.plan :
            c.plan[n].what # "delete" /\ c.plan[n].key = m
  /\ c.op = "restore" => kind = "case" /\ c.plan = <<>> /\ Len(c.items) = 1 /\ Has(c.items[1])

CallsShaped == /\ \A c, d \in calls : c.req = d.req => c = d
               /\ \A c \in calls : PlanShaped(c)
InsertsFresh ==
  \A c \in calls : \A n \in DOMAIN c.plan : c.plan[n].what = "insert" =>
    ~Has(c.plan[n].id) /\ \A d \in calls : d # c => c.plan[n].id \notin PlanIds(d)
RowsHeld ==
  \A c \in calls : \A n \in 1 .. c.done : c.plan[n].what # "insert" =>
    Has(c.plan[n].id) /\ ~Blocked(c, c.plan[n].id)
UniqueIds == \A k, l \in rows : k.id = l.id => k = l
ChildrenLive == kind = "child" => \A k \in rows : k.live /\ ~k.skipped

CallsInv == TypeOK /\ CallsShaped /\ InsertsFresh /\ RowsHeld /\ UniqueIds /\ ChildrenLive

(***************************************************************************)
(* As long as nothing has collided, a request that is not going to fail    *)
(* gives keys below those of the rows it does not know of, an add one      *)
(* above all others, a delete knows the rows in their order, and of two    *)
(* deletes that have read them one waits for the row of the other.         *)
(***************************************************************************)
\* A row the call is still going to write is gone.
Doomed(c) == \E n \in DOMAIN c.plan :
  n > c.done /\ c.plan[n].what # "insert" /\ ~Has(c.plan[n].id)
Fits(c) == \A n \in DOMAIN c.plan : c.plan[n].what = "update" =>
  /\ c.plan[n].id \in Ids(Live)
  /\ \A k \in Live : k.id \notin PlanIds(c) => c.plan[n].key < k.key
UpdatesFit == \A c \in calls : Doomed(c) \/ Fits(c)
AddsAbove == \A c \in calls : c.op = "add" =>
  /\ \A k \in rows : k.key < c.plan[1].key
  /\ \A d \in calls : ~Doomed(d) => \A n \in DOMAIN d.plan :
       d.plan[n].what = "update" => d.plan[n].key < c.plan[1].key
NoCollisions == \A c, d \in calls : c # d => ~Collide(c.op, c.items, d)
DeletesWait == \A c, d \in calls :
  c # d /\ c.op = "delete" /\ d.op = "delete" /\ kind = "child" /\ ~c.reading /\ ~d.reading =>
    c.plan[1].id \in PlanIds(d) \/ d.plan[1].id \in PlanIds(c)
\* The rows the plan names after the first come in the order it names them,
\* and before all others.
InOrder(c) == \A n \in DOMAIN c.plan : \A k, l \in Live :
  n > 1 /\ k.id = c.plan[n].id /\ l.id \notin {c.plan[m].id : m \in 1 .. n} => k.key < l.key
DeletesInOrder == \A c \in calls : c.op = "delete" => Doomed(c) \/ InOrder(c)
SyncsKnowAll == \A c \in calls : c.op = "sync" => Ids(rows) \subseteq PlanIds(c)
KeysApart == /\ \A k \in Live : ~k.skipped
             /\ \A k, l \in rows : ~k.skipped /\ ~l.skipped /\ k.key = l.key => k = l

Unharmed == /\ UpdatesFit /\ AddsAbove /\ NoCollisions /\ DeletesWait /\ DeletesInOrder
            /\ SyncsKnowAll /\ KeysApart

\* What makes the promises hold, requests in flight included: what a request
\* has planned fits the rows it has yet to write and the plans of the others
\* (the locks and failing updates of test-case-*.service.ts), and the keys of
\* the rows are apart, until two requests collide or a client names a key.
KeysInv == CallsInv /\ (~collided => Unharmed)
=============================================================================
