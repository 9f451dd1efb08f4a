-------------------------- MODULE OrderKeysProofs ---------------------------
(***************************************************************************)
(* Proofs about ordered collections: KeysInv is inductive, for any rows    *)
(* and number of requests.  With it the order keys are distinct unless     *)
(* requests have overlapped as in Collide or a client has named a key, and *)
(* until then the rows in the order of their keys implement the list of    *)
(* OrderedList.                                                            *)
(***************************************************************************)
EXTENDS OrderKeys, FiniteSetTheorems, SequenceTheorems, WellFoundedInduction, TLAPS

-----------------------------------------------------------------------------
(***************************************************************************)
(* Sets, sequences and permutations                                        *)
(***************************************************************************)
\* Every set of numbers that is not empty has a least one.
LEMMA LeastNumber ==
  ASSUME NEW S, S \subseteq Nat, S # {}
  PROVE  \E x \in S : \A y \in S : x <= y
<1>1. PICK x \in S : \A y \in S : <<y, x>> \notin OpToRel(<, Nat)
  BY NatLessThanWellFounded, WFMin
<1>2. \A y \in S : ~(y < x)
  BY <1>1 DEF OpToRel
<1> QED BY <1>2

\* A bounded one has a greatest.
LEMMA GreatestNumber ==
  ASSUME NEW S, S \subseteq Nat, S # {}, NEW m \in Nat, \A n \in S : n <= m
  PROVE  Max(S) \in S /\ \A n \in S : n <= Max(S)
<1> DEFINE T == {m - n : n \in S}
<1>1. T \subseteq Nat /\ T # {}
  <2>1. \A n \in S : n \in Nat /\ m - n \in Nat
    OBVIOUS
  <2> QED BY <2>1
<1>2. PICK x \in T : \A y \in T : x <= y
  <2> HIDE DEF T
  <2> QED BY <1>1, LeastNumber
<1>3. PICK k \in S : x = m - k
  BY <1>2
<1>4. \A n \in S : m - k <= m - n
  BY <1>2, <1>3
<1>5. \A n \in S : n <= k
  BY <1>4
<1> QED BY <1>5 DEF Max

\* A permutation of a finite set lists each of its elements once.
LEMMA OrdersOfSet ==
  ASSUME NEW S, IsFiniteSet(S), NEW s \in SetToSeqs(S)
  PROVE  /\ s \in Seq(S) /\ Len(s) = Cardinality(S) /\ ToSet(s) = S
         /\ \A m, n \in 1 .. Len(s) : s[m] = s[n] => m = n
<1> DEFINE D == 1 .. Cardinality(S)
<1>1. s \in [D -> S] /\ (\A m, n \in D : m # n => s[m] # s[n])
  BY DEF SetToSeqs
<1>2. Cardinality(S) \in Nat
  BY FS_CardinalityType
<1>3. s \in Seq(S) /\ Len(s) = Cardinality(S) /\ DOMAIN s = D
  BY <1>1, <1>2
<1>4. s \in Injection(D, S)
  BY <1>1 DEF Injection, IsInjective
<1>5. Cardinality(D) = Cardinality(S)
  BY <1>2, FS_Interval
<1>6. s \in Surjection(D, S)
  <2> HIDE DEF D
  <2> QED BY <1>4, <1>5, FS_Injection
<1>7. ToSet(s) = S
  BY <1>1, <1>3, <1>6 DEF ToSet, Surjection
<1> QED BY <1>1, <1>3, <1>7

LEMMA ListOfSet ==
  ASSUME NEW S, IsFiniteSet(S)
  PROVE  /\ SetToSeq(S) \in Seq(S) /\ Len(SetToSeq(S)) = Cardinality(S)
         /\ ToSet(SetToSeq(S)) = S
         /\ \A m, n \in 1 .. Len(SetToSeq(S)) : SetToSeq(S)[m] = SetToSeq(S)[n] => m = n
<1> DEFINE D == 1 .. Cardinality(S)
<1>1. PICK f : f \in Bijection(D, S)
  BY FS_CardinalityType DEF ExistsBijection
<1>2. f \in [D -> S] /\ IsInjective(f)
  BY <1>1 DEF Bijection, Injection
<1>3. SetToSeq(S) \in [D -> S] /\ IsInjective(SetToSeq(S))
  BY <1>2 DEF SetToSeq
<1>4. SetToSeq(S) \in SetToSeqs(S)
  BY <1>3 DEF SetToSeqs, IsInjective
<1> QED BY <1>4, OrdersOfSet

-----------------------------------------------------------------------------
(***************************************************************************)
(* Requests in flight                                                      *)
(***************************************************************************)
LEMMA CallTyped ==
  ASSUME NEW c \in Call
  PROVE  /\ c.req \in Req /\ c.op \in Op /\ c.items \in Seq(Id)
         /\ c.plan \in Seq(Write) /\ c.done \in Nat /\ c.reading \in BOOLEAN
         /\ Len(c.plan) \in Nat /\ DOMAIN c.plan = 1 .. Len(c.plan)
         /\ \A n \in DOMAIN c.plan : /\ c.plan[n] \in Write /\ c.plan[n].id \in Id
                                     /\ c.plan[n].key \in 0 .. MaxKey
<1>1. /\ c.req \in Req /\ c.op \in Op /\ c.items \in Seq(Id)
      /\ c.plan \in Seq(Write) /\ c.done \in Nat /\ c.reading \in BOOLEAN
  BY DEF Call
<1>2. Len(c.plan) \in Nat /\ DOMAIN c.plan = 1 .. Len(c.plan)
  BY <1>1
<1>3. \A n \in DOMAIN c.plan : c.plan[n] \in Write
  BY <1>1, <1>2
<1>4. \A w \in Write : w.id \in Id /\ w.key \in 0 .. MaxKey
  BY DEF Write
<1> QED BY <1>1, <1>2, <1>3, <1>4

LEMMA CallFields ==
  ASSUME TypeOK, NEW c \in calls
  PROVE  /\ c \in Call /\ c.req \in Req /\ c.op \in Op /\ c.items \in Seq(Id)
         /\ c.plan \in Seq(Write) /\ c.done \in Nat /\ c.reading \in BOOLEAN
         /\ Len(c.plan) \in Nat /\ DOMAIN c.plan = 1 .. Len(c.plan)
         /\ \A n \in DOMAIN c.plan : /\ c.plan[n] \in Write /\ c.plan[n].id \in Id
                                     /\ c.plan[n].key \in 0 .. MaxKey
<1>1. c \in Call
  BY DEF TypeOK
<1> QED BY <1>1, CallTyped

LEMMA RowFields ==
  ASSUME TypeOK, NEW k \in rows
  PROVE  k.id \in Id /\ k.key \in 1 .. MaxKey /\ k.live \in BOOLEAN /\ k.skipped \in BOOLEAN
BY DEF TypeOK, Row

LEMMA RenumberPlan ==
  ASSUME NEW s \in Seq(Id), Len(s) <= MaxKey
  PROVE  /\ Renumber(s) \in Seq(Write) /\ Len(Renumber(s)) = Len(s)
         /\ DOMAIN Renumber(s) = 1 .. Len(s)
         /\ \A n \in 1 .. Len(s) : /\ Renumber(s)[n].what = "update"
                                   /\ Renumber(s)[n].id = s[n]
                                   /\ Renumber(s)[n].key = n
BY MaxKeyAssumption DEF Renumber, IndexToOrderKey, Write

LEMMA PlansJoined ==
  ASSUME NEW p \in Seq(Write), NEW q \in Seq(Write), NEW u, u = p \o q
  PROVE  /\ u \in Seq(Write) /\ Len(u) = Len(p) + Len(q)
         /\ \A n \in 1 .. Len(p) + Len(q) : u[n] = IF n <= Len(p) THEN p[n] ELSE q[n - Len(p)]
BY ConcatProperties

\* Row ids are few enough for the keys.
LEMMA IdsFinite ==
  ASSUME NEW S, S \subseteq Id
  PROVE  IsFiniteSet(S) /\ Cardinality(S) \in Nat /\ Cardinality(S) <= MaxKey
<1>1. IsFiniteSet(S) /\ Cardinality(S) <= Cardinality(Id)
  BY IdAssumption, FS_Subset
<1> QED BY <1>1, IdAssumption, MaxKeyAssumption, FS_CardinalityType

LEMMA RowsFinite ==
  ASSUME TypeOK, UniqueIds, NEW S, S \subseteq rows
  PROVE  /\ IsFiniteSet(S) /\ Cardinality(S) \in Nat /\ Cardinality(S) <= MaxKey
         /\ Cardinality(S) = Cardinality(Ids(S))
<1> DEFINE f == [k \in S |-> k.id]
<1>1. f \in Injection(S, Ids(S)) /\ f \in Surjection(S, Ids(S))
  BY DEF Injection, Surjection, IsInjective, Ids, UniqueIds
<1>2. Ids(S) \subseteq Id
  BY RowFields DEF Ids
<1>3. IsFiniteSet(S) /\ Cardinality(S) = Cardinality(Ids(S))
  <2> HIDE DEF f
  <2> QED BY <1>1, <1>2, IdsFinite, FS_Injection
<1> QED BY <1>2, <1>3, IdsFinite

\* Requests leave without a trace.
LEMMA Leaves ==
  ASSUME CallsInv, calls' \subseteq calls, UNCHANGED <<kind, rows>>, answer' = None,
         collided' \in BOOLEAN
  PROVE  CallsInv'
<1>1. TypeOK'
  BY DEF CallsInv, TypeOK, None
<1>2. CallsShaped'
  BY DEF CallsInv, CallsShaped, PlanShaped, Has
<1>3. InsertsFresh'
  BY DEF CallsInv, InsertsFresh, Has, PlanIds
<1>4. RowsHeld'
  BY DEF CallsInv, RowsHeld, Has, Blocked, Done
<1>5. (UniqueIds /\ ChildrenLive)'
  BY DEF CallsInv, UniqueIds, ChildrenLive
<1> QED BY <1>1, <1>2, <1>3, <1>4, <1>5 DEF CallsInv

\* A request goes on as e.
LEMMA GoesOn ==
  ASSUME CallsInv, NEW c \in calls, NEW e \in Call, e.req = c.req,
         calls' = (calls \ {c}) \cup {e}, UNCHANGED <<kind, rows, collided>>, answer' = None,
         PlanShaped(e),
         PlanIds(e) \subseteq PlanIds(c) \cup Ids(rows),
         \A n \in DOMAIN e.plan : e.plan[n].what = "insert" => n \in DOMAIN c.plan /\ e.plan[n] = c.plan[n],
         \A n \in 1 .. e.done : e.plan[n].what # "insert" =>
           Has(e.plan[n].id) /\ ~Blocked(c, e.plan[n].id)
  PROVE  CallsInv'
<1>1. TypeOK'
  BY DEF CallsInv, TypeOK, None
<1>2. \A d \in calls' : d = e \/ (d \in calls /\ d # c /\ d.req # e.req)
  BY DEF CallsInv, CallsShaped
<1>3. CallsShaped'
  BY <1>2 DEF CallsInv, CallsShaped, PlanShaped, Has
<1>4. InsertsFresh'
  <2> SUFFICES ASSUME NEW d \in calls', NEW n \in DOMAIN d.plan, d.plan[n].what = "insert"
               PROVE  ~Has(d.plan[n].id) /\ \A f \in calls' : f # d => d.plan[n].id \notin PlanIds(f)
    BY DEF InsertsFresh, Has, PlanIds
  <2>1. CASE d = e
    BY <2>1, <1>2 DEF CallsInv, InsertsFresh
  <2>2. CASE d \in calls /\ d # c
    <3>1. ~Has(d.plan[n].id) /\ \A f \in calls : f # d => d.plan[n].id \notin PlanIds(f)
      BY <2>2 DEF CallsInv, InsertsFresh
    <3>2. d.plan[n].id \notin PlanIds(e)
      BY <3>1, <2>2 DEF Has, Ids
    <3> QED BY <1>2, <3>1, <3>2
  <2> QED BY <1>2, <2>1, <2>2
<1>5. RowsHeld'
  <2> SUFFICES ASSUME NEW d \in calls', NEW n \in 1 .. d.done, d.plan[n].what # "insert"
               PROVE  /\ Has(d.plan[n].id)
                      /\ \A f \in calls' \ {d} : \A w \in Done(f) : w.id = d.plan[n].id => w.what = "insert"
    BY DEF RowsHeld, Has, Blocked, Done
  <2>1. CASE d = e
    BY <2>1, <1>2 DEF Blocked
  <2>2. CASE d \in calls /\ d # c
    <3>1. Has(d.plan[n].id) /\ ~Blocked(d, d.plan[n].id)
      BY <2>2 DEF CallsInv, RowsHeld
    <3>2. d.plan[n] \in Done(d)
      BY DEF Done
    <3>3. \A w \in Done(e) : w.id = d.plan[n].id => w.what = "insert"
      <4> SUFFICES ASSUME NEW m \in 1 .. e.done, e.plan[m].id = d.plan[n].id, e.plan[m].what # "insert"
                   PROVE  FALSE
        BY DEF Done
      <4> QED BY <3>2, <2>2 DEF Blocked
    <3> QED BY <1>2, <3>1, <3>3 DEF Blocked
  <2> QED BY <1>2, <2>1, <2>2
<1>6. (UniqueIds /\ ChildrenLive)'
  BY DEF CallsInv, UniqueIds, ChildrenLive
<1> QED BY <1>1, <1>3, <1>4, <1>5, <1>6 DEF CallsInv

-----------------------------------------------------------------------------
(***************************************************************************)
(* Requests arrive                                                         *)
(***************************************************************************)
LEMMA NextKey ==
  ASSUME TypeOK
  PROVE  NextOrderKey \in Nat /\ NextOrderKey > 0 /\ \A k \in rows : k.key < NextOrderKey
<1> DEFINE S == {0} \cup {k.key : k \in rows}
<1>1. S \subseteq Nat /\ S # {} /\ \A n \in S : n <= MaxKey
  BY RowFields, MaxKeyAssumption
<1>2. Max(S) \in S /\ \A n \in S : n <= Max(S)
  <2> HIDE DEF S
  <2> QED BY <1>1, GreatestNumber, MaxKeyAssumption
<1>3. NextOrderKey = Max(S) + 1
  BY DEF NextOrderKey
<1>4. 0 \in S /\ \A k \in rows : k.key \in S
  OBVIOUS
<1> HIDE DEF S
<1>5. Max(S) \in Nat
  BY <1>1, <1>2
<1>6. \A k \in rows : k.key \in Nat /\ k.key <= Max(S)
  BY <1>1, <1>2, <1>4
<1> QED BY <1>3, <1>5, <1>6

\* e is the call that request r begins with.
Arrival(r, e) ==
  /\ e \in Call /\ e.req = r /\ e.done = 0 /\ PlanShaped(e)
  /\ calls' = calls \cup {e} /\ UNCHANGED <<kind, rows>> /\ answer' = None
  /\ collided' \in BOOLEAN
  /\ (collided \/ \E c \in calls : Collide(e.op, e.items, c)) => collided'
  /\ \A n \in DOMAIN e.plan :
       IF e.plan[n].what = "insert"
       THEN e.plan[n].id \notin Ids(rows) /\ \A c \in calls : e.plan[n].id \notin PlanIds(c)
       ELSE e.plan[n].id \in Ids(rows)
  /\ e.op = "add" /\ ~collided' => \A k \in rows : k.key < e.plan[1].key
  /\ e.op = "reorder" => PlanIds(e) = Ids(Live)
  /\ e.op = "sync" => Ids(rows) \subseteq PlanIds(e)

LEMMA NewIds ==
  ASSUME TypeOK, NEW i \in Id, NewId(i)
  PROVE  i \notin Ids(rows) /\ \A c \in calls : i \notin PlanIds(c)
BY CallFields DEF NewId, Fresh, Has, Ids, PlanIds, ToSet

\* A plan of one write.
LEMMA OneWrite ==
  ASSUME NEW w \in Write
  PROVE  /\ <<w>> \in Seq(Write) /\ Len(<<w>>) = 1 /\ DOMAIN <<w>> = {1} /\ <<w>>[1] = w
OBVIOUS

LEMMA AddArrives ==
  ASSUME CallsInv, NEW r \in Req, AddStart(r)
  PROVE  \E e : Arrival(r, e)
<1>1. PICK i \in Id :
        /\ NewId(i) /\ NextOrderKey <= MaxKey
        /\ Start(r, "add", <<i>>, <<[what |-> "insert", id |-> i, key |-> NextOrderKey]>>, FALSE)
  BY DEF AddStart
<1>2. TypeOK
  BY DEF CallsInv
<1> DEFINE w == [what |-> "insert", id |-> i, key |-> NextOrderKey]
           e == [req |-> r, op |-> "add", items |-> <<i>>, plan |-> <<w>>, done |-> 0,
                 reading |-> FALSE]
<1>3. w \in Write /\ w.what = "insert" /\ w.id = i /\ w.key = NextOrderKey
  BY <1>1, <1>2, NextKey, MaxKeyAssumption DEF Write
<1>4. e \in Call /\ e.req = r /\ e.op = "add" /\ e.plan = <<w>> /\ e.done = 0 /\ e.items = <<i>>
      /\ e.reading = FALSE
  BY <1>3, OneWrite DEF Call, Op
<1>5. /\ calls' = calls \cup {e} /\ UNCHANGED <<kind, rows>> /\ answer' = None
      /\ collided' = (collided \/ \E c \in calls : Collide(e.op, e.items, c))
  BY <1>1, <1>4 DEF Start
<1> HIDE DEF e, w
<1>6. PlanShaped(e)
  BY <1>2, <1>3, <1>4, OneWrite, NextKey DEF PlanShaped
<1>7. Arrival(r, e)
  BY <1>1, <1>2, <1>3, <1>4, <1>5, <1>6, OneWrite, NextKey, NewIds DEF Arrival
<1> QED BY <1>7

\* With a key of the client's own the promise about keys is over.
LEMMA AddOwnKeyArrives ==
  ASSUME CallsInv, NEW r \in Req, AddOwnKey(r)
  PROVE  \E e : Arrival(r, e)
<1>1. PICK i \in Id, own \in 1 .. MaxKey :
        /\ NewId(i)
        /\ calls' = calls \cup
             {[req |-> r, op |-> "add", items |-> <<i>>,
               plan |-> <<[what |-> "insert", id |-> i, key |-> own]>>,
               done |-> 0, reading |-> FALSE]}
  BY DEF AddOwnKey
<1>2. TypeOK
  BY DEF CallsInv
<1> DEFINE w == [what |-> "insert", id |-> i, key |-> own]
           e == [req |-> r, op |-> "add", items |-> <<i>>, plan |-> <<w>>, done |-> 0,
                 reading |-> FALSE]
<1>3. w \in Write /\ w.what = "insert" /\ w.id = i /\ w.key > 0
  BY MaxKeyAssumption DEF Write
<1>4. e \in Call /\ e.req = r /\ e.op = "add" /\ e.plan = <<w>> /\ e.done = 0 /\ e.items = <<i>>
      /\ e.reading = FALSE
  BY <1>3, OneWrite DEF Call, Op
<1>5. calls' = calls \cup {e} /\ UNCHANGED <<kind, rows>> /\ answer' = None /\ collided' = TRUE
  BY <1>1 DEF AddOwnKey
<1> HIDE DEF e, w
<1>6. PlanShaped(e)
  BY <1>3, <1>4, OneWrite DEF PlanShaped
<1>7. Arrival(r, e)
  BY <1>1, <1>2, <1>3, <1>4, <1>5, <1>6, OneWrite, NewIds DEF Arrival
<1> QED BY <1>7

\* A delete of either kind begins with the row it was called for.
LEMMA DeleteArrives ==
  ASSUME CallsInv, NEW r \in Req, NEW i \in Id, DeleteStart(r, i) \/ SoftDeleteStart(r, i)
  PROVE  \E e : Arrival(r, e)
<1> DEFINE w == [what |-> IF kind = "child" THEN "delete" ELSE "hide", id |-> i, key |-> 0]
           e == [req |-> r, op |-> "delete", items |-> <<i>>, plan |-> <<w>>, done |-> 0,
                 reading |-> kind = "child"]
<1>1. /\ i \in Ids(rows)
      /\ kind \in {"child", "case"}
      /\ Start(r, "delete", <<i>>, <<w>>, kind = "child")
  <2>1. CASE DeleteStart(r, i)
    BY <2>1 DEF DeleteStart, Has, Ids
  <2>2. CASE SoftDeleteStart(r, i)
    BY <2>2 DEF SoftDeleteStart, Ids, Live
  <2> QED BY <2>1, <2>2
<1>2. w \in Write /\ w.what = (IF kind = "child" THEN "delete" ELSE "hide") /\ w.id = i /\ w.key = 0
  BY MaxKeyAssumption DEF Write
<1>3. e \in Call /\ e.req = r /\ e.op = "delete" /\ e.plan = <<w>> /\ e.done = 0 /\ e.items = <<i>>
      /\ e.reading = (kind = "child")
  BY <1>2, OneWrite DEF Call, Op
<1>4. /\ calls' = calls \cup {e} /\ UNCHANGED <<kind, rows>> /\ answer' = None
      /\ collided' = (collided \/ \E c \in calls : Collide(e.op, e.items, c))
  BY <1>1, <1>3 DEF Start
<1> HIDE DEF e, w
<1>5. DOMAIN e.plan = {1} /\ Len(e.plan) = 1 /\ e.plan[1] = w
  BY <1>2, <1>3, OneWrite
<1>8. e.items = <<e.plan[1].id>>
  BY <1>2, <1>3, <1>5
<1>6. PlanShaped(e)
  <2>1. CASE kind = "child"
    <3>1. e.plan[1].what = "delete" /\ e.plan[1].key = 0 /\ e.reading
      BY <2>1, <1>2, <1>3, <1>5
    <3> QED BY <2>1, <3>1, <1>3, <1>5, <1>8 DEF PlanShaped
  <2>2. CASE kind = "case"
    <3>1. e.plan[1].what = "hide" /\ e.plan[1].key = 0 /\ ~e.reading
      BY <2>2, <1>2, <1>3, <1>5
    <3> QED BY <2>2, <3>1, <1>3, <1>5, <1>8 DEF PlanShaped
  <2> QED BY <2>1, <2>2, <1>1
<1>7. Arrival(r, e)
  BY <1>1, <1>2, <1>3, <1>4, <1>5, <1>6 DEF Arrival
<1> QED BY <1>7

LEMMA RestoreArrives ==
  ASSUME CallsInv, NEW r \in Req, NEW i \in Id, RestoreStart(r, i)
  PROVE  \E e : Arrival(r, e)
<1> DEFINE e == [req |-> r, op |-> "restore", items |-> <<i>>, plan |-> <<>>, done |-> 0,
                 reading |-> FALSE]
<1>1. kind = "case" /\ i \in Ids(rows) /\ Start(r, "restore", <<i>>, <<>>, FALSE)
  BY DEF RestoreStart, Ids
<1>2. e \in Call /\ e.req = r /\ e.op = "restore" /\ e.plan = <<>> /\ e.done = 0
      /\ e.items = <<i>> /\ e.reading = FALSE
  BY DEF Call, Op
<1>3. /\ calls' = calls \cup {e} /\ UNCHANGED <<kind, rows>> /\ answer' = None
      /\ collided' = (collided \/ \E c \in calls : Collide(e.op, e.items, c))
  BY <1>1, <1>2 DEF Start
<1> HIDE DEF e
<1>4. PlanShaped(e)
  BY <1>1, <1>2 DEF PlanShaped, Has, Ids
<1>5. /\ collided' \in BOOLEAN
      /\ (collided \/ \E c \in calls : Collide(e.op, e.items, c)) => collided'
  BY <1>3
<1>6. Arrival(r, e)
  BY <1>2, <1>3, <1>4, <1>5 DEF Arrival
<1> QED BY <1>6

\* A reorder has all rows that are shown.
LEMMA ReorderArrives ==
  ASSUME CallsInv, NEW r \in Req, ReorderStart(r)
  PROVE  \E e : Arrival(r, e)
<1>1. PICK s \in SetToSeqs(Ids(Live)) : Start(r, "reorder", s, Renumber(s), FALSE)
  BY DEF ReorderStart
<1> DEFINE e == [req |-> r, op |-> "reorder", items |-> s, plan |-> Renumber(s), done |-> 0,
                 reading |-> FALSE]
<1>2. Ids(Live) \subseteq Id /\ Ids(Live) \subseteq Ids(rows)
  BY RowFields DEF Ids, Live, CallsInv
<1>3. /\ s \in Seq(Ids(Live)) /\ Len(s) <= MaxKey /\ ToSet(s) = Ids(Live)
      /\ \A m, n \in 1 .. Len(s) : s[m] = s[n] => m = n
  BY <1>2, IdsFinite, OrdersOfSet
<1>4. s \in Seq(Id)
  BY <1>2, <1>3
<1>5. e \in Call /\ e.req = r /\ e.op = "reorder" /\ e.plan = Renumber(s) /\ e.done = 0
      /\ e.items = s /\ e.reading = FALSE
  BY <1>3, <1>4, RenumberPlan DEF Call, Op
<1>6. /\ calls' = calls \cup {e} /\ UNCHANGED <<kind, rows>> /\ answer' = None
      /\ collided' = (collided \/ \E c \in calls : Collide(e.op, e.items, c))
  BY <1>1, <1>5 DEF Start
<1> HIDE DEF e
<1>7. /\ DOMAIN e.plan = 1 .. Len(s) /\ Len(e.plan) = Len(s) /\ Len(s) \in Nat
      /\ \A n \in 1 .. Len(s) :
           e.plan[n].what = "update" /\ e.plan[n].id = s[n] /\ e.plan[n].key = n
  BY <1>3, <1>4, <1>5, RenumberPlan
<1>8. PlanShaped(e)
  <2>1. \A m, n \in DOMAIN e.plan : e.plan[m].id = e.plan[n].id => m = n
    BY <1>3, <1>7
  <2> QED BY <1>5, <1>7, <2>1 DEF PlanShaped
<1>9. DOMAIN s = 1 .. Len(s)
  BY <1>4
<1>10. PlanIds(e) = Ids(Live)
  BY <1>3, <1>7, <1>9 DEF PlanIds, ToSet
<1>11. \A n \in 1 .. Len(s) : s[n] \in Ids(Live)
  BY <1>3
<1>12. /\ collided' \in BOOLEAN
       /\ (collided \/ \E c \in calls : Collide(e.op, e.items, c)) => collided'
  BY <1>6
<1>13. Arrival(r, e)
  BY <1>2, <1>5, <1>6, <1>7, <1>8, <1>10, <1>11, <1>12 DEF Arrival
<1> QED BY <1>13

\* What a sync plans: g are gone, s stay or, if in new, are inserted.
SyncPlan(g, s, new) ==
  [n \in 1 .. Len(g) |-> [what |-> "delete", id |-> g[n], key |-> 0]]
  \o [n \in 1 .. Len(s) |-> [what |-> IF s[n] \in new THEN "insert" ELSE "update",
                             id |-> s[n], key |-> IndexToOrderKey(n)]]

LEMMA SyncWrites ==
  ASSUME NEW g \in Seq(Id), NEW s \in Seq(Id), NEW new, Len(s) <= MaxKey,
         NEW p, p = SyncPlan(g, s, new)
  PROVE  /\ p \in Seq(Write) /\ Len(p) = Len(g) + Len(s)
         /\ \A n \in 1 .. Len(g) :
              n \in DOMAIN p /\ p[n].what = "delete" /\ p[n].id = g[n] /\ p[n].key = 0
         /\ \A n \in 1 .. Len(s) :
              /\ n + Len(g) \in DOMAIN p
              /\ p[n + Len(g)].what = IF s[n] \in new THEN "insert" ELSE "update"
              /\ p[n + Len(g)].id = s[n] /\ p[n + Len(g)].key = n
         /\ \A n \in DOMAIN p : n \in 1 .. Len(g) \/ \E m \in 1 .. Len(s) : n = m + Len(g)
<1> DEFINE W(n) == [what |-> "delete", id |-> g[n], key |-> 0]
           X(n) == [what |-> IF s[n] \in new THEN "insert" ELSE "update", id |-> s[n], key |-> n]
           G == [n \in 1 .. Len(g) |-> W(n)]
           K == [n \in 1 .. Len(s) |-> X(n)]
<1>1. Len(g) \in Nat /\ Len(s) \in Nat
  OBVIOUS
<1>2. \A n \in 1 .. Len(g) :
        W(n) \in Write /\ W(n).what = "delete" /\ W(n).id = g[n] /\ W(n).key = 0
  BY MaxKeyAssumption DEF Write
<1>3. \A n \in 1 .. Len(s) :
        /\ X(n) \in Write /\ X(n).what = IF s[n] \in new THEN "insert" ELSE "update"
        /\ X(n).id = s[n] /\ X(n).key = n
  BY MaxKeyAssumption DEF Write
<1>4. p = G \o K
  BY DEF SyncPlan, IndexToOrderKey
<1> HIDE DEF W, X
<1>5. G \in Seq(Write) /\ Len(G) = Len(g) /\ \A n \in 1 .. Len(g) : G[n] = W(n)
  BY <1>1, <1>2
<1>6. K \in Seq(Write) /\ Len(K) = Len(s) /\ \A n \in 1 .. Len(s) : K[n] = X(n)
  BY <1>1, <1>3
<1> HIDE DEF G, K
<1>7. /\ p \in Seq(Write) /\ Len(p) = Len(g) + Len(s)
      /\ \A n \in 1 .. Len(g) + Len(s) : p[n] = IF n <= Len(g) THEN G[n] ELSE K[n - Len(g)]
  <2>1. G \in Seq(Write) /\ K \in Seq(Write)
    BY <1>5, <1>6
  <2>2. /\ p \in Seq(Write) /\ Len(p) = Len(G) + Len(K)
        /\ \A n \in 1 .. Len(G) + Len(K) : p[n] = IF n <= Len(G) THEN G[n] ELSE K[n - Len(G)]
    BY <1>4, <2>1, PlansJoined
  <2> QED BY <1>5, <1>6, <2>2
<1>8. DOMAIN p = 1 .. Len(g) + Len(s)
  BY <1>7
<1>9. \A n \in 1 .. Len(g) : n \in DOMAIN p /\ p[n] = W(n)
  BY <1>1, <1>5, <1>7, <1>8
<1>10. \A n \in 1 .. Len(s) : n + Len(g) \in DOMAIN p /\ p[n + Len(g)] = X(n)
  <2> SUFFICES ASSUME NEW n \in 1 .. Len(s)
               PROVE  n + Len(g) \in DOMAIN p /\ p[n + Len(g)] = X(n)
    OBVIOUS
  <2>1. n + Len(g) \in 1 .. Len(g) + Len(s) /\ ~(n + Len(g) <= Len(g)) /\ (n + Len(g)) - Len(g) = n
    BY <1>1
  <2> QED BY <2>1, <1>6, <1>7, <1>8
<1>11. \A n \in DOMAIN p : n \in 1 .. Len(g) \/ \E m \in 1 .. Len(s) : n = m + Len(g)
  <2> SUFFICES ASSUME NEW n \in 1 .. Len(g) + Len(s), n \notin 1 .. Len(g)
               PROVE  \E m \in 1 .. Len(s) : n = m + Len(g)
    BY <1>8
  <2>1. n - Len(g) \in 1 .. Len(s) /\ n = (n - Len(g)) + Len(g)
    BY <1>1
  <2> QED BY <2>1
<1>12. \A n \in 1 .. Len(g) :
         n \in DOMAIN p /\ p[n].what = "delete" /\ p[n].id = g[n] /\ p[n].key = 0
  BY <1>2, <1>9
<1>13. \A n \in 1 .. Len(s) :
         /\ n + Len(g) \in DOMAIN p
         /\ p[n + Len(g)].what = IF s[n] \in new THEN "insert" ELSE "update"
         /\ p[n + Len(g)].id = s[n] /\ p[n + Len(g)].key = n
  <2> SUFFICES ASSUME NEW n \in 1 .. Len(s)
               PROVE  /\ n + Len(g) \in DOMAIN p
                      /\ p[n + Len(g)].what = IF s[n] \in new THEN "insert" ELSE "update"
                      /\ p[n + Len(g)].id = s[n] /\ p[n + Len(g)].key = n
    OBVIOUS
  <2>1. n + Len(g) \in DOMAIN p /\ p[n + Len(g)] = X(n)
    BY <1>10
  <2>2. /\ X(n).what = IF s[n] \in new THEN "insert" ELSE "update"
        /\ X(n).id = s[n] /\ X(n).key = n
    BY <1>3
  <2> QED BY <2>1, <2>2
<1>14. p \in Seq(Write) /\ Len(p) = Len(g) + Len(s)
  BY <1>7
<1> QED BY <1>11, <1>12, <1>13, <1>14, Zenon

\* A sync deletes or writes all there are.
LEMMA SyncArrives ==
  ASSUME CallsInv, NEW r \in Req, SyncStart(r)
  PROVE  \E e : Arrival(r, e)
<1>1. PICK keep \in SUBSET Ids(rows), new \in SUBSET {i \in Id : NewId(i)} :
        /\ kind = "child"
        /\ \E s \in SetToSeqs(keep \cup new), g \in {SetToSeq(Ids(rows) \ keep)} :
             Start(r, "sync", s, SyncPlan(g, s, new), FALSE)
  BY DEF SyncStart, SyncPlan
<1>2. PICK s, g : /\ s \in SetToSeqs(keep \cup new) /\ g = SetToSeq(Ids(rows) \ keep)
                  /\ Start(r, "sync", s, SyncPlan(g, s, new), FALSE)
  BY <1>1
<1>3. PICK p : p = SyncPlan(g, s, new)
  OBVIOUS
<1>4. TypeOK /\ Ids(rows) \subseteq Id /\ keep \subseteq Ids(rows)
  BY RowFields DEF Ids, CallsInv
<1>5. \A i \in new : i \in Id /\ i \notin Ids(rows) /\ \A c \in calls : i \notin PlanIds(c)
  BY <1>4, NewIds
<1>6. /\ s \in Seq(keep \cup new) /\ Len(s) \in Nat /\ Len(s) <= MaxKey /\ ToSet(s) = keep \cup new
      /\ \A m, n \in 1 .. Len(s) : s[m] = s[n] => m = n
  <2>1. keep \cup new \subseteq Id
    BY <1>4, <1>5
  <2> QED BY <1>2, <2>1, IdsFinite, OrdersOfSet
<1>7. /\ g \in Seq(Ids(rows) \ keep) /\ Len(g) \in Nat /\ ToSet(g) = Ids(rows) \ keep
      /\ \A m, n \in 1 .. Len(g) : g[m] = g[n] => m = n
  <2>1. Ids(rows) \ keep \subseteq Id
    BY <1>4
  <2> QED BY <1>2, <2>1, IdsFinite, ListOfSet
<1>8. /\ s \in Seq(Id) /\ g \in Seq(Id)
      /\ \A n \in 1 .. Len(s) : s[n] \in keep \cup new
      /\ \A n \in 1 .. Len(g) : g[n] \in Ids(rows) \ keep
  BY <1>4, <1>5, <1>6, <1>7
<1>9. /\ p \in Seq(Write) /\ Len(p) = Len(g) + Len(s)
      /\ \A n \in 1 .. Len(g) :
           n \in DOMAIN p /\ p[n].what = "delete" /\ p[n].id = g[n] /\ p[n].key = 0
      /\ \A n \in 1 .. Len(s) :
           /\ n + Len(g) \in DOMAIN p
           /\ p[n + Len(g)].what = IF s[n] \in new THEN "insert" ELSE "update"
           /\ p[n + Len(g)].id = s[n] /\ p[n + Len(g)].key = n
      /\ \A n \in DOMAIN p : n \in 1 .. Len(g) \/ \E m \in 1 .. Len(s) : n = m + Len(g)
  BY <1>3, <1>6, <1>8, SyncWrites
<1> DEFINE e == [req |-> r, op |-> "sync", items |-> s, plan |-> p, done |-> 0, reading |-> FALSE]
<1>10. e \in Call /\ e.req = r /\ e.op = "sync" /\ e.plan = p /\ e.done = 0 /\ e.items = s
       /\ e.reading = FALSE
  BY <1>8, <1>9 DEF Call, Op
<1>11. /\ calls' = calls \cup {e} /\ UNCHANGED <<kind, rows>> /\ answer' = None
       /\ collided' = (collided \/ \E c \in calls : Collide(e.op, e.items, c))
  BY <1>2, <1>3, <1>10 DEF Start
<1> HIDE DEF e
<1>12. \A m, n \in DOMAIN p : p[m].id = p[n].id => m = n
  <2> SUFFICES ASSUME NEW m \in DOMAIN p, NEW n \in DOMAIN p, p[m].id = p[n].id PROVE m = n
    OBVIOUS
  <2>1. \A a \in 1 .. Len(g), b \in 1 .. Len(s) : g[a] # s[b]
    BY <1>5, <1>8
  <2>2. CASE m \in 1 .. Len(g) /\ n \in 1 .. Len(g)
    BY <2>2, <1>7, <1>9
  <2>3. CASE m \in 1 .. Len(g) /\ n \notin 1 .. Len(g)
    <3>1. PICK b \in 1 .. Len(s) : n = b + Len(g)
      BY <2>3, <1>9
    <3> QED BY <2>1, <2>3, <3>1, <1>9
  <2>4. CASE m \notin 1 .. Len(g) /\ n \in 1 .. Len(g)
    <3>1. PICK b \in 1 .. Len(s) : m = b + Len(g)
      BY <2>4, <1>9
    <3> QED BY <2>1, <2>4, <3>1, <1>9
  <2>5. CASE m \notin 1 .. Len(g) /\ n \notin 1 .. Len(g)
    <3>1. PICK a \in 1 .. Len(s), b \in 1 .. Len(s) : m = a + Len(g) /\ n = b + Len(g)
      BY <2>5, <1>9
    <3>2. p[m].id = s[a] /\ p[n].id = s[b]
      BY <3>1, <1>9
    <3> QED BY <3>1, <3>2, <1>6
  <2> QED BY <2>2, <2>3, <2>4, <2>5
<1>13. \A n \in DOMAIN p :
         /\ p[n].what \in {"delete", "update", "insert"}
         /\ p[n].what # "delete" => p[n].key \in DOMAIN s /\ p[n].id = s[p[n].key]
  <2> SUFFICES ASSUME NEW n \in DOMAIN p
               PROVE  /\ p[n].what \in {"delete", "update", "insert"}
                      /\ p[n].what # "delete" => p[n].key \in DOMAIN s /\ p[n].id = s[p[n].key]
    OBVIOUS
  <2>1. CASE n \in 1 .. Len(g)
    BY <2>1, <1>9
  <2>2. CASE n \notin 1 .. Len(g)
    <3>1. PICK b \in 1 .. Len(s) : n = b + Len(g)
      BY <2>2, <1>9
    <3>2. b \in DOMAIN s
      BY <1>6
    <3>3. p[n].what \in {"update", "insert"} /\ p[n].key = b /\ p[n].id = s[b]
      BY <3>1, <1>9
    <3> QED BY <3>2, <3>3
  <2> QED BY <2>1, <2>2
<1>14. PlanShaped(e)
  <2>1. \A m \in DOMAIN s : \E n \in DOMAIN p : p[n].what # "delete" /\ p[n].key = m
    <3> SUFFICES ASSUME NEW m \in 1 .. Len(s)
                 PROVE  \E n \in DOMAIN p : p[n].what # "delete" /\ p[n].key = m
      BY <1>6
    <3>1. m + Len(g) \in DOMAIN p /\ p[m + Len(g)].key = m /\ p[m + Len(g)].what # "delete"
      BY <1>9
    <3> QED BY <3>1
  <2>2. 0 <= Len(p)
    BY <1>6, <1>7, <1>9
  <2> QED BY <1>1, <1>10, <1>12, <1>13, <2>1, <2>2 DEF PlanShaped
<1>15. Ids(rows) \subseteq PlanIds(e)
  <2> SUFFICES ASSUME NEW i \in Ids(rows) PROVE \E n \in DOMAIN p : p[n].id = i
    BY <1>10 DEF PlanIds
  <2>1. CASE i \in keep
    <3>1. PICK n \in DOMAIN s : s[n] = i
      BY <2>1, <1>6 DEF ToSet
    <3>2. n \in 1 .. Len(s)
      BY <1>6
    <3> QED BY <3>1, <3>2, <1>9
  <2>2. CASE i \notin keep
    <3>1. PICK n \in DOMAIN g : g[n] = i
      BY <2>2, <1>7 DEF ToSet
    <3>2. n \in 1 .. Len(g)
      BY <1>7
    <3> QED BY <3>1, <3>2, <1>9
  <2> QED BY <2>1, <2>2
<1>16. \A n \in DOMAIN p :
         IF p[n].what = "insert"
         THEN p[n].id \notin Ids(rows) /\ \A c \in calls : p[n].id \notin PlanIds(c)
         ELSE p[n].id \in Ids(rows)
  <2> SUFFICES ASSUME NEW n \in DOMAIN p
               PROVE  IF p[n].what = "insert"
                      THEN p[n].id \notin Ids(rows) /\ \A c \in calls : p[n].id \notin PlanIds(c)
                      ELSE p[n].id \in Ids(rows)
    OBVIOUS
  <2>1. CASE n \in 1 .. Len(g)
    BY <2>1, <1>8, <1>9
  <2>2. CASE n \notin 1 .. Len(g)
    <3>1. PICK b \in 1 .. Len(s) : n = b + Len(g)
      BY <2>2, <1>9
    <3>2. CASE s[b] \in new
      BY <3>1, <3>2, <1>5, <1>9
    <3>3. CASE s[b] \notin new
      BY <3>1, <3>3, <1>4, <1>8, <1>9
    <3> QED BY <3>2, <3>3
  <2> QED BY <2>1, <2>2
<1>17. Arrival(r, e)
  BY <1>10, <1>11, <1>14, <1>15, <1>16 DEF Arrival
<1> QED BY <1>17

LEMMA SomethingArrives ==
  ASSUME CallsInv, NEW r \in Req, Arrive(r)
  PROVE  \E e : Arrival(r, e)
BY AddArrives, AddOwnKeyArrives, DeleteArrives, RestoreArrives, ReorderArrives, SyncArrives DEF Arrive

\* Where a request arrives, the shape of requests and rows stays.
LEMMA ArrivalKeepsCalls ==
  ASSUME CallsInv, NEW r \in Req, Free(r), NEW e, Arrival(r, e)
  PROVE  CallsInv'
<1>1. /\ calls' = calls \cup {e} /\ UNCHANGED <<kind, rows>>
      /\ answer' = None /\ collided' \in BOOLEAN
  BY DEF Arrival, CallsInv, TypeOK, Collide
<1>2. e \in Call /\ e.done = 0 /\ e.req = r /\ PlanShaped(e)
  BY DEF Arrival
<1>3. \A c \in calls : c.req # r
  BY DEF Free
<1>4. TypeOK'
  BY <1>1, <1>2 DEF CallsInv, TypeOK, None
<1>5. CallsShaped'
  BY <1>1, <1>2, <1>3 DEF CallsInv, CallsShaped, PlanShaped, Has
<1>6. InsertsFresh'
  <2>1. \A n \in DOMAIN e.plan : e.plan[n].what = "insert" =>
          ~Has(e.plan[n].id) /\ \A d \in calls : e.plan[n].id \notin PlanIds(d)
    BY DEF Arrival, Has, Ids
  <2>2. \A c \in calls : \A m \in DOMAIN c.plan : c.plan[m].what = "insert" =>
          ~Has(c.plan[m].id) /\ c.plan[m].id \notin PlanIds(e)
    <3> SUFFICES ASSUME NEW c \in calls, NEW m \in DOMAIN c.plan, c.plan[m].what = "insert",
                        NEW n \in DOMAIN e.plan, e.plan[n].id = c.plan[m].id
                 PROVE  FALSE
      BY DEF PlanIds, CallsInv, InsertsFresh
    <3>1. ~Has(c.plan[m].id) /\ c.plan[m].id \in PlanIds(c)
      BY DEF CallsInv, InsertsFresh, PlanIds
    <3> QED BY <3>1 DEF Arrival, Has, Ids
  <2> QED BY <1>1, <2>1, <2>2 DEF CallsInv, InsertsFresh, Has, PlanIds
<1>7. RowsHeld'
  <2> SUFFICES ASSUME NEW c \in calls', NEW n \in 1 .. c.done, c.plan[n].what # "insert"
               PROVE  (Has(c.plan[n].id) /\ ~Blocked(c, c.plan[n].id))'
    BY DEF RowsHeld
  <2>1. c # e
    BY <1>2
  <2>2. c \in calls /\ Has(c.plan[n].id) /\ ~Blocked(c, c.plan[n].id)
    BY <1>1, <2>1 DEF CallsInv, RowsHeld
  <2>3. Done(e) = {}
    BY <1>2 DEF Done
  <2> QED BY <1>1, <2>2, <2>3 DEF Has, Blocked, Done
<1>8. (UniqueIds /\ ChildrenLive)'
  BY <1>1 DEF CallsInv, UniqueIds, ChildrenLive
<1> QED BY <1>4, <1>5, <1>6, <1>7, <1>8 DEF CallsInv

-----------------------------------------------------------------------------
(***************************************************************************)
(* Requests go on, commit and fail                                         *)
(***************************************************************************)
\* A request executes its next statement.
LEMMA WritesAs ==
  ASSUME CallsInv, NEW c \in calls, WriteRow(c)
  PROVE  /\ UNCHANGED <<kind, rows, collided>> /\ answer' = None
         /\ \/ calls' = calls \ {c}
            \/ \E e \in Call :
                 /\ calls' = (calls \ {c}) \cup {e}
                 /\ e.req = c.req /\ e.op = c.op /\ e.items = c.items /\ e.plan = c.plan
                 /\ e.reading = c.reading /\ e.done = c.done + 1 /\ e.done \in DOMAIN c.plan
                 /\ c.plan[e.done].what # "insert" =>
                      Has(c.plan[e.done].id) /\ ~Blocked(c, c.plan[e.done].id)
<1> DEFINE e == [c EXCEPT !.done = @ + 1]
           w == c.plan[c.done + 1]
<1>1. /\ c.done < Len(c.plan) /\ UNCHANGED <<kind, rows, collided>> /\ answer' = None
      /\ \/ /\ w.what = "insert" \/ (Has(w.id) /\ ~Blocked(c, w.id))
            /\ calls' = (calls \ {c}) \cup {e}
         \/ calls' = calls \ {c}
  BY DEF WriteRow
<1>2. c \in Call /\ c.done \in Nat /\ DOMAIN c.plan = 1 .. Len(c.plan) /\ Len(c.plan) \in Nat
  BY CallFields DEF CallsInv
<1>3. /\ e \in Call /\ e.req = c.req /\ e.op = c.op /\ e.items = c.items /\ e.plan = c.plan
      /\ e.reading = c.reading /\ e.done = c.done + 1
  BY <1>2 DEF Call
<1>4. c.done + 1 \in DOMAIN c.plan
  BY <1>1, <1>2
<1> HIDE DEF e
<1> QED BY <1>1, <1>3, <1>4

LEMMA WriteKeepsCalls ==
  ASSUME CallsInv, NEW c \in calls, WriteRow(c)
  PROVE  CallsInv'
<1>1. CASE calls' = calls \ {c}
  <2>1. collided' \in BOOLEAN
    BY WritesAs DEF CallsInv, TypeOK
  <2> QED BY <1>1, <2>1, WritesAs, Leaves
<1>2. CASE calls' # calls \ {c}
  <2>1. PICK e \in Call :
          /\ calls' = (calls \ {c}) \cup {e}
          /\ e.req = c.req /\ e.op = c.op /\ e.items = c.items /\ e.plan = c.plan
          /\ e.reading = c.reading /\ e.done = c.done + 1 /\ e.done \in DOMAIN c.plan
          /\ c.plan[e.done].what # "insert" =>
               Has(c.plan[e.done].id) /\ ~Blocked(c, c.plan[e.done].id)
    BY <1>2, WritesAs
  <2>2. c.done \in Nat /\ DOMAIN c.plan = 1 .. Len(c.plan) /\ Len(c.plan) \in Nat
    BY CallFields DEF CallsInv
  <2>3. PlanShaped(c)
    BY DEF CallsInv, CallsShaped
  <2>4. PlanShaped(e)
    BY <2>1, <2>2, <2>3 DEF PlanShaped
  <2>5. PlanIds(e) \subseteq PlanIds(c) \cup Ids(rows)
    BY <2>1 DEF PlanIds
  <2>6. \A n \in 1 .. e.done : e.plan[n].what # "insert" =>
          Has(e.plan[n].id) /\ ~Blocked(c, e.plan[n].id)
    <3> SUFFICES ASSUME NEW n \in 1 .. e.done, e.plan[n].what # "insert"
                 PROVE  Has(e.plan[n].id) /\ ~Blocked(c, e.plan[n].id)
      OBVIOUS
    <3>1. n = e.done \/ n \in 1 .. c.done
      BY <2>1, <2>2
    <3>2. CASE n = e.done
      BY <2>1, <3>2
    <3>3. CASE n \in 1 .. c.done
      BY <2>1, <3>3 DEF CallsInv, RowsHeld
    <3> QED BY <3>1, <3>2, <3>3
  <2>7. UNCHANGED <<kind, rows, collided>> /\ answer' = None
    BY WritesAs
  <2> QED BY <2>1, <2>4, <2>5, <2>6, <2>7, GoesOn
<1> QED BY <1>1, <1>2

\* A delete has read the other rows: all of them, in their order.
LEMMA ReadsAs ==
  ASSUME CallsInv, NEW c \in calls, ReadRemaining(c)
  PROVE  /\ UNCHANGED <<kind, rows, collided>> /\ answer' = None
         /\ kind = "child" /\ c.op = "delete" /\ c.reading /\ DOMAIN c.plan = {1}
         /\ \E e \in Call :
              /\ calls' = (calls \ {c}) \cup {e}
              /\ e.req = c.req /\ e.op = c.op /\ e.items = c.items /\ e.done = 1 /\ ~e.reading
              /\ e.plan[1] = c.plan[1] /\ PlanShaped(e)
              /\ PlanIds(e) = Ids(rows) \cup {c.plan[1].id}
              /\ \A n \in DOMAIN e.plan : \A k, l \in rows :
                   n > 1 /\ k.id = e.plan[n].id /\ l.id \notin {e.plan[m].id : m \in 1 .. n}
                     => k.key <= l.key
<1>1. /\ c \in Call /\ c.plan \in Seq(Write) /\ DOMAIN c.plan = 1 .. Len(c.plan)
      /\ PlanShaped(c) /\ TypeOK /\ UniqueIds
  BY CallFields DEF CallsInv, CallsShaped
<1>2. /\ kind = "child" /\ c.op = "delete" /\ c.reading /\ Len(c.plan) = 1 /\ c.done = 1
      /\ DOMAIN c.plan = {1} /\ c.plan[1].what = "delete" /\ c.plan[1].key = 0
  <2>1. c.reading /\ c.done = 1
    BY DEF ReadRemaining
  <2> QED BY <1>1, <2>1 DEF PlanShaped
<1> DEFINE S == {k \in rows : k.id # c.plan[1].id}
           Named(t) == [n \in 1 .. Len(t) |-> t[n].id]
           E(t) == [c EXCEPT !.reading = FALSE, !.plan = @ \o Renumber(Named(t))]
<1>3. PICK t \in SetToSeqs(S) :
        /\ calls' = (calls \ {c}) \cup {E(t)}
        /\ \A m, n \in 1 .. Len(t) : m < n => t[m].key <= t[n].key
  BY DEF ReadRemaining, Sorted
<1>4. /\ t \in Seq(S) /\ Len(t) \in Nat /\ Len(t) <= MaxKey /\ ToSet(t) = S
      /\ \A m, n \in 1 .. Len(t) : t[m] = t[n] => m = n
  <2>1. S \subseteq rows
    OBVIOUS
  <2> HIDE DEF S
  <2> QED BY <1>1, <2>1, RowsFinite, OrdersOfSet
<1>5. \A n \in 1 .. Len(t) : t[n] \in rows /\ t[n].id \in Id /\ t[n].id # c.plan[1].id
  <2>1. \A n \in 1 .. Len(t) : t[n] \in S
    BY <1>4
  <2> QED BY <1>1, <2>1, RowFields
<1>6. PICK s : s = Named(t)
  OBVIOUS
<1>7. s \in Seq(Id) /\ Len(s) = Len(t) /\ \A n \in 1 .. Len(s) : s[n] = t[n].id
  BY <1>4, <1>5, <1>6
<1>8. PICK q : q = c.plan \o Renumber(s)
  OBVIOUS
<1>9. /\ Renumber(s) \in Seq(Write) /\ Len(Renumber(s)) = Len(s)
      /\ \A n \in 1 .. Len(s) : /\ Renumber(s)[n].what = "update"
                                /\ Renumber(s)[n].id = s[n]
                                /\ Renumber(s)[n].key = n
  BY <1>4, <1>7, RenumberPlan
<1>10. /\ q \in Seq(Write) /\ Len(q) = 1 + Len(s) /\ DOMAIN q = 1 .. 1 + Len(s)
       /\ q[1] = c.plan[1]
       /\ \A n \in 1 .. 1 + Len(s) : n > 1 =>
            q[n].what = "update" /\ q[n].id = s[n - 1] /\ q[n].key = n - 1
  <2>1. /\ q \in Seq(Write) /\ Len(q) = 1 + Len(s)
        /\ \A n \in 1 .. 1 + Len(s) : q[n] = IF n <= 1 THEN c.plan[n] ELSE Renumber(s)[n - 1]
    <3>1. PICK u \in Seq(Write) : u = Renumber(s)
      BY <1>9
    <3>2. /\ q \in Seq(Write) /\ Len(q) = Len(c.plan) + Len(u)
          /\ \A n \in 1 .. Len(c.plan) + Len(u) : q[n] = IF n <= Len(c.plan) THEN c.plan[n]
                                                      ELSE u[n - Len(c.plan)]
      BY <1>1, <1>8, <3>1, PlansJoined
    <3> QED BY <1>2, <1>9, <3>1, <3>2
  <2>2. DOMAIN q = 1 .. 1 + Len(s) /\ Len(s) \in Nat
    BY <1>4, <1>7, <2>1
  <2>3. q[1] = c.plan[1]
    BY <2>1, <2>2
  <2>4. ASSUME NEW n \in 1 .. 1 + Len(s), n > 1
        PROVE  q[n].what = "update" /\ q[n].id = s[n - 1] /\ q[n].key = n - 1
    <3>1. n - 1 \in 1 .. Len(s) /\ ~(n <= 1)
      BY <2>2, <2>4
    <3>2. q[n] = Renumber(s)[n - 1]
      BY <2>1, <3>1
    <3>3. /\ Renumber(s)[n - 1].what = "update" /\ Renumber(s)[n - 1].id = s[n - 1]
          /\ Renumber(s)[n - 1].key = n - 1
      BY <1>9, <3>1
    <3> QED BY <3>2, <3>3
  <2> QED BY <2>1, <2>2, <2>3, <2>4
<1>11. PICK e : e = E(t)
  OBVIOUS
<1>12. /\ e \in Call /\ e.req = c.req /\ e.op = c.op /\ e.items = c.items /\ e.done = c.done
       /\ e.plan = q /\ e.reading = FALSE
  BY <1>1, <1>6, <1>8, <1>10, <1>11 DEF Call
<1>13. PlanIds(e) = Ids(rows) \cup {c.plan[1].id}
  <2>1. ASSUME NEW n \in DOMAIN q PROVE q[n].id \in Ids(rows) \cup {c.plan[1].id}
    <3>1. CASE n = 1
      BY <3>1, <1>10
    <3>2. CASE n # 1
      <4>1. n - 1 \in 1 .. Len(s) /\ n > 1
        BY <3>2, <1>4, <1>7, <1>10
      <4> QED BY <4>1, <1>5, <1>7, <1>10 DEF Ids
    <3> QED BY <3>1, <3>2
  <2>2. ASSUME NEW i \in Ids(rows), i # c.plan[1].id PROVE \E n \in DOMAIN q : q[n].id = i
    <3>1. PICK k \in S : k.id = i
      BY <2>2 DEF Ids
    <3>2. PICK n \in 1 .. Len(t) : t[n] = k
      <4>1. DOMAIN t = 1 .. Len(t)
        BY <1>4
      <4> HIDE DEF S
      <4> QED BY <4>1, <1>4, <3>1 DEF ToSet
    <3>3. n + 1 \in DOMAIN q /\ n + 1 > 1 /\ (n + 1) - 1 = n
      BY <1>4, <1>7, <1>10
    <3>4. q[n + 1].id = s[n]
      BY <1>10, <3>3
    <3> QED BY <1>7, <3>1, <3>2, <3>3, <3>4
  <2>3. 1 \in DOMAIN q
    BY <1>4, <1>7, <1>10
  <2> QED BY <1>10, <1>12, <2>1, <2>2, <2>3 DEF PlanIds
<1>14. \A m, n \in DOMAIN q : q[m].id = q[n].id => m = n
  <2> SUFFICES ASSUME NEW m \in DOMAIN q, NEW n \in DOMAIN q, q[m].id = q[n].id, m > 1
               PROVE  m = n
    BY <1>4, <1>5, <1>7, <1>10
  <2>1. m - 1 \in 1 .. Len(s) /\ q[m].id = s[m - 1]
    BY <1>4, <1>7, <1>10
  <2>2. n > 1
    <3> SUFFICES ASSUME n = 1 PROVE FALSE
      BY <1>4, <1>7, <1>10
    <3> QED BY <2>1, <1>5, <1>7, <1>10
  <2>3. n - 1 \in 1 .. Len(s) /\ q[n].id = s[n - 1]
    BY <2>2, <1>4, <1>7, <1>10
  <2>4. t[m - 1] = t[n - 1]
    <3>1. /\ t[m - 1] \in rows /\ t[n - 1] \in rows
          /\ t[m - 1].id = s[m - 1] /\ t[n - 1].id = s[n - 1]
      BY <1>5, <1>7, <2>1, <2>3
    <3> QED BY <3>1, <1>1, <2>1, <2>3 DEF UniqueIds
  <2>5. m - 1 = n - 1
    BY <1>4, <1>7, <2>1, <2>3, <2>4
  <2> QED BY <2>5, <1>4, <1>7, <1>10
<1>15. PlanShaped(e)
  <2>1. 1 <= Len(q)
    BY <1>4, <1>7, <1>10
  <2>2. c.items = <<c.plan[1].id>>
    BY <1>1, <1>2 DEF PlanShaped
  <2>3. e.items = <<q[1].id>>
    BY <1>10, <1>12, <2>2
  <2> QED BY <2>1, <2>3, <1>2, <1>10, <1>12, <1>14 DEF PlanShaped
<1>16. UNCHANGED <<kind, rows, collided>> /\ answer' = None
  BY DEF ReadRemaining
<1>17. calls' = (calls \ {c}) \cup {e}
  BY <1>3, <1>11
<1>18. \A n \in DOMAIN q : \A k, l \in rows :
         n > 1 /\ k.id = q[n].id /\ l.id \notin {q[m].id : m \in 1 .. n} => k.key <= l.key
  <2> SUFFICES ASSUME NEW n \in DOMAIN q, NEW k \in rows, NEW l \in rows, n > 1, k.id = q[n].id,
                      l.id \notin {q[m].id : m \in 1 .. n}
               PROVE  k.key <= l.key
    OBVIOUS
  <2>1. n - 1 \in 1 .. Len(t) /\ q[n].id = t[n - 1].id
    BY <1>4, <1>7, <1>10
  <2>2. k = t[n - 1]
    BY <1>1, <1>5, <2>1 DEF UniqueIds
  <2>3. l.id # c.plan[1].id
    <3>1. 1 \in 1 .. n
      BY <1>10
    <3> QED BY <1>10, <3>1
  <2>4. PICK p \in 1 .. Len(t) : t[p] = l
    <3>1. l \in S
      BY <2>3
    <3>2. DOMAIN t = 1 .. Len(t)
      BY <1>4
    <3> HIDE DEF S
    <3> QED BY <1>4, <3>1, <3>2 DEF ToSet
  <2>5. n - 1 < p
    <3> SUFFICES ASSUME p <= n - 1 PROVE FALSE
      BY <1>4, <1>10
    <3>1. p + 1 \in 1 .. n /\ p + 1 \in 1 .. 1 + Len(s) /\ p + 1 > 1 /\ (p + 1) - 1 = p
      BY <1>4, <1>7, <1>10
    <3>2. q[p + 1].id = s[p]
      BY <1>10, <3>1
    <3>3. q[p + 1].id = l.id
      BY <1>7, <2>4, <3>2
    <3> QED BY <3>1, <3>3
  <2> QED BY <1>3, <2>1, <2>2, <2>4, <2>5
<1>19. \A n \in DOMAIN e.plan : \A k, l \in rows :
         n > 1 /\ k.id = e.plan[n].id /\ l.id \notin {e.plan[m].id : m \in 1 .. n} => k.key <= l.key
  <2>1. e.plan = q
    BY <1>12
  <2> QED BY ONLY <1>18, <2>1
<1> QED BY <1>2, <1>10, <1>12, <1>13, <1>15, <1>16, <1>17, <1>19

LEMMA ReadKeepsCalls ==
  ASSUME CallsInv, NEW c \in calls, ReadRemaining(c)
  PROVE  CallsInv'
<1>1. PICK e \in Call :
        /\ calls' = (calls \ {c}) \cup {e}
        /\ e.req = c.req /\ e.op = c.op /\ e.items = c.items /\ e.done = 1 /\ ~e.reading
        /\ e.plan[1] = c.plan[1] /\ PlanShaped(e)
        /\ PlanIds(e) = Ids(rows) \cup {c.plan[1].id}
  BY ReadsAs
<1>2. /\ UNCHANGED <<kind, rows, collided>> /\ answer' = None
      /\ kind = "child" /\ c.op = "delete" /\ DOMAIN c.plan = {1}
  BY ReadsAs
<1>3. PlanIds(e) \subseteq PlanIds(c) \cup Ids(rows)
  BY <1>1, <1>2 DEF PlanIds
<1>4. e.plan \in Seq(Write)
  BY DEF Call
<1>5. \A n \in DOMAIN e.plan : e.plan[n].what # "insert"
  <2>1. DOMAIN e.plan \subseteq Nat \ {0}
    BY <1>4
  <2>2. e.plan[1].what = "delete" /\ \A n \in DOMAIN e.plan : n > 1 => e.plan[n].what = "update"
    BY <1>1, <1>2 DEF PlanShaped
  <2>3. \A n \in DOMAIN e.plan : n = 1 \/ n > 1
    BY <2>1
  <2> QED BY <2>2, <2>3
<1>6. c.done = 1 /\ c.plan[1].what = "delete"
  BY <1>2 DEF ReadRemaining, PlanShaped, CallsInv, CallsShaped
<1>7. Has(c.plan[1].id) /\ ~Blocked(c, c.plan[1].id)
  <2>1. 1 \in 1 .. c.done /\ c.plan[1].what # "insert"
    BY <1>6
  <2> QED BY <2>1 DEF CallsInv, RowsHeld
<1>8. \A n \in 1 .. e.done : e.plan[n].what # "insert" =>
        Has(e.plan[n].id) /\ ~Blocked(c, e.plan[n].id)
  BY <1>1, <1>7
<1> QED BY <1>1, <1>2, <1>3, <1>5, <1>8, GoesOn

-----------------------------------------------------------------------------
\* A request leaves rows that differ from the old ones in what it inserted and
\* deleted: the other requests find what they need.
LEMMA OthersStay ==
  ASSUME CallsInv, NEW c \in calls, calls' = calls \ {c}, UNCHANGED kind,
         TypeOK', UniqueIds', ChildrenLive',
         \A i \in Ids(rows') \ Ids(rows) :
           \E n \in DOMAIN c.plan : c.plan[n].what = "insert" /\ c.plan[n].id = i,
         \A i \in Ids(rows) \ Ids(rows') : kind = "child" /\
           \E n \in 1 .. c.done : c.plan[n].what = "delete" /\ c.plan[n].id = i
  PROVE  CallsInv'
<1>1. \A i : Has(i) <=> i \in Ids(rows)
  BY DEF Has, Ids
<1>2. \A i : Has(i)' <=> i \in Ids(rows')
  BY DEF Has, Ids
<1>3. CallsShaped'
  <2>1. \A d \in calls' : PlanShaped(d)'
    <3> SUFFICES ASSUME NEW d \in calls' PROVE PlanShaped(d)'
      OBVIOUS
    <3>1. PlanShaped(d)
      BY DEF CallsInv, CallsShaped
    <3>2. d.op = "restore" => Has(d.items[1])'
      <4>1. d.op = "restore" => kind # "child" /\ Has(d.items[1])
        BY <3>1 DEF PlanShaped
      <4> QED BY <4>1, <1>1, <1>2
    <3> QED BY <3>1, <3>2 DEF PlanShaped
  <2> QED BY <2>1 DEF CallsInv, CallsShaped
<1>4. InsertsFresh'
  <2> SUFFICES ASSUME NEW d \in calls', NEW n \in DOMAIN d.plan, d.plan[n].what = "insert"
               PROVE  /\ d.plan[n].id \notin Ids(rows')
                      /\ \A f \in calls' : f # d => d.plan[n].id \notin PlanIds(f)
    BY <1>2 DEF InsertsFresh, PlanIds
  <2>1. d \in calls /\ d # c
    OBVIOUS
  <2>2. d.plan[n].id \notin Ids(rows) /\ \A f \in calls : f # d => d.plan[n].id \notin PlanIds(f)
    BY <2>1, <1>1 DEF CallsInv, InsertsFresh
  <2>3. \A m \in DOMAIN c.plan : c.plan[m].id # d.plan[n].id
    BY <2>1, <2>2 DEF PlanIds
  <2> QED BY <2>2, <2>3
<1>5. RowsHeld'
  <2> SUFFICES ASSUME NEW d \in calls', NEW n \in 1 .. d.done, d.plan[n].what # "insert"
               PROVE  /\ d.plan[n].id \in Ids(rows')
                      /\ ~Blocked(d, d.plan[n].id)'
    BY <1>2 DEF RowsHeld
  <2>1. d \in calls /\ d # c
    OBVIOUS
  <2>2. d.plan[n].id \in Ids(rows) /\ ~Blocked(d, d.plan[n].id)
    BY <2>1, <1>1 DEF CallsInv, RowsHeld
  <2>3. ~Blocked(d, d.plan[n].id)'
    BY <2>2 DEF Blocked, Done
  <2>4. \A m \in 1 .. c.done : c.plan[m].id = d.plan[n].id => c.plan[m].what = "insert"
    BY <2>1, <2>2 DEF Blocked, Done
  <2> QED BY <2>2, <2>3, <2>4
<1> QED BY <1>3, <1>4, <1>5 DEF CallsInv

LEMMA RestoresAs ==
  ASSUME CallsInv, NEW c \in calls, Restore(c)
  PROVE  /\ kind = "case" /\ c.op = "restore" /\ UNCHANGED kind
         /\ calls' = calls \ {c} /\ answer' = [op |-> "restore", items |-> c.items]
         /\ \E k \in rows : /\ k.id = c.items[1]
                            /\ rows' = (rows \ {k}) \cup {[k EXCEPT !.live = TRUE]}
                            /\ collided' = (collided \/ k.skipped)
<1>1. kind = "case" /\ c.op = "restore" /\ Has(c.items[1])
  BY DEF Restore, CallsInv, CallsShaped, PlanShaped
<1>2. PICK k : k = RowOf(c.items[1])
  OBVIOUS
<1>3. k \in rows /\ k.id = c.items[1]
  BY <1>1, <1>2 DEF Has, RowOf
<1>4. /\ rows' = (rows \ {k}) \cup {[k EXCEPT !.live = TRUE]}
      /\ collided' = (collided \/ k.skipped)
  BY <1>2 DEF Restore
<1>5. /\ UNCHANGED kind /\ calls' = calls \ {c}
      /\ answer' = [op |-> "restore", items |-> c.items]
  BY DEF Restore
<1> QED BY <1>1, <1>3, <1>4, <1>5

LEMMA RestoreKeepsCalls ==
  ASSUME CallsInv, NEW c \in calls, Restore(c)
  PROVE  CallsInv'
<1>1. /\ kind = "case" /\ c.op = "restore" /\ UNCHANGED kind
      /\ calls' = calls \ {c} /\ answer' = [op |-> "restore", items |-> c.items]
  BY RestoresAs
<1>2. PICK k \in rows : /\ rows' = (rows \ {k}) \cup {[k EXCEPT !.live = TRUE]}
                        /\ collided' = (collided \/ k.skipped)
  BY RestoresAs
<1>3. PICK j : j = [k EXCEPT !.live = TRUE]
  OBVIOUS
<1>4. k \in Row /\ rows \subseteq Row /\ TypeOK /\ UniqueIds
  BY DEF CallsInv, TypeOK
<1>5. j \in Row /\ j.id = k.id
  BY <1>3, <1>4 DEF Row
<1>6. rows' = (rows \ {k}) \cup {j}
  BY <1>2, <1>3
<1>7. TypeOK'
  BY <1>1, <1>2, <1>4, <1>5, <1>6, CallFields, RowFields DEF TypeOK
<1>8. UniqueIds'
  BY <1>4, <1>5, <1>6 DEF UniqueIds
<1>9. ChildrenLive'
  BY <1>1 DEF ChildrenLive
<1>10. Ids(rows') = Ids(rows)
  BY <1>5, <1>6 DEF Ids
<1> QED BY <1>1, <1>7, <1>8, <1>9, <1>10, OthersStay

\* What a commit makes visible.  Whether c writes `what` to row i:
Writes(c, what, i) == \E n \in DOMAIN c.plan : c.plan[n].what = what /\ c.plan[n].id = i

\* j is row k as the commit of c leaves it.
Left(c, k, j) ==
  /\ j.id = k.id
  /\ j.live <=> k.live /\ ~Writes(c, "hide", k.id)
  /\ IF c.op = "reorder" THEN j.skipped <=> k.id \notin ToSet(c.items) /\ (k.skipped \/ ~k.live)
     ELSE j.skipped <=> k.skipped
  /\ \/ \E n \in DOMAIN c.plan : /\ c.plan[n].what = "update" /\ c.plan[n].id = k.id
                                 /\ j.key = c.plan[n].key
     \/ ~Writes(c, "update", k.id) /\ j.key = k.key
\* j is a row c has inserted.
Inserted(c, j) == \E n \in DOMAIN c.plan :
  c.plan[n].what = "insert" /\ j.id = c.plan[n].id /\ j.key = c.plan[n].key /\ j.live /\ ~j.skipped

LEMMA CommitsAs ==
  ASSUME CallsInv, NEW c \in calls, Commit(c)
  PROVE  /\ UNCHANGED <<kind, collided>> /\ calls' = calls \ {c}
         /\ answer' = [op |-> c.op, items |-> c.items]
         /\ c.op # "restore" /\ ~c.reading /\ c.done = Len(c.plan)
         /\ rows' \subseteq Row
         /\ \A j \in rows' :
              Inserted(c, j) \/ \E k \in rows : ~Writes(c, "delete", k.id) /\ Left(c, k, j)
         /\ \A k \in rows : ~Writes(c, "delete", k.id) => \E j \in rows' : Left(c, k, j)
         /\ \A n \in DOMAIN c.plan :
              c.plan[n].what = "insert" => \E j \in rows' : Inserted(c, j) /\ j.id = c.plan[n].id
<1>1. /\ UNCHANGED <<kind, collided>> /\ calls' = calls \ {c}
      /\ answer' = [op |-> c.op, items |-> c.items]
      /\ c.op # "restore" /\ ~c.reading /\ c.done = Len(c.plan) /\ rows' = Written(c)
  BY DEF Commit
<1>2. /\ TypeOK /\ PlanShaped(c) /\ c.plan \in Seq(Write) /\ DOMAIN c.plan = 1 .. Len(c.plan)
      /\ \A n \in DOMAIN c.plan : c.plan[n] \in Write /\ c.plan[n].id \in Id /\ c.plan[n].key \in 0 .. MaxKey
  BY CallFields DEF CallsInv, CallsShaped
<1>3. Done(c) = {c.plan[n] : n \in DOMAIN c.plan}
  BY <1>1, <1>2 DEF Done
<1> DEFINE inserts == {w \in Done(c) : w.what = "insert"}
           deletes == {w.id : w \in {v \in Done(c) : v.what = "delete"}}
           hides   == {w.id : w \in {v \in Done(c) : v.what = "hide"}}
           updates == {w \in Done(c) : w.what = "update"}
           Rekey(k) == IF \E w \in updates : w.id = k.id
                       THEN (CHOOSE w \in updates : w.id = k.id).key ELSE k.key
           Missed(k) == IF c.op # "reorder" THEN k.skipped
                        ELSE k.id \notin ToSet(c.items) /\ (k.skipped \/ ~k.live)
           New(k) == [id |-> k.id, key |-> Rekey(k), live |-> k.live /\ k.id \notin hides,
                      skipped |-> Missed(k)]
           Row0(w) == [id |-> w.id, key |-> w.key, live |-> TRUE, skipped |-> FALSE]
<1>4. rows' = {New(k) : k \in {l \in rows : l.id \notin deletes}} \cup {Row0(w) : w \in inserts}
  BY <1>1 DEF Written
<1>5. \A i : (i \in deletes <=> Writes(c, "delete", i)) /\ (i \in hides <=> Writes(c, "hide", i))
  BY <1>3 DEF Writes
<1>6. \A k \in rows : \/ \E n \in DOMAIN c.plan : /\ c.plan[n].what = "update"
                                                  /\ c.plan[n].id = k.id /\ Rekey(k) = c.plan[n].key
                      \/ ~Writes(c, "update", k.id) /\ Rekey(k) = k.key
  <2> SUFFICES ASSUME NEW k \in rows
               PROVE \/ \E n \in DOMAIN c.plan : /\ c.plan[n].what = "update"
                                                  /\ c.plan[n].id = k.id /\ Rekey(k) = c.plan[n].key
                     \/ ~Writes(c, "update", k.id) /\ Rekey(k) = k.key
    OBVIOUS
  <2>1. CASE \E w \in updates : w.id = k.id
    <3>1. PICK v : v = CHOOSE w \in updates : w.id = k.id
      OBVIOUS
    <3>2. v \in updates /\ v.id = k.id
      BY <2>1, <3>1
    <3>3. Rekey(k) = v.key
      BY <2>1, <3>1
    <3> QED BY <3>2, <3>3, <1>3
  <2>2. CASE ~\E w \in updates : w.id = k.id
    BY <2>2, <1>3 DEF Writes
  <2> QED BY <2>1, <2>2
<1>7. \A n \in DOMAIN c.plan : c.plan[n].what \in {"update", "insert"} => c.plan[n].key \in 1 .. MaxKey
  <2> SUFFICES ASSUME NEW n \in DOMAIN c.plan, c.plan[n].what \in {"update", "insert"}
               PROVE  c.plan[n].key > 0
    BY <1>2
  <2>1. c.op \in Op /\ kind \in {"child", "case"} /\ c.items \in Seq(Id)
    BY CallFields, KindsAssumption DEF CallsInv, TypeOK
  <2>2. n \in Nat /\ n > 0
    BY <1>2
  <2>3. CASE c.op = "add"
    BY <2>2, <2>3, <1>2 DEF PlanShaped
  <2>4. CASE c.op = "delete"
    <3>1. n > 1
      <4>1. c.plan[1].what \in {"delete", "hide"}
        BY <2>4, <1>2 DEF PlanShaped
      <4> QED BY <4>1, <2>2
    <3> QED BY <2>2, <2>4, <3>1, <1>2 DEF PlanShaped
  <2>5. CASE c.op = "reorder"
    <3>1. c.plan = Renumber(c.items)
      BY <2>5, <1>2 DEF PlanShaped
    <3> QED BY <2>1, <2>2, <3>1, <1>2 DEF Renumber, IndexToOrderKey
  <2>6. CASE c.op = "sync"
    <3>1. c.plan[n].key \in DOMAIN c.items
      BY <2>6, <1>2 DEF PlanShaped
    <3> QED BY <2>1, <3>1
  <2> QED BY <2>1, <2>3, <2>4, <2>5, <2>6, <1>1 DEF Op
<1> HIDE DEF inserts, deletes, hides, Rekey
<1>8. \A k \in rows : k.id \notin deletes => New(k) \in Row /\ Left(c, k, New(k))
  <2> SUFFICES ASSUME NEW k \in rows PROVE New(k) \in Row /\ Left(c, k, New(k))
    OBVIOUS
  <2>1. k \in Row /\ k.id \in Id /\ k.key \in 1 .. MaxKey /\ k.live \in BOOLEAN /\ k.skipped \in BOOLEAN
    BY <1>2, RowFields DEF TypeOK
  <2>2. Rekey(k) \in 1 .. MaxKey
    BY <2>1, <1>6, <1>7
  <2>3. Missed(k) \in BOOLEAN
    BY <2>1
  <2>4. PICK j : j = New(k)
    OBVIOUS
  <2>5. /\ j.id = k.id /\ j.key = Rekey(k) /\ (j.live <=> k.live /\ k.id \notin hides)
        /\ (j.skipped <=> Missed(k))
    BY <2>4
  <2>6. Left(c, k, j)
    BY <2>5, <1>5, <1>6 DEF Left
  <2>7. New(k) \in Row
    BY <2>1, <2>2, <2>3 DEF Row
  <2> QED BY <2>4, <2>6, <2>7
<1>9. \A w \in inserts : Row0(w) \in Row /\ Inserted(c, Row0(w))
  <2> SUFFICES ASSUME NEW w \in inserts PROVE Row0(w) \in Row /\ Inserted(c, Row0(w))
    OBVIOUS
  <2>1. PICK n \in DOMAIN c.plan : w = c.plan[n] /\ w.what = "insert"
    BY <1>3 DEF inserts
  <2>2. w.id \in Id /\ w.key \in 1 .. MaxKey
    BY <2>1, <1>2, <1>7
  <2> QED BY <2>1, <2>2 DEF Row, Inserted
<1>10. \A n \in DOMAIN c.plan : c.plan[n].what = "insert" => c.plan[n] \in inserts
  BY <1>3 DEF inserts
<1> HIDE DEF New
<1>11. rows' \subseteq Row
  BY <1>4, <1>8, <1>9
<1>12. \A j \in rows' :
         Inserted(c, j) \/ \E k \in rows : ~Writes(c, "delete", k.id) /\ Left(c, k, j)
  BY <1>4, <1>5, <1>8, <1>9
<1>13. \A k \in rows : ~Writes(c, "delete", k.id) => \E j \in rows' : Left(c, k, j)
  BY <1>4, <1>5, <1>8
<1>14. \A n \in DOMAIN c.plan :
         c.plan[n].what = "insert" => \E j \in rows' : Inserted(c, j) /\ j.id = c.plan[n].id
  <2> SUFFICES ASSUME NEW n \in DOMAIN c.plan, c.plan[n].what = "insert"
               PROVE  \E j \in rows' : Inserted(c, j) /\ j.id = c.plan[n].id
    OBVIOUS
  <2>1. Row0(c.plan[n]) \in rows' /\ Inserted(c, Row0(c.plan[n]))
    BY <1>4, <1>9, <1>10
  <2>2. Row0(c.plan[n]).id = c.plan[n].id
    OBVIOUS
  <2> QED BY <2>1, <2>2
<1> QED BY <1>1, <1>11, <1>12, <1>13, <1>14

LEMMA SameRows ==
  ASSUME NEW j \in Row, NEW k \in Row, j.id = k.id, j.key = k.key,
         j.live <=> k.live, j.skipped <=> k.skipped
  PROVE  j = k
<1>1. j.live = k.live /\ j.skipped = k.skipped
  BY DEF Row
<1> QED BY <1>1 DEF Row

\* Rows are hidden in one variant, deleted in the other, and inserts are an
\* add's or a sync's.
LEMMA WritesOfKind ==
  ASSUME TypeOK, NEW c \in Call, PlanShaped(c), NEW n \in DOMAIN c.plan
  PROVE  /\ c.plan[n].what \in {"insert", "update", "delete", "hide"}
         /\ c.plan[n].what = "hide" => c.op = "delete" /\ kind = "case"
         /\ c.plan[n].what = "delete" => c.op \in {"delete", "sync"} /\ kind = "child"
         /\ c.plan[n].what = "insert" => c.op \in {"add", "sync"}
         /\ c.plan[n].what = "update" => c.op \in {"delete", "reorder", "sync"}
         /\ c.op = "delete" /\ kind = "case" => c.plan[n].what = "hide"
         /\ c.op = "delete" /\ kind = "child" => c.plan[n].what = IF n = 1 THEN "delete" ELSE "update"
         /\ c.op = "reorder" => c.plan[n].what = "update"
         /\ c.op # "restore"
<1>1. /\ TypeOK /\ PlanShaped(c) /\ c.plan \in Seq(Write) /\ DOMAIN c.plan = 1 .. Len(c.plan)
      /\ c.plan[n] \in Write /\ c.op \in Op /\ c.items \in Seq(Id) /\ n \in Nat /\ n > 0
      /\ Len(c.plan) \in Nat
  BY CallTyped
<1>2. kind \in {"child", "case"}
  BY <1>1, KindsAssumption DEF TypeOK
<1>3. CASE c.op = "add"
  <2>1. c.plan[1].what = "insert" /\ n = 1
    BY <1>1, <1>3 DEF PlanShaped
  <2> QED BY <1>3, <2>1
<1>4. CASE c.op = "delete"
  <2>1. n = 1 \/ n > 1
    BY <1>1
  <2>2. CASE n = 1
    BY <1>1, <1>2, <1>4, <2>2 DEF PlanShaped
  <2>3. CASE n > 1
    BY <1>1, <1>2, <1>4, <2>3 DEF PlanShaped
  <2> QED BY <2>1, <2>2, <2>3
<1>5. CASE c.op = "reorder"
  <2>1. c.plan = Renumber(c.items)
    BY <1>1, <1>5 DEF PlanShaped
  <2>2. c.plan[n].what = "update"
    BY <1>1, <2>1 DEF Renumber
  <2> QED BY <1>5, <2>2
<1>6. CASE c.op = "sync"
  BY <1>1, <1>6 DEF PlanShaped
<1>7. CASE c.op = "restore"
  BY <1>1, <1>7 DEF PlanShaped
<1> QED BY <1>1, <1>3, <1>4, <1>5, <1>6, <1>7 DEF Op

LEMMA CommitKeepsCalls ==
  ASSUME CallsInv, NEW c \in calls, Commit(c)
  PROVE  CallsInv'
<1>1. /\ UNCHANGED <<kind, collided>> /\ calls' = calls \ {c}
      /\ answer' = [op |-> c.op, items |-> c.items]
      /\ c.op # "restore" /\ ~c.reading /\ c.done = Len(c.plan)
      /\ rows' \subseteq Row
  BY CommitsAs
<1>2. \A j \in rows' :
        Inserted(c, j) \/ \E k \in rows : ~Writes(c, "delete", k.id) /\ Left(c, k, j)
  BY CommitsAs
<1>3. /\ TypeOK /\ UniqueIds /\ PlanShaped(c) /\ DOMAIN c.plan = 1 .. Len(c.plan)
      /\ c.op \in Op /\ c.items \in Seq(Id)
  BY CallFields DEF CallsInv, CallsShaped
<1>10. \A n \in DOMAIN c.plan : /\ (kind = "child" => c.plan[n].what # "hide")
                                 /\ (c.plan[n].what = "delete" => kind = "child")
  BY <1>3, WritesOfKind, CallFields
<1>4. TypeOK'
  BY <1>1, <1>3 DEF TypeOK
<1>5. \A j : Inserted(c, j) => j.id \notin Ids(rows)
  BY DEF Inserted, CallsInv, InsertsFresh, Has, Ids
<1>6. UniqueIds'
  <2> SUFFICES ASSUME NEW i \in rows', NEW j \in rows', i.id = j.id PROVE i = j
    BY DEF UniqueIds
  <2>1. CASE Inserted(c, i) /\ Inserted(c, j)
    <3>1. PICK m \in DOMAIN c.plan : i.id = c.plan[m].id /\ i.key = c.plan[m].key /\ i.live /\ ~i.skipped
      BY <2>1 DEF Inserted
    <3>2. PICK n \in DOMAIN c.plan : j.id = c.plan[n].id /\ j.key = c.plan[n].key /\ j.live /\ ~j.skipped
      BY <2>1 DEF Inserted
    <3>3. m = n
      <4>1. c.plan[m].id = c.plan[n].id
        BY <3>1, <3>2
      <4> QED BY <4>1, <1>3 DEF PlanShaped
    <3> QED BY <3>1, <3>2, <3>3, <1>1, SameRows
  <2>2. CASE \E k, l \in rows : Left(c, k, i) /\ Left(c, l, j)
    <3>1. PICK k \in rows, l \in rows : Left(c, k, i) /\ Left(c, l, j)
      BY <2>2
    <3>2. k = l
      BY <3>1, <1>3 DEF Left, UniqueIds
    <3>3. i.key = j.key
      <4>1. CASE Writes(c, "update", k.id)
        <5>1. PICK m \in DOMAIN c.plan : c.plan[m].id = k.id /\ i.key = c.plan[m].key
          BY <3>1, <4>1 DEF Left
        <5>2. PICK n \in DOMAIN c.plan : c.plan[n].id = k.id /\ j.key = c.plan[n].key
          BY <3>1, <3>2, <4>1 DEF Left
        <5> QED BY <5>1, <5>2, <1>3 DEF PlanShaped
      <4>2. CASE ~Writes(c, "update", k.id)
        BY <3>1, <3>2, <4>2 DEF Left, Writes
      <4> QED BY <4>1, <4>2
    <3>4. (i.live <=> j.live) /\ (i.skipped <=> j.skipped)
      BY <3>1, <3>2 DEF Left
    <3> QED BY <3>3, <3>4, <1>1, SameRows
  <2>3. \A k \in rows : \A l : Left(c, k, l) => l.id \in Ids(rows)
    BY DEF Left, Ids
  <2> QED BY <1>2, <1>5, <2>1, <2>2, <2>3
<1>7. ChildrenLive'
  <2> SUFFICES ASSUME kind = "child", NEW j \in rows' PROVE j.live /\ ~j.skipped
    BY <1>1 DEF ChildrenLive
  <2>1. CASE Inserted(c, j)
    BY <2>1 DEF Inserted
  <2>2. CASE \E k \in rows : Left(c, k, j)
    <3>1. PICK k \in rows : Left(c, k, j)
      BY <2>2
    <3>2. k.live /\ ~k.skipped
      BY DEF CallsInv, ChildrenLive
    <3>3. ~Writes(c, "hide", k.id)
      BY <1>10 DEF Writes
    <3> QED BY <3>1, <3>2, <3>3 DEF Left
  <2> QED BY <1>2, <2>1, <2>2
<1>8. \A i \in Ids(rows') \ Ids(rows) :
        \E n \in DOMAIN c.plan : c.plan[n].what = "insert" /\ c.plan[n].id = i
  BY <1>2 DEF Ids, Inserted, Left
<1>9. \A i \in Ids(rows) \ Ids(rows') : kind = "child" /\
        \E n \in 1 .. c.done : c.plan[n].what = "delete" /\ c.plan[n].id = i
  <2> SUFFICES ASSUME NEW i \in Ids(rows), i \notin Ids(rows')
               PROVE  kind = "child" /\ \E n \in DOMAIN c.plan : c.plan[n].what = "delete" /\ c.plan[n].id = i
    BY <1>1, <1>3
  <2>1. PICK k \in rows : k.id = i
    BY DEF Ids
  <2>2. Writes(c, "delete", i)
    <3> SUFFICES ASSUME ~Writes(c, "delete", i) PROVE FALSE
      OBVIOUS
    <3>1. PICK j \in rows' : Left(c, k, j)
      BY <2>1, CommitsAs
    <3> QED BY <2>1, <3>1 DEF Left, Ids
  <2> QED BY <2>2, <1>10 DEF Writes
<1> QED BY <1>1, <1>4, <1>6, <1>7, <1>8, <1>9, OthersStay

\* Every step keeps the shape of requests and rows.
LEMMA StepKeepsCalls ==
  ASSUME CallsInv, Next
  PROVE  CallsInv'
<1>1. ASSUME NEW r \in Req, Free(r), Arrive(r)
      PROVE  CallsInv'
  <2>1. PICK e : Arrival(r, e)
    BY <1>1, SomethingArrives
  <2> QED BY <1>1, <2>1, ArrivalKeepsCalls
<1>2. ASSUME NEW c \in calls, Abort(c)
      PROVE  CallsInv'
  BY <1>2, Leaves DEF Abort, CallsInv, TypeOK
<1>3. ASSUME NEW c \in calls, Resume(c)
      PROVE  CallsInv'
  BY <1>2, <1>3, WriteKeepsCalls, ReadKeepsCalls, CommitKeepsCalls, RestoreKeepsCalls DEF Resume
<1> QED BY <1>1, <1>3 DEF Next

LEMMA CallsStutter ==
  ASSUME CallsInv, UNCHANGED vars
  PROVE  CallsInv'
<1>1. TypeOK'
  BY DEF CallsInv, TypeOK, vars
<1>2. CallsShaped'
  BY DEF CallsInv, CallsShaped, PlanShaped, Has, vars
<1>3. InsertsFresh'
  BY DEF CallsInv, InsertsFresh, Has, PlanIds, vars
<1>4. RowsHeld'
  BY DEF CallsInv, RowsHeld, Has, Blocked, Done, vars
<1>5. (UniqueIds /\ ChildrenLive)'
  BY DEF CallsInv, UniqueIds, ChildrenLive, vars
<1> QED BY <1>1, <1>2, <1>3, <1>4, <1>5 DEF CallsInv

LEMMA CallsBegin == Init => CallsInv
<1> SUFFICES ASSUME Init PROVE CallsInv
  OBVIOUS
<1> USE DEF Init
<1>1. TypeOK
  <2>1. None \in [op : Op \cup {"none"}, items : Seq(Id)]
    <3>1. << >> \in Seq(Id)
      OBVIOUS
    <3> QED BY <3>1 DEF None
  <2>2. rows \subseteq Row /\ calls \subseteq Call
    BY DEF Row, Call
  <2>3. kind \in Kinds /\ answer = None /\ collided \in BOOLEAN
    OBVIOUS
  <2> QED BY <2>1, <2>2, <2>3 DEF TypeOK
<1>2. CallsShaped /\ InsertsFresh /\ RowsHeld
  BY DEF CallsShaped, InsertsFresh, RowsHeld
<1>3. UniqueIds /\ ChildrenLive
  BY DEF UniqueIds, ChildrenLive
<1> QED BY <1>1, <1>2, <1>3 DEF CallsInv

\* Requests write each row once, what they insert is new, and what they have
\* written is theirs until they commit.
THEOREM CallsInductive == Spec => []CallsInv
<1>1. CallsInv /\ [Next]_vars => CallsInv'
  BY StepKeepsCalls, CallsStutter
<1> QED BY <1>1, CallsBegin, PTL DEF Spec

\* Type correctness.
THEOREM OrderKeysTyped == Spec => []TypeOK
<1>1. CallsInv => TypeOK
  BY DEF CallsInv
<1> QED BY <1>1, CallsInductive, PTL

\* A reorder that is answered took effect, whatever ran beside it.
THEOREM ReordersTakeEffect == Spec => ReorderTakesEffect
<1> DEFINE A == answer'.op = "reorder" =>
                  \A m, n \in DOMAIN answer'.items : \A k, l \in rows' :
                    m < n /\ k.id = answer'.items[m] /\ l.id = answer'.items[n]
                      => k.key < l.key
<1>1. ASSUME CallsInv, Next
      PROVE  A
  <2> SUFFICES ASSUME answer'.op = "reorder"
               PROVE  A
    OBVIOUS
  <2>1. PICK c \in calls : Commit(c)
    <3>1. answer' # None
      BY DEF None
    <3>2. \A r \in Req : ~Arrive(r)
      BY <1>1, <3>1, SomethingArrives DEF Arrival
    <3>3. \A c \in calls : ~Restore(c)
      <4> SUFFICES ASSUME NEW c \in calls, Restore(c) PROVE FALSE
        OBVIOUS
      <4>1. answer'.op = "restore"
        BY DEF Restore
      <4> QED BY <4>1
    <3>4. \A c \in calls : ~WriteRow(c) /\ ~ReadRemaining(c) /\ ~Abort(c)
      BY <3>1 DEF WriteRow, ReadRemaining, Abort
    <3> QED BY <1>1, <3>2, <3>3, <3>4 DEF Next, Resume
  <2>2. c.op = "reorder" /\ answer'.items = c.items
    BY <2>1 DEF Commit
  <2>3. PlanShaped(c) /\ c.items \in Seq(Id) /\ c.plan = Renumber(c.items) /\ UniqueIds
    BY <1>1, <2>2, CallFields DEF CallsInv, CallsShaped, PlanShaped
  <2>4. /\ DOMAIN c.plan = DOMAIN c.items /\ DOMAIN c.items \subseteq Nat
        /\ \A n \in DOMAIN c.items : /\ c.plan[n].what = "update" /\ c.plan[n].id = c.items[n]
                                     /\ c.plan[n].key = n
    BY <2>3 DEF Renumber, IndexToOrderKey
  <2>5. \A m \in DOMAIN c.items : \A j \in rows' : j.id = c.items[m] => j.key = m
    <3> SUFFICES ASSUME NEW m \in DOMAIN c.items, NEW j \in rows', j.id = c.items[m]
                 PROVE  j.key = m
      OBVIOUS
    <3>1. ~Inserted(c, j)
      BY <2>4 DEF Inserted
    <3>2. PICK k \in rows : Left(c, k, j)
      BY <1>1, <2>1, <3>1, CommitsAs
    <3>3. Writes(c, "update", k.id)
      BY <3>2, <2>4 DEF Left, Writes
    <3>4. PICK n \in DOMAIN c.plan : c.plan[n].id = k.id /\ j.key = c.plan[n].key
      BY <3>2, <3>3 DEF Left
    <3>5. c.plan[n].id = c.plan[m].id /\ n \in DOMAIN c.plan /\ m \in DOMAIN c.plan
      BY <3>2, <3>4, <2>4 DEF Left
    <3>6. n = m
      BY <3>5, <2>3 DEF PlanShaped
    <3> QED BY <3>4, <3>6, <2>4
  <2> QED BY <2>2, <2>4, <2>5
<1>2. CallsInv /\ [Next]_vars => [A]_vars
  <2> SUFFICES ASSUME CallsInv, [Next]_vars PROVE [A]_vars
    OBVIOUS
  <2> HIDE DEF A
  <2> QED BY <1>1
<1>3. ReorderTakesEffect <=> [][A]_vars
  BY DEF ReorderTakesEffect
<1> QED BY <1>2, <1>3, CallsInductive, PTL DEF Spec

-----------------------------------------------------------------------------
(***************************************************************************)
(* Order keys as long as nothing has collided                              *)
(***************************************************************************)
\* The keys of a plan are 1, 2, ... of rows that are there, so no key of it
\* exceeds the greatest one in use.
LEMMA PlanBelow ==
  ASSUME TypeOK, UniqueIds, KeysApart, NEW d \in Call, PlanShaped(d),
         d.op \in {"add", "delete", "reorder", "restore"}, Fits(d),
         NEW m \in Nat, \A k \in rows : k.key <= m,
         NEW n \in DOMAIN d.plan, d.plan[n].what = "update"
  PROVE  d.plan[n].key <= m
<1>1. /\ d.items \in Seq(Id) /\ DOMAIN d.plan = 1 .. Len(d.plan) /\ Len(d.plan) \in Nat
      /\ n \in Nat /\ n > 0
  BY CallTyped
<1>2. PICK off \in Nat :
        /\ d.plan[n].key = n - off /\ n > off
        /\ \A p \in 1 .. n : p > off => d.plan[p].what = "update"
  <2>1. d.op \in {"delete", "reorder"}
    BY WritesOfKind
  <2>2. \A p \in 1 .. n : p \in DOMAIN d.plan /\ p \in Nat
    BY <1>1
  <2>3. CASE d.op = "reorder"
    <3>1. d.plan = Renumber(d.items)
      BY <2>3 DEF PlanShaped
    <3>2. d.plan[n].key = n
      BY <3>1, <1>1 DEF Renumber, IndexToOrderKey
    <3>3. \A p \in 1 .. n : d.plan[p].what = "update"
      BY <2>2, <2>3, WritesOfKind
    <3> QED BY <3>2, <3>3, <1>1
  <2>4. CASE d.op = "delete"
    <3>1. kind = "child"
      BY <2>4, WritesOfKind, KindsAssumption DEF TypeOK
    <3>2. \A p \in DOMAIN d.plan : d.plan[p].what = IF p = 1 THEN "delete" ELSE "update"
      BY <2>4, <3>1, WritesOfKind
    <3>3. n > 1
      BY <3>2, <1>1
    <3>4. d.plan[n].key = n - 1
      BY <2>4, <3>3 DEF PlanShaped
    <3> QED BY <2>2, <3>2, <3>3, <3>4, <1>1
  <2> QED BY <2>1, <2>3, <2>4
<1> DEFINE q == n - off
           S == 1 .. q
           T == 1 .. m
           R(p) == RowOf(d.plan[p + off].id)
           f == [p \in S |-> R(p).key]
<1>3. \A p \in S : R(p) \in Live /\ R(p).id = d.plan[p + off].id
  <2> SUFFICES ASSUME NEW p \in S PROVE R(p) \in Live /\ R(p).id = d.plan[p + off].id
    OBVIOUS
  <2>1. p + off \in 1 .. n /\ p + off > off /\ p + off \in DOMAIN d.plan
    BY <1>1, <1>2
  <2>2. d.plan[p + off].id \in Ids(Live)
    BY <1>2, <2>1 DEF Fits
  <2>3. PICK k \in Live : k.id = d.plan[p + off].id
    BY <2>2 DEF Ids
  <2>4. k \in rows /\ \A l \in rows : l.id = d.plan[p + off].id => l = k
    BY <2>3 DEF Live, UniqueIds
  <2>5. RowOf(d.plan[p + off].id) = k
    BY <2>3, <2>4 DEF RowOf
  <2> QED BY <2>3, <2>5
<1>4. \A p \in S : R(p) \in rows /\ ~R(p).skipped /\ f[p] = R(p).key /\ f[p] \in T
  <2> SUFFICES ASSUME NEW p \in S PROVE R(p) \in rows /\ ~R(p).skipped /\ R(p).key \in T
    OBVIOUS
  <2> HIDE DEF S, R
  <2>1. R(p) \in rows /\ ~R(p).skipped
    BY <1>3 DEF Live, KeysApart
  <2>2. R(p).key \in 1 .. MaxKey /\ R(p).key <= m
    BY <2>1, RowFields
  <2> QED BY <2>1, <2>2, MaxKeyAssumption
<1>5. \A a, b \in S : f[a] = f[b] => a = b
  <2> SUFFICES ASSUME NEW a \in S, NEW b \in S, f[a] = f[b] PROVE a = b
    OBVIOUS
  <2>1. R(a) = R(b)
    <3> HIDE DEF S, R, f
    <3> QED BY <1>4 DEF KeysApart
  <2>2. d.plan[a + off].id = d.plan[b + off].id
    <3> HIDE DEF S, R, f
    <3> QED BY <1>3, <2>1
  <2>3. a + off \in DOMAIN d.plan /\ b + off \in DOMAIN d.plan
    BY <1>1, <1>2
  <2>4. a + off = b + off
    BY <2>2, <2>3 DEF PlanShaped
  <2> QED BY <2>4
<1>6. f \in Injection(S, T)
  <2>1. f \in [S -> T]
    <3>1. \A p \in S : R(p).key \in T
      BY <1>4
    <3> HIDE DEF S, T, R
    <3> QED BY <3>1
  <2> HIDE DEF f, S, T
  <2> QED BY <1>5, <2>1 DEF Injection, IsInjective
<1>7. IsFiniteSet(T) /\ Cardinality(T) = m /\ Cardinality(S) = q
  <2>1. IsFiniteSet(1 .. m) /\ Cardinality(1 .. m) = m
    BY FS_Interval
  <2>2. q \in Nat /\ q > 0
    BY <1>1, <1>2
  <2>3. Cardinality(1 .. q) = q
    <3> HIDE DEF q
    <3> QED BY <2>2, FS_Interval
  <2> QED BY <2>1, <2>3
<1>8. Cardinality(S) <= Cardinality(T)
  <2> HIDE DEF f, S, T
  <2> QED BY <1>6, <1>7, FS_Injection
<1> QED BY <1>2, <1>7, <1>8

LEMMA CollideSymmetric ==
  ASSUME NEW c, NEW d
  PROVE  Collide(c.op, c.items, d) <=> Collide(d.op, d.items, c)
<1>1. {c.op, d.op} = {d.op, c.op}
  OBVIOUS
<1>2. (ToSet(c.items) # ToSet(d.items)) <=> (ToSet(d.items) # ToSet(c.items))
  OBVIOUS
<1> QED BY ONLY <1>1, <1>2 DEF Collide

\* Which requests run beside which.
LEMMA Neighbours ==
  ASSUME NoCollisions, NEW c \in calls, NEW d \in calls, c # d
  PROVE  /\ c.op # "sync" /\ d.op # "sync"
         /\ ~(c.op = "add" /\ d.op = "add")
         /\ ~(c.op = "reorder" /\ d.op \in {"delete", "restore"})
         /\ ~(d.op = "reorder" /\ c.op \in {"delete", "restore"})
         /\ c.op = "reorder" /\ d.op = "reorder" => ToSet(c.items) = ToSet(d.items)
<1>1. ~Collide(c.op, c.items, d)
  BY DEF NoCollisions
<1> QED BY <1>1 DEF Collide

\* Requests leave and nothing else changes.
LEMMA LeavesUnharmed ==
  ASSUME Unharmed, calls' \subseteq calls, UNCHANGED <<kind, rows>>
  PROVE  Unharmed'
<1>1. UpdatesFit'
  BY DEF Unharmed, UpdatesFit, Doomed, Fits, Has, Ids, Live, PlanIds
<1>2. AddsAbove'
  BY DEF Unharmed, AddsAbove, Doomed, Has
<1>3. NoCollisions'
  BY DEF Unharmed, NoCollisions, Collide
<1>4. DeletesWait'
  BY DEF Unharmed, DeletesWait, PlanIds
<1>5. SyncsKnowAll'
  BY DEF Unharmed, SyncsKnowAll, PlanIds, Ids
<1>6. KeysApart'
  BY DEF Unharmed, KeysApart, Live
<1>7. DeletesInOrder'
  BY DEF Unharmed, DeletesInOrder, InOrder, Doomed, Has, Live
<1> QED BY <1>1, <1>2, <1>3, <1>4, <1>5, <1>6, <1>7 DEF Unharmed

\* A request joins the others or takes the place of one of them.
LEMMA JoinsUnharmed ==
  ASSUME CallsInv, Unharmed, NEW e \in Call, PlanShaped(e), UNCHANGED <<kind, rows>>,
         e \in calls', \A c \in calls' : c = e \/ c \in calls,
         \A c \in calls' : c # e => ~Collide(e.op, e.items, c),
         Doomed(e) \/ Fits(e),
         e.op = "add" => /\ \A k \in rows : k.key < e.plan[1].key
                         /\ \A n \in DOMAIN e.plan : e.plan[n].what # "update",
         e.op = "sync" => Ids(rows) \subseteq PlanIds(e),
         e.op = "delete" => Doomed(e) \/ InOrder(e),
         kind = "child" /\ e.op = "delete" /\ ~e.reading =>
           \A d \in calls' : d # e /\ d.op = "delete" /\ ~d.reading =>
             e.plan[1].id \in PlanIds(d) \/ d.plan[1].id \in PlanIds(e)
  PROVE  Unharmed'
<1>1. UpdatesFit'
  BY DEF Unharmed, UpdatesFit, Doomed, Fits, Has, Ids, Live, PlanIds
<1>2. NoCollisions'
  <2> SUFFICES ASSUME NEW c \in calls', NEW d \in calls', c # d
               PROVE  ~Collide(c.op, c.items, d)
    BY DEF NoCollisions, Collide
  <2>1. CASE c = e
    BY <2>1
  <2>2. CASE d = e
    BY <2>2, CollideSymmetric
  <2>3. CASE c # e /\ d # e
    BY <2>3 DEF Unharmed, NoCollisions
  <2> QED BY <2>1, <2>2, <2>3
<1>3. AddsAbove'
  <2> SUFFICES ASSUME NEW c \in calls', c.op = "add"
               PROVE  /\ \A k \in rows : k.key < c.plan[1].key
                      /\ \A d \in calls' : ~Doomed(d) => \A n \in DOMAIN d.plan :
                           d.plan[n].what = "update" => d.plan[n].key < c.plan[1].key
    BY DEF AddsAbove, Doomed, Has
  <2>1. \A k \in rows : k.key < c.plan[1].key
    BY DEF Unharmed, AddsAbove
  <2>2. ASSUME NEW d \in calls', ~Doomed(d), NEW n \in DOMAIN d.plan, d.plan[n].what = "update"
        PROVE  d.plan[n].key < c.plan[1].key
    <3>1. CASE c \in calls /\ d \in calls
      BY <2>2, <3>1 DEF Unharmed, AddsAbove
    <3>2. CASE c = e \/ d = e
      <4>1. c # d
        BY <2>2, <3>2
      <4>2. ~Collide(c.op, c.items, d)
        BY <3>2, <4>1, CollideSymmetric
      <4>3. d.op \in Op /\ d \in Call /\ PlanShaped(d) /\ TypeOK /\ UniqueIds /\ KeysApart
        BY CallTyped DEF CallsInv, TypeOK, CallsShaped, Unharmed
      <4>4. d.op \in {"add", "delete", "reorder", "restore"}
        BY <4>2, <4>3 DEF Collide, Op
      <4>5. Fits(d)
        BY <2>2 DEF Unharmed, UpdatesFit
      <4>6. c \in Call /\ 1 \in DOMAIN c.plan /\ c.plan[1].key > 0 /\ c.plan[1].key \in Nat
        <5>1. c \in Call /\ PlanShaped(c)
          BY DEF CallsInv, TypeOK, CallsShaped
        <5>2. Len(c.plan) = 1 /\ c.plan[1].key > 0
          BY <5>1 DEF PlanShaped
        <5> QED BY <5>1, <5>2, CallTyped
      <4>7. PICK m \in Nat : c.plan[1].key = m + 1
        BY <4>6
      <4>8. \A k \in rows : k.key <= m
        BY <2>1, <4>3, <4>7, RowFields
      <4>9. d.plan[n].key <= m
        BY <2>2, <4>3, <4>4, <4>5, <4>8, PlanBelow
      <4>10. d.plan[n].key \in Nat
        BY <2>2, <4>3, CallTyped
      <4> QED BY <4>7, <4>9, <4>10
    <3> QED BY <3>1, <3>2
  <2> QED BY <2>1, <2>2
<1>4. DeletesWait'
  BY DEF Unharmed, DeletesWait, PlanIds
<1>5. SyncsKnowAll'
  BY DEF Unharmed, SyncsKnowAll, PlanIds, Ids
<1>6. KeysApart'
  BY DEF Unharmed, KeysApart, Live
<1>7. DeletesInOrder'
  BY DEF Unharmed, DeletesInOrder, InOrder, Doomed, Has, Live
<1> QED BY <1>1, <1>2, <1>3, <1>4, <1>5, <1>6, <1>7 DEF Unharmed

LEMMA ArrivalUnharmed ==
  ASSUME CallsInv, Unharmed, NEW r \in Req, Free(r), NEW e, Arrival(r, e), ~collided'
  PROVE  Unharmed'
<1>1. /\ e \in Call /\ PlanShaped(e) /\ e.done = 0 /\ UNCHANGED <<kind, rows>>
      /\ calls' = calls \cup {e} /\ e.req = r
      /\ \A c \in calls : ~Collide(e.op, e.items, c)
      /\ e.op = "add" => \A k \in rows : k.key < e.plan[1].key
      /\ e.op = "sync" => Ids(rows) \subseteq PlanIds(e)
      /\ e.op = "reorder" => PlanIds(e) = Ids(Live)
      /\ \A n \in DOMAIN e.plan : e.plan[n].what # "insert" => e.plan[n].id \in Ids(rows)
  BY DEF Arrival
<1>2. TypeOK /\ kind \in {"child", "case"} /\ DOMAIN e.plan = 1 .. Len(e.plan) /\ Len(e.plan) \in Nat
  BY <1>1, CallTyped, KindsAssumption DEF CallsInv, TypeOK
<1>3. kind = "child" /\ e.op = "delete" => e.reading
  BY <1>1 DEF PlanShaped
<1>4. \A n \in DOMAIN e.plan : e.plan[n].what = "update" => e.op \in {"reorder", "sync"}
  <2> SUFFICES ASSUME NEW n \in DOMAIN e.plan, e.plan[n].what = "update", e.op = "delete"
               PROVE  FALSE
    BY <1>1, <1>2, WritesOfKind
  <2>1. kind = "child" /\ n # 1
    BY <1>1, <1>2, WritesOfKind
  <2>2. Len(e.plan) = 1
    BY <1>1, <1>3, <2>1 DEF PlanShaped
  <2> QED BY <1>2, <2>1, <2>2
<1>5. Fits(e)
  <2> SUFFICES ASSUME NEW n \in DOMAIN e.plan, e.plan[n].what = "update"
               PROVE  e.plan[n].id \in Ids(Live) /\ Ids(Live) \subseteq PlanIds(e)
    BY DEF Fits, Ids
  <2>1. CASE e.op = "reorder"
    BY <1>1, <2>1 DEF PlanIds
  <2>2. CASE e.op = "sync"
    <3>1. kind = "child"
      BY <1>1, <2>2 DEF PlanShaped
    <3>2. Live = rows
      BY <3>1 DEF Live, CallsInv, ChildrenLive
    <3> QED BY <1>1, <2>2, <3>2
  <2> QED BY <1>4, <2>1, <2>2
<1>6. e.op = "delete" => InOrder(e)
  <2> SUFFICES ASSUME e.op = "delete" PROVE InOrder(e)
    OBVIOUS
  <2>1. Len(e.plan) = 1
    BY <1>1, <1>2, <1>3 DEF PlanShaped
  <2> QED BY <1>2, <2>1 DEF InOrder
<1> QED BY <1>1, <1>3, <1>4, <1>5, <1>6, JoinsUnharmed

LEMMA WriteUnharmed ==
  ASSUME CallsInv, Unharmed, NEW c \in calls, WriteRow(c)
  PROVE  Unharmed'
<1>1. UNCHANGED <<kind, rows>>
  BY WritesAs
<1>2. CASE calls' = calls \ {c}
  BY <1>1, <1>2, LeavesUnharmed
<1>3. CASE calls' # calls \ {c}
  <2>1. PICK e \in Call :
          /\ calls' = (calls \ {c}) \cup {e}
          /\ e.req = c.req /\ e.op = c.op /\ e.items = c.items /\ e.plan = c.plan
          /\ e.reading = c.reading /\ e.done = c.done + 1 /\ e.done \in DOMAIN c.plan
          /\ c.plan[e.done].what # "insert" => Has(c.plan[e.done].id)
    BY <1>3, WritesAs
  <2>2. c.done \in Nat /\ DOMAIN c.plan = 1 .. Len(c.plan) /\ Len(c.plan) \in Nat
    BY CallFields DEF CallsInv
  <2>3. PlanShaped(c)
    BY DEF CallsInv, CallsShaped
  <2>4. PlanShaped(e)
    BY <2>1, <2>2, <2>3 DEF PlanShaped
  <2>5. Doomed(c) => Doomed(e)
    BY <2>1, <2>2 DEF Doomed
  <2>6. Doomed(e) \/ Fits(e)
    <3>1. Doomed(c) \/ Fits(c)
      BY DEF Unharmed, UpdatesFit
    <3>2. Fits(c) => Fits(e)
      BY <2>1 DEF Fits, PlanIds
    <3> QED BY <2>5, <3>1, <3>2
  <2>7. \A d \in calls' : d # e => d \in calls /\ d # c
    BY <2>1
  <2>8. \A d \in calls' : d # e => ~Collide(e.op, e.items, d)
    BY <2>1, <2>7 DEF Unharmed, NoCollisions
  <2>9. e.op = "add" => /\ \A k \in rows : k.key < e.plan[1].key
                        /\ \A n \in DOMAIN e.plan : e.plan[n].what # "update"
    <3>1. e.op = "add" => \A n \in DOMAIN e.plan : e.plan[n].what # "update"
      BY <2>1, <2>4, WritesOfKind DEF CallsInv
    <3> QED BY <2>1, <3>1 DEF Unharmed, AddsAbove
  <2>10. e.op = "sync" => Ids(rows) \subseteq PlanIds(e)
    BY <2>1 DEF Unharmed, SyncsKnowAll, PlanIds
  <2>11. kind = "child" /\ e.op = "delete" /\ ~e.reading =>
           \A d \in calls' : d # e /\ d.op = "delete" /\ ~d.reading =>
             e.plan[1].id \in PlanIds(d) \/ d.plan[1].id \in PlanIds(e)
    <3> SUFFICES ASSUME kind = "child", e.op = "delete", ~e.reading,
                        NEW d \in calls', d # e, d.op = "delete", ~d.reading
                 PROVE  e.plan[1].id \in PlanIds(d) \/ d.plan[1].id \in PlanIds(e)
      OBVIOUS
    <3>1. c.plan[1].id \in PlanIds(d) \/ d.plan[1].id \in PlanIds(c)
      <4>1. d \in calls /\ d # c
        BY <2>7
      <4> QED BY <2>1, <4>1 DEF Unharmed, DeletesWait
    <3> QED BY <2>1, <3>1 DEF PlanIds
  <2>12. e \in calls' /\ \A d \in calls' : d = e \/ d \in calls
    BY <2>1
  <2>13. e.op = "delete" => Doomed(e) \/ InOrder(e)
    BY <2>1, <2>5 DEF Unharmed, DeletesInOrder, InOrder
  <2> QED BY <1>1, <2>4, <2>6, <2>8, <2>9, <2>10, <2>11, <2>12, <2>13, JoinsUnharmed
<1> QED BY <1>2, <1>3

LEMMA ReadUnharmed ==
  ASSUME CallsInv, Unharmed, NEW c \in calls, ReadRemaining(c)
  PROVE  Unharmed'
<1>1. PICK e \in Call :
        /\ calls' = (calls \ {c}) \cup {e}
        /\ e.op = c.op /\ e.items = c.items /\ e.done = 1 /\ ~e.reading
        /\ e.plan[1] = c.plan[1] /\ PlanShaped(e)
        /\ PlanIds(e) = Ids(rows) \cup {c.plan[1].id}
        /\ \A n \in DOMAIN e.plan : \A k, l \in rows :
             n > 1 /\ k.id = e.plan[n].id /\ l.id \notin {e.plan[m].id : m \in 1 .. n}
               => k.key <= l.key
  BY ReadsAs
<1>2. UNCHANGED <<kind, rows>> /\ kind = "child" /\ c.op = "delete"
  BY ReadsAs
<1>3. Live = rows
  BY <1>2 DEF Live, CallsInv, ChildrenLive
<1>4. \A d \in calls : d.op = "delete" /\ ~d.reading => d.plan[1].id \in Ids(rows)
  <2> SUFFICES ASSUME NEW d \in calls, d.op = "delete", ~d.reading
               PROVE  Has(d.plan[1].id)
    BY DEF Has, Ids
  <2>1. PlanShaped(d) /\ d.done \in Nat
    BY CallFields DEF CallsInv, CallsShaped
  <2>2. 1 \in 1 .. d.done /\ d.plan[1].what # "insert"
    BY <1>2, <2>1 DEF PlanShaped
  <2> QED BY <2>2 DEF CallsInv, RowsHeld
<1>5. c.plan[1].id \in Ids(rows)
  <2>1. c.done = 1 /\ c.plan[1].what = "delete"
    BY <1>2 DEF ReadRemaining, CallsInv, CallsShaped, PlanShaped
  <2>2. 1 \in 1 .. c.done /\ c.plan[1].what # "insert"
    BY <2>1
  <2> QED BY <2>2 DEF CallsInv, RowsHeld, Has, Ids
<1>6. Fits(e)
  <2>1. \A n \in DOMAIN e.plan : e.plan[n].id \in Ids(rows)
    BY <1>1, <1>5 DEF PlanIds
  <2>2. \A k \in rows : k.id \in PlanIds(e)
    BY <1>1 DEF Ids
  <2> QED BY <1>3, <2>1, <2>2 DEF Fits
<1>7. \A d \in calls' : d # e => d \in calls /\ d # c
  BY <1>1
<1>8. \A d \in calls' : d # e => ~Collide(e.op, e.items, d)
  BY <1>1, <1>7 DEF Unharmed, NoCollisions
<1>9. \A d \in calls' : d # e /\ d.op = "delete" /\ ~d.reading => d.plan[1].id \in PlanIds(e)
  BY <1>1, <1>4, <1>7
<1>10. e \in calls' /\ \A d \in calls' : d = e \/ d \in calls
  BY <1>1
<1>11. e.op # "add" /\ e.op # "sync"
  BY <1>1, <1>2
<1>12. InOrder(e)
  <2> SUFFICES ASSUME NEW n \in DOMAIN e.plan, NEW k \in Live, NEW l \in Live, n > 1,
                      k.id = e.plan[n].id, l.id \notin {e.plan[m].id : m \in 1 .. n}
               PROVE  k.key < l.key
    BY DEF InOrder
  <2>1. n \in 1 .. n
    BY CallTyped
  <2>2. k # l
    BY <2>1
  <2>3. k \in rows /\ l \in rows /\ ~k.skipped /\ ~l.skipped
    BY DEF Live, Unharmed, KeysApart
  <2>4. k.key # l.key /\ k.key <= l.key
    BY <1>1, <2>2, <2>3 DEF Unharmed, KeysApart
  <2>5. k.key \in 1 .. MaxKey /\ l.key \in 1 .. MaxKey
    BY <2>3, RowFields DEF CallsInv
  <2> QED BY <2>4, <2>5, MaxKeyAssumption
<1> QED BY <1>1, <1>2, <1>6, <1>8, <1>9, <1>10, <1>11, <1>12, JoinsUnharmed

LEMMA RestoreUnharmed ==
  ASSUME CallsInv, Unharmed, NEW c \in calls, Restore(c), ~collided'
  PROVE  Unharmed'
<1>1. kind = "case" /\ c.op = "restore" /\ UNCHANGED kind /\ calls' = calls \ {c}
  BY RestoresAs
<1>2. PICK k \in rows : /\ rows' = (rows \ {k}) \cup {[k EXCEPT !.live = TRUE]}
                        /\ ~k.skipped
  BY RestoresAs
<1>3. PICK j : j = [k EXCEPT !.live = TRUE]
  OBVIOUS
<1>4. rows' = (rows \ {k}) \cup {j}
  BY <1>2, <1>3
<1>5. j.id = k.id /\ j.key = k.key /\ j.live /\ ~j.skipped
  <2>1. k \in Row
    BY DEF CallsInv, TypeOK
  <2> QED BY <2>1, <1>2, <1>3 DEF Row
<1>6. \A d \in calls' : \A n \in DOMAIN d.plan : d.plan[n].what # "update"
  <2> SUFFICES ASSUME NEW d \in calls', NEW n \in DOMAIN d.plan, d.plan[n].what = "update"
               PROVE  FALSE
    OBVIOUS
  <2>1. d \in calls /\ d # c /\ d \in Call /\ PlanShaped(d) /\ TypeOK
    BY <1>1 DEF CallsInv, CallsShaped, TypeOK
  <2>2. d.op = "reorder" \/ d.op = "sync"
    BY <1>1, <2>1, WritesOfKind
  <2> QED BY <1>1, <2>1, <2>2, Neighbours DEF Unharmed
<1>7. UpdatesFit'
  BY <1>6 DEF UpdatesFit, Fits
<1>8. AddsAbove'
  <2>1. \A d \in calls' : d.op = "add" => \A l \in rows' : l.key < d.plan[1].key
    BY <1>1, <1>4, <1>5 DEF Unharmed, AddsAbove
  <2> QED BY <1>6, <2>1 DEF AddsAbove
<1>9. NoCollisions'
  BY <1>1 DEF Unharmed, NoCollisions, Collide
<1>10. DeletesWait'
  BY <1>1 DEF DeletesWait
<1>11. SyncsKnowAll'
  BY <1>1, Neighbours DEF Unharmed, SyncsKnowAll
<1>12. KeysApart'
  <2>1. \A l \in rows' : l.live => ~l.skipped
    BY <1>4, <1>5 DEF Unharmed, KeysApart, Live
  <2>2. \A l, h \in rows' : ~l.skipped /\ ~h.skipped /\ l.key = h.key => l = h
    BY <1>2, <1>4, <1>5 DEF Unharmed, KeysApart
  <2> QED BY <2>1, <2>2 DEF KeysApart, Live
<1>13. DeletesInOrder'
  <2> SUFFICES ASSUME NEW d \in calls', d.op = "delete", NEW n \in DOMAIN d.plan, n > 1
               PROVE  FALSE
    BY DEF DeletesInOrder, InOrder
  <2>1. d \in Call /\ PlanShaped(d)
    BY <1>1 DEF CallsInv, CallsShaped, TypeOK
  <2>2. Len(d.plan) = 1
    BY <1>1, <2>1 DEF PlanShaped
  <2> QED BY <2>1, <2>2, CallTyped
<1> QED BY <1>7, <1>8, <1>9, <1>10, <1>11, <1>12, <1>13 DEF Unharmed

\* A call that has executed its plan keeps the keys apart.
LEMMA CommitKeepsApart ==
  ASSUME CallsInv, Unharmed, NEW c \in calls, Commit(c)
  PROVE  KeysApart'
<1>1. /\ ~c.reading /\ c.done = Len(c.plan)
      /\ \A j \in rows' :
           Inserted(c, j) \/ \E k \in rows : ~Writes(c, "delete", k.id) /\ Left(c, k, j)
  BY CommitsAs
<1>2. /\ c \in Call /\ TypeOK /\ UniqueIds /\ PlanShaped(c) /\ KeysApart
      /\ DOMAIN c.plan = 1 .. Len(c.plan) /\ Len(c.plan) \in Nat
      /\ c.op \in Op /\ c.items \in Seq(Id) /\ kind \in {"child", "case"}
  BY CallFields, KindsAssumption DEF CallsInv, CallsShaped, Unharmed, TypeOK
<1>3. Fits(c)
  <2>1. ~Doomed(c)
    BY <1>1, <1>2 DEF Doomed
  <2> QED BY <2>1 DEF Unharmed, UpdatesFit
<1>4. \A k \in rows : \A n \in DOMAIN c.plan : c.plan[n].what = "insert" => c.plan[n].id # k.id
  BY DEF CallsInv, InsertsFresh, Has
<1>5. c.op = "reorder" => \A i \in ToSet(c.items) : Writes(c, "update", i)
  <2> SUFFICES ASSUME c.op = "reorder", NEW n \in DOMAIN c.items
               PROVE  Writes(c, "update", c.items[n])
    BY DEF ToSet
  <2>1. c.plan = Renumber(c.items)
    BY <1>2 DEF PlanShaped
  <2>2. n \in DOMAIN c.plan /\ c.plan[n].what = "update" /\ c.plan[n].id = c.items[n]
    BY <1>2, <2>1 DEF Renumber
  <2> QED BY <2>2 DEF Writes
<1>6. \A n \in DOMAIN c.plan : c.op = "reorder" => c.plan[n].key = n
  <2> SUFFICES ASSUME NEW n \in DOMAIN c.plan, c.op = "reorder" PROVE c.plan[n].key = n
    OBVIOUS
  <2>1. c.plan = Renumber(c.items)
    BY <1>2 DEF PlanShaped
  <2> QED BY <1>2, <2>1 DEF Renumber, IndexToOrderKey
<1>7. \A k \in rows : \A j : Left(c, k, j) /\ ~j.skipped /\ ~Writes(c, "update", k.id) => ~k.skipped
  BY <1>5 DEF Left
\* Updates have keys of their own.
<1>8. \A m, n \in DOMAIN c.plan :
        /\ c.plan[m].what \in {"update", "insert"} /\ c.plan[n].what \in {"update", "insert"}
        /\ c.plan[m].key = c.plan[n].key
        => m = n
  <2> SUFFICES ASSUME NEW m \in DOMAIN c.plan, NEW n \in DOMAIN c.plan,
                      c.plan[m].what \in {"update", "insert"},
                      c.plan[n].what \in {"update", "insert"}, c.plan[m].key = c.plan[n].key
               PROVE  m = n
    OBVIOUS
  <2>1. m \in Nat /\ n \in Nat /\ m > 0 /\ n > 0
    BY <1>2
  <2>2. CASE c.op = "add"
    BY <1>2, <2>1, <2>2 DEF PlanShaped
  <2>3. CASE c.op = "delete"
    <3>1. kind = "child" /\ m # 1 /\ n # 1
      BY <1>2, <2>3, WritesOfKind
    <3>2. c.plan[m].key = m - 1 /\ c.plan[n].key = n - 1
      BY <1>2, <2>1, <2>3, <3>1 DEF PlanShaped
    <3>3. m - 1 = n - 1
      BY <3>2
    <3> QED BY <2>1, <3>3
  <2>4. CASE c.op = "reorder"
    BY <1>6, <2>4
  <2>5. CASE c.op = "sync"
    <3>1. c.plan[m].what # "delete" /\ c.plan[n].what # "delete"
      OBVIOUS
    <3>2. c.plan[m].id = c.plan[n].id
      BY <1>2, <2>5, <3>1 DEF PlanShaped
    <3> QED BY <1>2, <3>2 DEF PlanShaped
  <2> QED BY <1>2, <2>2, <2>3, <2>4, <2>5, WritesOfKind DEF Op
\* An inserted row and one that was there.
<1>9. ASSUME NEW i \in rows', NEW j \in rows', NEW k \in rows, Inserted(c, i),
             ~Writes(c, "delete", k.id), Left(c, k, j), ~j.skipped
      PROVE  i.key # j.key
  <2>1. PICK n \in DOMAIN c.plan : c.plan[n].what = "insert" /\ i.key = c.plan[n].key
    BY <1>9 DEF Inserted
  <2>2. c.op \in {"add", "sync"}
    BY <1>2, <2>1, WritesOfKind
  <2>3. CASE c.op = "add"
    <3>1. n = 1
      BY <1>2, <2>3 DEF PlanShaped
    <3>2. ~Writes(c, "update", k.id)
      BY <1>2, <2>3, WritesOfKind DEF Writes
    <3>3. j.key = k.key /\ k.key < c.plan[1].key
      BY <1>9, <2>3, <3>2 DEF Left, Writes, Unharmed, AddsAbove
    <3>4. k.key \in Nat /\ c.plan[1].key \in Nat
      BY <1>2, <2>1, <3>1, RowFields, CallFields, MaxKeyAssumption
    <3> QED BY <2>1, <3>1, <3>3, <3>4
  <2>4. CASE c.op = "sync"
    <3>1. k.id \in PlanIds(c)
      BY <2>4 DEF Unharmed, SyncsKnowAll, Ids
    <3>2. PICK m \in DOMAIN c.plan : c.plan[m].id = k.id
      BY <3>1 DEF PlanIds
    <3>3. c.plan[m].what = "update"
      <4>1. c.plan[m].what \in {"delete", "update", "insert"}
        BY <1>2, <2>4 DEF PlanShaped
      <4>2. c.plan[m].what # "delete"
        BY <1>9, <3>2 DEF Writes
      <4> QED BY <1>4, <3>2, <4>1, <4>2
    <3>4. Writes(c, "update", k.id)
      BY <3>2, <3>3 DEF Writes
    <3>5. PICK h \in DOMAIN c.plan : c.plan[h].what = "update" /\ j.key = c.plan[h].key
      BY <1>9, <3>4 DEF Left
    <3> QED BY <2>1, <3>5, <1>8
  <2> QED BY <2>2, <2>3, <2>4
\* A row that was renumbered and one that was not.
<1>10. ASSUME NEW i, NEW j \in rows', NEW k \in rows, NEW l \in rows, Left(c, k, i), Left(c, l, j),
              ~Writes(c, "delete", l.id), ~j.skipped,
              Writes(c, "update", k.id), ~Writes(c, "update", l.id)
       PROVE  i.key # j.key
  <2>1. PICK n \in DOMAIN c.plan : c.plan[n].what = "update" /\ i.key = c.plan[n].key
    BY <1>10 DEF Left
  <2>2. j.key = l.key
    BY <1>10 DEF Left, Writes
  <2>3. c.op \in {"delete", "reorder", "sync"} /\ (kind = "case" => c.op = "reorder")
    <3>1. c.op \in {"delete", "reorder", "sync"}
      BY <1>2, <2>1, WritesOfKind
    <3>2. ~(kind = "case" /\ c.op = "delete")
      BY <1>2, <2>1, WritesOfKind
    <3>3. ~(kind = "case" /\ c.op = "sync")
      BY <1>2 DEF PlanShaped
    <3> QED BY <3>1, <3>2, <3>3
  <2>4. l.id \notin PlanIds(c)
    <3> SUFFICES ASSUME NEW m \in DOMAIN c.plan, c.plan[m].id = l.id PROVE FALSE
      BY DEF PlanIds
    <3>1. c.plan[m].what = "hide"
      <4>1. c.plan[m].what \notin {"update", "delete", "insert"}
        BY <1>4, <1>10 DEF Writes
      <4> QED BY <1>2, <4>1, WritesOfKind
    <3>2. c.op = "delete" /\ kind = "case"
      BY <1>2, <3>1, WritesOfKind
    <3> QED BY <2>3, <3>2
  <2>5. l \in Live
    <3>1. CASE kind = "child"
      BY <3>1 DEF CallsInv, ChildrenLive, Live
    <3>2. CASE kind = "case"
      <4>1. c.op = "reorder"
        BY <2>3, <3>2
      <4>2. l.id \notin ToSet(c.items)
        BY <1>5, <1>10, <4>1
      <4> QED BY <1>10, <4>1, <4>2 DEF Left, Live
    <3> QED BY <1>2, <3>1, <3>2
  <2>6. c.plan[n].key < l.key
    BY <1>3, <2>1, <2>4, <2>5 DEF Fits
  <2>7. c.plan[n].key \in Nat /\ l.key \in Nat
    BY <1>2, <2>1, RowFields, CallFields, MaxKeyAssumption
  <2> QED BY <2>1, <2>2, <2>6, <2>7
<1>11. \A i, j \in rows' : ~i.skipped /\ ~j.skipped /\ i.key = j.key => i.id = j.id
  <2> SUFFICES ASSUME NEW i \in rows', NEW j \in rows', ~i.skipped, ~j.skipped, i.key = j.key
               PROVE  i.id = j.id
    OBVIOUS
  <2>1. CASE Inserted(c, i) /\ Inserted(c, j)
    <3>1. PICK m \in DOMAIN c.plan :
            c.plan[m].what = "insert" /\ i.id = c.plan[m].id /\ i.key = c.plan[m].key
      BY <2>1 DEF Inserted
    <3>2. PICK n \in DOMAIN c.plan :
            c.plan[n].what = "insert" /\ j.id = c.plan[n].id /\ j.key = c.plan[n].key
      BY <2>1 DEF Inserted
    <3> QED BY <3>1, <3>2, <1>8
  <2>2. CASE Inserted(c, i) /\ ~Inserted(c, j)
    BY <2>2, <1>1, <1>9
  <2>3. CASE ~Inserted(c, i) /\ Inserted(c, j)
    BY <2>3, <1>1, <1>9
  <2>4. CASE ~Inserted(c, i) /\ ~Inserted(c, j)
    <3>1. PICK k \in rows : ~Writes(c, "delete", k.id) /\ Left(c, k, i)
      BY <2>4, <1>1
    <3>2. PICK l \in rows : ~Writes(c, "delete", l.id) /\ Left(c, l, j)
      BY <2>4, <1>1
    <3>3. i.id = k.id /\ j.id = l.id
      BY <3>1, <3>2 DEF Left
    <3>4. CASE Writes(c, "update", k.id) /\ Writes(c, "update", l.id)
      <4>1. PICK m \in DOMAIN c.plan :
              c.plan[m].what = "update" /\ k.id = c.plan[m].id /\ i.key = c.plan[m].key
        BY <3>1, <3>4 DEF Left
      <4>2. PICK n \in DOMAIN c.plan :
              c.plan[n].what = "update" /\ l.id = c.plan[n].id /\ j.key = c.plan[n].key
        BY <3>2, <3>4 DEF Left
      <4> QED BY <3>3, <4>1, <4>2, <1>8
    <3>5. CASE Writes(c, "update", k.id) /\ ~Writes(c, "update", l.id)
      BY <3>1, <3>2, <3>5, <1>10
    <3>6. CASE ~Writes(c, "update", k.id) /\ Writes(c, "update", l.id)
      BY <3>1, <3>2, <3>6, <1>10
    <3>7. CASE ~Writes(c, "update", k.id) /\ ~Writes(c, "update", l.id)
      <4>1. i.key = k.key /\ j.key = l.key
        BY <3>1, <3>2, <3>7 DEF Left, Writes
      <4>2. ~k.skipped /\ ~l.skipped
        BY <3>1, <3>2, <3>7, <1>7
      <4> QED BY <3>3, <4>1, <4>2, <1>2 DEF KeysApart
    <3> QED BY <3>4, <3>5, <3>6, <3>7
  <2> QED BY <2>1, <2>2, <2>3, <2>4
<1>12. UniqueIds'
  BY CommitKeepsCalls DEF CallsInv
<1>13. \A j \in rows' : j.live => ~j.skipped
  <2> SUFFICES ASSUME NEW j \in rows', j.live, ~Inserted(c, j) PROVE ~j.skipped
    BY DEF Inserted
  <2>1. PICK k \in rows : Left(c, k, j)
    BY <1>1
  <2>2. k.live
    BY <2>1 DEF Left
  <2>3. ~k.skipped
    BY <1>2, <2>2 DEF KeysApart, Live
  <2> QED BY <2>1, <2>2, <2>3 DEF Left
<1> QED BY <1>11, <1>12, <1>13 DEF KeysApart, UniqueIds, Live

\* What an inserted, a deleted and a renumbered row mean for another request.
LEMMA CommitUnharmed ==
  ASSUME CallsInv, Unharmed, NEW c \in calls, Commit(c)
  PROVE  Unharmed'
<1>1. /\ UNCHANGED kind /\ calls' = calls \ {c} /\ ~c.reading /\ c.done = Len(c.plan)
      /\ \A j \in rows' :
           Inserted(c, j) \/ \E k \in rows : ~Writes(c, "delete", k.id) /\ Left(c, k, j)
  BY CommitsAs
<1>2. /\ c \in Call /\ TypeOK /\ PlanShaped(c) /\ DOMAIN c.plan = 1 .. Len(c.plan)
      /\ Len(c.plan) \in Nat /\ c.op \in Op /\ kind \in {"child", "case"}
  BY CallFields, KindsAssumption DEF CallsInv, CallsShaped, TypeOK
<1>3. ~Doomed(c) /\ c.done \in Nat
  BY <1>1, <1>2 DEF Doomed
<1>4. CallsInv'
  BY CommitKeepsCalls
<1>5. \A d \in calls' : d \in calls /\ d # c /\ d \in Call /\ PlanShaped(d)
  BY <1>1 DEF CallsInv, CallsShaped, TypeOK
<1>6. \A d \in calls' : \A j \in rows' : Inserted(c, j) => j.id \notin PlanIds(d)
  BY <1>5 DEF Inserted, CallsInv, InsertsFresh
<1>7. \A j \in rows' : Inserted(c, j) => j.id \notin Ids(rows)
  BY DEF Inserted, CallsInv, InsertsFresh, Has, Ids
\* A request that was going to fail still is.
<1>8. \A d \in calls' : Doomed(d) => Doomed(d)'
  <2> SUFFICES ASSUME NEW d \in calls', NEW n \in DOMAIN d.plan, d.plan[n].what # "insert",
                      ~Has(d.plan[n].id), NEW j \in rows', j.id = d.plan[n].id
               PROVE  FALSE
    BY DEF Doomed, Has
  <2>1. ~Inserted(c, j)
    BY <1>6 DEF PlanIds
  <2>2. PICK k \in rows : Left(c, k, j)
    BY <1>1, <2>1
  <2> QED BY <2>2 DEF Left, Has
\* A request that is not going to fail finds all its rows.
<1>9. ASSUME NEW d \in calls', ~Doomed(d)', NEW n \in DOMAIN d.plan, d.plan[n].what # "insert"
      PROVE  \E j \in rows' : j.id = d.plan[n].id
  <2>1. n \in Nat /\ n > 0 /\ d.done \in Nat
    BY <1>5, CallTyped
  <2>2. CASE n \in 1 .. d.done
    <3>1. Has(d.plan[n].id)'
      BY <1>4, <1>9, <2>2 DEF CallsInv, RowsHeld
    <3> QED BY <3>1 DEF Has
  <2>3. CASE n > d.done
    BY <1>9, <2>3 DEF Doomed, Has
  <2> QED BY <2>1, <2>2, <2>3
\* Of two deletes that have read the rows, the commit of one dooms the other.
<1>15. ASSUME NEW d \in calls', ~Doomed(d)', kind = "child", c.op = "delete", d.op = "delete",
              ~d.reading
       PROVE  FALSE
  <2>1. d \in calls /\ d # c /\ d \in Call /\ PlanShaped(d) /\ d.done \in Nat
    BY <1>5, CallTyped
  <2>2. 1 \in 1 .. d.done /\ 1 \in 1 .. c.done
    BY <1>1, <1>2, <1>3, <1>15, <2>1 DEF PlanShaped
  <2>3. 1 \in DOMAIN d.plan /\ d.plan[1].what = "delete"
    BY <1>15, <2>1, CallTyped DEF PlanShaped
  <2>4. 1 \in DOMAIN c.plan /\ c.plan[1].what = "delete"
    BY <1>2, <1>15 DEF PlanShaped
  <2>5. c.plan[1].id \in PlanIds(d) \/ d.plan[1].id \in PlanIds(c)
    BY <1>1, <1>15, <2>1 DEF Unharmed, DeletesWait
  <2>6. CASE c.plan[1].id \in PlanIds(d)
    <3>1. PICK q \in DOMAIN d.plan : d.plan[q].id = c.plan[1].id
      BY <2>6 DEF PlanIds
    <3>2. d.plan[q].what # "insert"
      BY <1>2, <1>15, <2>1, WritesOfKind
    <3>3. PICK i \in rows' : i.id = c.plan[1].id
      BY <1>9, <1>15, <3>1, <3>2
    <3>4. Has(c.plan[1].id)
      BY <2>2, <2>4 DEF CallsInv, RowsHeld
    <3>5. ~Inserted(c, i)
      BY <1>7, <3>3, <3>4 DEF Has, Ids
    <3>6. PICK l \in rows : ~Writes(c, "delete", l.id) /\ Left(c, l, i)
      BY <1>1, <3>5
    <3> QED BY <2>4, <3>3, <3>6 DEF Left, Writes
  <2>7. CASE d.plan[1].id \in PlanIds(c)
    <3>1. PICK q \in DOMAIN c.plan : c.plan[q].id = d.plan[1].id
      BY <2>7 DEF PlanIds
    <3>2. c.plan[q].what # "insert"
      BY <1>2, <1>15, WritesOfKind
    <3>3. c.plan[q] \in Done(c)
      BY <1>1, <1>2 DEF Done
    <3>4. ~Blocked(d, d.plan[1].id)
      <4>1. d.plan[1].what # "insert"
        BY <2>3
      <4> QED BY <2>1, <2>2, <4>1 DEF CallsInv, RowsHeld
    <3> QED BY <2>1, <3>1, <3>2, <3>3, <3>4 DEF Blocked
  <2> QED BY <2>5, <2>6, <2>7
<1>10. UpdatesFit'
  <2> SUFFICES ASSUME NEW d \in calls', ~Doomed(d)', NEW n \in DOMAIN d.plan,
                      d.plan[n].what = "update"
               PROVE  /\ \E j \in rows' : j.live /\ j.id = d.plan[n].id
                      /\ \A j \in rows' : j.live /\ j.id \notin PlanIds(d) => d.plan[n].key < j.key
    BY DEF UpdatesFit, Fits, Ids, Live, PlanIds
  <2>1. d \in calls /\ d # c /\ d \in Call /\ PlanShaped(d) /\ d.op \in Op /\ d.done \in Nat
    BY <1>5, CallTyped
  <2>2. ~Doomed(d) /\ Fits(d)
    BY <1>8, <2>1 DEF Unharmed, UpdatesFit
  <2>3. d.op \in {"delete", "reorder"} /\ (kind = "case" => d.op = "reorder")
    <3>1. d.op \in {"delete", "reorder", "sync"}
      BY <1>2, <2>1, WritesOfKind
    <3>2. ~(kind = "case" /\ d.op = "delete")
      BY <1>2, <2>1, WritesOfKind
    <3>3. d.op # "sync"
      BY <2>1, Neighbours DEF Unharmed
    <3> QED BY <3>1, <3>2, <3>3
  <2>4. c.op # "sync"
    BY <2>1, Neighbours DEF Unharmed
  <2>5. \E j \in rows' : j.live /\ j.id = d.plan[n].id
    <3>1. PICK j \in rows' : j.id = d.plan[n].id
      BY <1>9
    <3>2. ~Inserted(c, j)
      BY <1>6, <3>1 DEF PlanIds
    <3>3. PICK k \in rows : Left(c, k, j)
      BY <1>1, <3>2
    <3>4. PICK l \in Live : l.id = d.plan[n].id
      BY <2>2 DEF Fits, Ids
    <3>5. k.live
      BY <3>1, <3>3, <3>4 DEF Left, Live, CallsInv, UniqueIds
    <3>6. ~Writes(c, "hide", k.id)
      <4> SUFFICES ASSUME NEW m \in DOMAIN c.plan, c.plan[m].what = "hide" PROVE FALSE
        BY DEF Writes
      <4>1. c.op = "delete" /\ kind = "case"
        BY <1>2, WritesOfKind
      <4> QED BY <2>1, <2>3, <4>1, Neighbours DEF Unharmed
    <3> QED BY <3>1, <3>3, <3>5, <3>6 DEF Left
  <2>6. ASSUME NEW j \in rows', j.live, j.id \notin PlanIds(d)
        PROVE  d.plan[n].key < j.key
    <3>1. CASE Inserted(c, j)
      <4>1. PICK m \in DOMAIN c.plan : c.plan[m].what = "insert" /\ j.key = c.plan[m].key
        BY <3>1 DEF Inserted
      <4>2. c.op = "add"
        BY <1>2, <2>4, <4>1, WritesOfKind
      <4>3. m = 1
        BY <1>2, <4>2 DEF PlanShaped
      <4>4. d.plan[n].key < c.plan[1].key
        BY <2>1, <2>2, <4>2 DEF Unharmed, AddsAbove
      <4> QED BY <4>1, <4>3, <4>4
    <3>2. CASE ~Inserted(c, j)
      <4>1. PICK k \in rows : ~Writes(c, "delete", k.id) /\ Left(c, k, j)
        BY <1>1, <3>2
      <4>2. k.live /\ k.id \notin PlanIds(d)
        BY <2>6, <4>1 DEF Left
      <4>3. d.plan[n].key < k.key
        BY <2>2, <4>2 DEF Fits, Live
      <4>4. ~Writes(c, "update", k.id)
        <5> SUFFICES ASSUME NEW m \in DOMAIN c.plan, c.plan[m].what = "update", c.plan[m].id = k.id
                     PROVE  FALSE
          BY DEF Writes
        <5>1. c.op \in {"delete", "reorder"} /\ ~(c.op = "delete" /\ kind = "case")
          <6>1. c.op \in {"delete", "reorder", "sync"}
            BY <1>2, WritesOfKind
          <6>2. ~(c.op = "delete" /\ kind = "case")
            BY <1>2, WritesOfKind
          <6> QED BY <2>4, <6>1, <6>2
        <5>2. CASE c.op = "reorder"
          <6>1. d.op = "reorder" /\ ToSet(c.items) = ToSet(d.items)
            BY <2>1, <2>3, <5>2, Neighbours DEF Unharmed
          <6>2. c.items \in Seq(Id) /\ d.items \in Seq(Id)
            BY <1>2, <2>1, CallTyped
          <6>3. c.plan = Renumber(c.items) /\ d.plan = Renumber(d.items)
            BY <1>2, <2>1, <5>2, <6>1 DEF PlanShaped
          <6>4. k.id \in ToSet(c.items)
            BY <6>2, <6>3 DEF Renumber, ToSet
          <6>5. PICK h \in DOMAIN d.items : d.items[h] = k.id
            BY <6>1, <6>4 DEF ToSet
          <6>6. h \in DOMAIN d.plan /\ d.plan[h].id = k.id
            BY <6>2, <6>3, <6>5 DEF Renumber
          <6> QED BY <4>2, <6>6 DEF PlanIds
        <5>3. CASE c.op = "delete"
          <6>1. kind = "child" /\ d.op = "delete"
            BY <1>2, <2>1, <2>3, <5>1, <5>3, Neighbours DEF Unharmed
          <6>2. ~d.reading
            <7>1. n # 1 /\ DOMAIN d.plan = 1 .. Len(d.plan)
              BY <1>2, <2>1, <6>1, WritesOfKind, CallTyped
            <7> QED BY <2>1, <7>1 DEF PlanShaped
          <6> QED BY <5>3, <6>1, <6>2, <1>15
        <5> QED BY <5>1, <5>2, <5>3
      <4> QED BY <4>1, <4>3, <4>4 DEF Left, Writes
    <3> QED BY <3>1, <3>2
  <2> QED BY <2>5, <2>6
<1>11. AddsAbove'
  <2> SUFFICES ASSUME NEW e \in calls', e.op = "add"
               PROVE  /\ \A j \in rows' : j.key < e.plan[1].key
                      /\ \A d \in calls' : ~Doomed(d)' => \A n \in DOMAIN d.plan :
                           d.plan[n].what = "update" => d.plan[n].key < e.plan[1].key
    BY DEF AddsAbove
  <2>1. e \in calls /\ e # c
    BY <1>5
  <2>2. ASSUME NEW j \in rows' PROVE j.key < e.plan[1].key
    <3>1. c.op # "add" /\ c.op # "sync"
      BY <2>1, Neighbours DEF Unharmed
    <3>2. ~Inserted(c, j)
      BY <1>2, <3>1, WritesOfKind DEF Inserted
    <3>3. PICK k \in rows : Left(c, k, j)
      BY <1>1, <3>2
    <3>4. k.key < e.plan[1].key
      BY <2>1 DEF Unharmed, AddsAbove
    <3>5. \A n \in DOMAIN c.plan : c.plan[n].what = "update" => c.plan[n].key < e.plan[1].key
      BY <1>3, <2>1 DEF Unharmed, AddsAbove
    <3> QED BY <3>3, <3>4, <3>5 DEF Left
  <2>3. ASSUME NEW d \in calls', ~Doomed(d)', NEW n \in DOMAIN d.plan, d.plan[n].what = "update"
        PROVE  d.plan[n].key < e.plan[1].key
    <3>1. ~Doomed(d) /\ d \in calls
      BY <1>5, <1>8, <2>3
    <3> QED BY <2>1, <2>3, <3>1 DEF Unharmed, AddsAbove
  <2> QED BY <2>2, <2>3
<1>12. NoCollisions'
  BY <1>5 DEF Unharmed, NoCollisions, Collide
<1>13. DeletesWait'
  BY <1>1, <1>5 DEF Unharmed, DeletesWait, PlanIds
<1>14. SyncsKnowAll'
  <2>1. \A d \in calls' : d.op # "sync"
    BY <1>5, Neighbours DEF Unharmed
  <2> QED BY <2>1 DEF SyncsKnowAll
<1>16. DeletesInOrder'
  <2> SUFFICES ASSUME NEW d \in calls', d.op = "delete", ~Doomed(d)', NEW n \in DOMAIN d.plan,
                      n > 1, NEW i \in rows', NEW j \in rows', i.live, j.live,
                      i.id = d.plan[n].id, j.id \notin {d.plan[m].id : m \in 1 .. n}
               PROVE  i.key < j.key
    BY DEF DeletesInOrder, InOrder, Live
  <2>1. d \in calls /\ d # c /\ d \in Call /\ PlanShaped(d) /\ DOMAIN d.plan = 1 .. Len(d.plan)
    BY <1>5, CallTyped
  <2>2. Len(d.plan) # 1
    BY <2>1
  <2>3. kind = "child" /\ ~d.reading
    BY <1>2, <2>1, <2>2 DEF PlanShaped
  <2>4. c.op = "add"
    <3>1. c.op # "delete"
      BY <1>15, <2>3
    <3>2. c.op # "sync" /\ c.op # "reorder"
      BY <2>1, Neighbours DEF Unharmed
    <3>3. c.op # "restore"
      BY CommitsAs
    <3> QED BY <1>2, <3>1, <3>2, <3>3 DEF Op
  <2>5. DOMAIN c.plan = {1} /\ c.plan[1].what = "insert"
    BY <1>2, <2>4 DEF PlanShaped
  <2>6. ~Inserted(c, i)
    BY <1>6 DEF PlanIds
  <2>7. PICK k \in rows : Left(c, k, i)
    BY <1>1, <2>6
  <2>8. i.key = k.key /\ k.live /\ k.id = i.id
    BY <2>5, <2>7 DEF Left
  <2>9. CASE Inserted(c, j)
    <3>1. j.key = c.plan[1].key
      BY <2>5, <2>9 DEF Inserted
    <3> QED BY <2>4, <2>8, <3>1 DEF Unharmed, AddsAbove
  <2>10. CASE ~Inserted(c, j)
    <3>1. PICK l \in rows : Left(c, l, j)
      BY <1>1, <2>10
    <3>2. j.key = l.key /\ l.live /\ l.id = j.id
      BY <2>5, <3>1 DEF Left
    <3>3. ~Doomed(d)
      BY <1>8
    <3> QED BY <2>1, <2>8, <3>2, <3>3 DEF Unharmed, DeletesInOrder, InOrder, Live
  <2> QED BY <2>9, <2>10
<1> QED BY <1>10, <1>11, <1>12, <1>13, <1>14, <1>16, CommitKeepsApart DEF Unharmed

LEMMA StepUnharmed ==
  ASSUME CallsInv, Unharmed, Next, ~collided'
  PROVE  Unharmed'
<1>1. ASSUME NEW r \in Req, Free(r), Arrive(r)
      PROVE  Unharmed'
  <2>1. PICK e : Arrival(r, e)
    BY <1>1, SomethingArrives
  <2> QED BY <1>1, <2>1, ArrivalUnharmed
<1>2. ASSUME NEW c \in calls, Abort(c)
      PROVE  Unharmed'
  BY <1>2, LeavesUnharmed DEF Abort
<1>3. ASSUME NEW c \in calls, Resume(c)
      PROVE  Unharmed'
  BY <1>2, <1>3, WriteUnharmed, ReadUnharmed, CommitUnharmed, RestoreUnharmed DEF Resume
<1> QED BY <1>1, <1>3 DEF Next

\* What has collided stays so.
LEMMA CollidedStays ==
  ASSUME CallsInv, Next, collided
  PROVE  collided'
<1>1. ASSUME NEW r \in Req, Arrive(r)
      PROVE  collided'
  <2>1. PICK e : Arrival(r, e)
    BY <1>1, SomethingArrives
  <2> QED BY <2>1 DEF Arrival
<1>2. ASSUME NEW c \in calls, Resume(c)
      PROVE  collided'
  BY <1>2 DEF Resume, WriteRow, ReadRemaining, Commit, Restore, Abort
<1> QED BY <1>1, <1>2 DEF Next

\* Unless requests have overlapped as in Collide, or a client has named a key, a
\* request that will not fail fits the rows and the other requests, and the keys are apart.
THEOREM KeysInductive == Spec => []KeysInv
<1>1. Init => KeysInv
  <2> SUFFICES ASSUME Init PROVE Unharmed
    BY CallsBegin DEF KeysInv
  <2>1. UpdatesFit /\ AddsAbove /\ NoCollisions
    BY DEF Init, UpdatesFit, AddsAbove, NoCollisions
  <2>2. DeletesWait /\ DeletesInOrder /\ SyncsKnowAll /\ KeysApart
    BY DEF Init, DeletesWait, DeletesInOrder, InOrder, SyncsKnowAll, KeysApart, Live
  <2> QED BY <2>1, <2>2 DEF Unharmed
<1>2. KeysInv /\ [Next]_vars => KeysInv'
  <2> SUFFICES ASSUME KeysInv, [Next]_vars PROVE KeysInv'
    OBVIOUS
  <2>1. CASE Next
    BY <2>1, StepKeepsCalls, StepUnharmed, CollidedStays DEF KeysInv
  <2>2. CASE UNCHANGED vars
    <3>1. calls' \subseteq calls /\ UNCHANGED <<kind, rows, collided>>
      BY <2>2 DEF vars
    <3>2. Unharmed => Unharmed'
      BY <3>1, LeavesUnharmed
    <3> QED BY <2>2, <3>1, <3>2, CallsStutter DEF KeysInv
  <2> QED BY <2>1, <2>2
<1> QED BY <1>1, <1>2, PTL DEF Spec

\* As long as nothing has collided no two rows that are shown have the same key.
THEOREM KeysStayDistinct == Spec => []KeysDistinctUnlessCollided
<1>1. KeysInv => KeysDistinctUnlessCollided
  <2> SUFFICES ASSUME KeysInv, ~collided, NEW k \in Live, NEW l \in Live, k.key = l.key
               PROVE  k = l
    BY DEF KeysDistinctUnlessCollided, OrderKeysDistinct
  <2>1. KeysApart /\ k \in rows /\ l \in rows
    BY DEF KeysInv, Unharmed, Live
  <2> QED BY <2>1 DEF KeysApart
<1> QED BY <1>1, KeysInductive, PTL

-----------------------------------------------------------------------------
(***************************************************************************)
(* The list                                                                *)
(***************************************************************************)
\* Rows with ids and keys of their own.
Apart(R) == /\ R \subseteq Row /\ IsFiniteSet(R)
            /\ \A k, l \in R : k.id = l.id => k = l
            /\ \A k, l \in R : k.key = l.key => k = l
\* s lists the rows R in the order of their keys.
Lists(s, R) == /\ s \in SetToSeqs(Ids(R))
               /\ \A m, n \in DOMAIN s : \A k, l \in R :
                    m < n /\ k.id = s[m] /\ l.id = s[n] => k.key < l.key
\* What is shown of the rows R.
Shown(R) == LET t == CHOOSE s \in Sorted(R) : TRUE IN [n \in 1 .. Len(t) |-> t[n].id]

\* The helpers of the abstract specification are those of this one.
LEMMA SameHelpers ==
  /\ \A S : List!SetToSeqs(S) = SetToSeqs(S)
  /\ \A s : List!ToSet(s) = ToSet(s)
<1>1. \A S : List!SetToSeqs(S) = SetToSeqs(S)
  <2> SUFFICES ASSUME NEW S PROVE List!SetToSeqs(S) = SetToSeqs(S)
    OBVIOUS
  <2>0. List!Cardinality(S) = Cardinality(S)
    BY DEF List!Cardinality, Cardinality
  <2>1. \A f : f \in List!SetToSeqs(S) <=> f \in SetToSeqs(S)
    BY <2>0 DEF List!SetToSeqs, SetToSeqs
  <2>2. List!SetToSeqs(S) \subseteq SetToSeqs(S) /\ SetToSeqs(S) \subseteq List!SetToSeqs(S)
    BY <2>1
  <2> QED BY <2>2
<1>2. \A s : List!ToSet(s) = ToSet(s)
  BY DEF List!ToSet, ToSet
<1> QED BY <1>1, <1>2

LEMMA Permutation ==
  ASSUME NEW S, NEW s \in Seq(S), ToSet(s) = S,
         \A m, n \in 1 .. Len(s) : s[m] = s[n] => m = n
  PROVE  s \in SetToSeqs(S) /\ IsFiniteSet(S)
<1> DEFINE D == 1 .. Len(s)
<1>1. Len(s) \in Nat /\ s \in [D -> S] /\ DOMAIN s = D
  OBVIOUS
<1>2. s \in Bijection(D, S)
  <2>1. s \in Injection(D, S)
    BY <1>1 DEF Injection, IsInjective
  <2>2. s \in Surjection(D, S)
    BY <1>1 DEF Surjection, ToSet
  <2> QED BY <2>1, <2>2 DEF Bijection
<1>3. Cardinality(S) = Len(s) /\ IsFiniteSet(S)
  BY <1>1, <1>2, FS_CountingElements, FS_NatBijection DEF ExistsBijection
<1> QED BY <1>1, <1>3 DEF SetToSeqs

LEMMA KeysOfRows ==
  ASSUME NEW k \in Row
  PROVE  k.id \in Id /\ k.key \in Nat /\ k.key > 0
BY MaxKeyAssumption DEF Row

\* Rows can be sorted: a row comes at the number of rows up to it.
LEMMA SortedExists ==
  ASSUME NEW R, Apart(R)
  PROVE  \E t : t \in Sorted(R)
<1> DEFINE Upto(k) == {l \in R : l.key <= k.key}
           N == Cardinality(R)
           D == 1 .. N
           f == [k \in R |-> Cardinality(Upto(k))]
           t == [n \in D |-> CHOOSE k \in R : f[k] = n]
<1>1. N \in Nat /\ \A k \in R : k.key \in Nat
  BY FS_CardinalityType, KeysOfRows DEF Apart
<1>2. \A k \in R : /\ IsFiniteSet(Upto(k)) /\ Cardinality(Upto(k)) \in D
  <2> SUFFICES ASSUME NEW k \in R PROVE IsFiniteSet(Upto(k)) /\ Cardinality(Upto(k)) \in D
    OBVIOUS
  <2>1. IsFiniteSet(Upto(k)) /\ Cardinality(Upto(k)) <= N
    BY FS_Subset DEF Apart
  <2>2. k \in Upto(k)
    BY <1>1
  <2>3. Cardinality(Upto(k)) \in Nat /\ Cardinality(Upto(k)) # 0
    <3> HIDE DEF Upto
    <3> QED BY <2>1, <2>2, FS_CardinalityType, FS_EmptySet
  <2> HIDE DEF Upto
  <2> QED BY <1>1, <2>1, <2>3
<1>3. \A k, l \in R : k.key < l.key => f[k] < f[l]
  <2> SUFFICES ASSUME NEW k \in R, NEW l \in R, k.key < l.key
               PROVE  Cardinality(Upto(k)) < Cardinality(Upto(l))
    OBVIOUS
  <2>1. Upto(k) \subseteq Upto(l) /\ l \notin Upto(k) /\ l \in Upto(l)
    BY <1>1
  <2>2. IsFiniteSet(Upto(l)) /\ Upto(k) # Upto(l)
    BY <1>2, <2>1
  <2>3. Cardinality(Upto(k)) \in Nat /\ Cardinality(Upto(l)) \in Nat
    <3>1. Cardinality(Upto(k)) \in D /\ Cardinality(Upto(l)) \in D
      BY <1>2
    <3> HIDE DEF Upto
    <3> QED BY <1>1, <3>1
  <2> HIDE DEF Upto
  <2> QED BY <2>1, <2>2, <2>3, FS_Subset
<1>4. f \in [R -> D]
  <2>1. \A k \in R : Cardinality(Upto(k)) \in D
    BY <1>2
  <2> HIDE DEF Upto, D
  <2> QED BY <2>1
<1>5. \A k, l \in R : f[k] = f[l] => k = l
  <2> SUFFICES ASSUME NEW k \in R, NEW l \in R, f[k] = f[l] PROVE k = l
    OBVIOUS
  <2>1. f[k] \in Nat /\ f[l] \in Nat
    BY <1>1, <1>4
  <2>2. k.key \in Nat /\ l.key \in Nat
    BY <1>1
  <2>3. ~(k.key < l.key) /\ ~(l.key < k.key)
    <3> HIDE DEF f
    <3> QED BY <1>3, <2>1
  <2>4. k.key = l.key
    BY <2>2, <2>3
  <2> QED BY <2>4 DEF Apart
<1>6. \A n \in D : \E k \in R : f[k] = n
  <2>1. f \in Injection(R, D)
    <3> HIDE DEF f, D
    <3> QED BY <1>4, <1>5 DEF Injection, IsInjective
  <2>2. IsFiniteSet(D) /\ Cardinality(D) = N
    BY <1>1, FS_Interval
  <2>3. f \in Surjection(R, D)
    <3> HIDE DEF f, D
    <3> QED BY <2>1, <2>2, FS_Injection
  <2> HIDE DEF f, D
  <2> QED BY <2>3 DEF Surjection
<1>7. \A n \in D : t[n] \in R /\ f[t[n]] = n
  <2> HIDE DEF f, D
  <2> QED BY <1>6
<1>8. t \in [D -> R] /\ \A m, n \in D : m # n => t[m] # t[n]
  <2>1. \A n \in D : (CHOOSE k \in R : f[k] = n) \in R
    <3> HIDE DEF f, D
    <3> QED BY <1>6
  <2>2. t \in [D -> R]
    <3> HIDE DEF f, D
    <3> QED BY <2>1
  <2> HIDE DEF f, D, t
  <2> QED BY <1>7, <2>2
<1>9. t \in SetToSeqs(R)
  <2> HIDE DEF t, f
  <2> QED BY <1>8 DEF SetToSeqs
<1>10. Len(t) = N
  <2>1. t \in Seq(R)
    <3> HIDE DEF t, f
    <3> QED BY <1>1, <1>8
  <2> HIDE DEF t, f
  <2> QED BY <1>1, <1>8, <2>1
<1>11. \A m, n \in 1 .. Len(t) : m < n => t[m].key <= t[n].key
  <2> SUFFICES ASSUME NEW m \in D, NEW n \in D, m < n PROVE t[m].key <= t[n].key
    BY <1>10
  <2>1. t[m] \in R /\ t[n] \in R /\ f[t[m]] = m /\ f[t[n]] = n
    BY <1>7
  <2>2. t[m].key \in Nat /\ t[n].key \in Nat
    BY <1>1, <2>1
  <2>3. ~(t[n].key < t[m].key)
    <3> HIDE DEF t, f
    <3> QED BY <1>3, <2>1
  <2> HIDE DEF t
  <2> QED BY <2>2, <2>3
<1> HIDE DEF t
<1> QED BY <1>9, <1>11 DEF Sorted

LEMMA ShownLists ==
  ASSUME NEW R, Apart(R)
  PROVE  Lists(Shown(R), R)
<1>1. PICK t : t = CHOOSE s \in Sorted(R) : TRUE
  OBVIOUS
<1>2. t \in Sorted(R)
  BY <1>1, SortedExists
<1>3. t \in SetToSeqs(R) /\ \A m, n \in 1 .. Len(t) : m < n => t[m].key <= t[n].key
  BY <1>2 DEF Sorted
<1>4. /\ t \in Seq(R) /\ ToSet(t) = R /\ Len(t) \in Nat /\ DOMAIN t = 1 .. Len(t)
      /\ \A m, n \in 1 .. Len(t) : t[m] = t[n] => m = n
  BY <1>3, OrdersOfSet DEF Apart
<1>5. \A n \in 1 .. Len(t) : t[n] \in R /\ t[n].key \in Nat
  BY <1>4, KeysOfRows DEF Apart
<1>6. PICK s : s = [n \in 1 .. Len(t) |-> t[n].id]
  OBVIOUS
<1>7. Shown(R) = s
  BY <1>1, <1>6 DEF Shown
<1>8. s \in Seq(Ids(R)) /\ Len(s) = Len(t) /\ DOMAIN s = 1 .. Len(t)
      /\ \A n \in 1 .. Len(t) : s[n] = t[n].id
  BY <1>4, <1>5, <1>6 DEF Ids
<1>9. \A m, n \in 1 .. Len(s) : s[m] = s[n] => m = n
  BY <1>4, <1>5, <1>8 DEF Apart
<1>10. ToSet(s) = Ids(R)
  <2>1. \A k \in R : \E n \in DOMAIN t : t[n] = k
    BY <1>4 DEF ToSet
  <2> QED BY <1>4, <1>5, <1>8, <2>1 DEF ToSet, Ids
<1>11. s \in SetToSeqs(Ids(R))
  BY <1>8, <1>9, <1>10, Permutation
<1>12. ASSUME NEW m \in DOMAIN s, NEW n \in DOMAIN s, NEW k \in R, NEW l \in R,
              m < n, k.id = s[m], l.id = s[n]
       PROVE  k.key < l.key
  <2>1. k = t[m] /\ l = t[n]
    BY <1>5, <1>8, <1>12 DEF Apart
  <2>2. m # n /\ m \in 1 .. Len(t) /\ n \in 1 .. Len(t)
    BY <1>8, <1>12
  <2>3. t[m] # t[n]
    BY <1>4, <2>2
  <2>4. t[m].key # t[n].key
    BY <1>5, <2>2, <2>3 DEF Apart
  <2>5. t[m].key <= t[n].key
    BY <1>3, <1>12, <2>2
  <2> QED BY <1>5, <2>1, <2>2, <2>4, <2>5
<1> QED BY <1>7, <1>11, <1>12 DEF Lists

\* There is one such list: take the first place where two differ.
LEMMA ListUnique ==
  ASSUME NEW R, Apart(R), NEW s, NEW t, Lists(s, R), Lists(t, R)
  PROVE  s = t
<1>1. IsFiniteSet(Ids(R))
  <2>1. Ids(R) \subseteq Id
    BY KeysOfRows DEF Ids, Apart
  <2> QED BY <2>1, IdsFinite
<1>2. /\ s \in Seq(Ids(R)) /\ Len(s) = Cardinality(Ids(R)) /\ ToSet(s) = Ids(R)
      /\ t \in Seq(Ids(R)) /\ Len(t) = Cardinality(Ids(R)) /\ ToSet(t) = Ids(R)
      /\ \A m, n \in 1 .. Len(s) : s[m] = s[n] => m = n
      /\ \A m, n \in 1 .. Len(t) : t[m] = t[n] => m = n
  BY <1>1, OrdersOfSet DEF Lists
<1>3. \A k \in R : k.key \in Nat
  BY KeysOfRows DEF Apart
<1> DEFINE D == {n \in 1 .. Len(s) : s[n] # t[n]}
<1>4. SUFFICES ASSUME D # {} PROVE FALSE
  <2>1. Len(s) = Len(t) /\ \A n \in 1 .. Len(s) : s[n] = t[n]
    BY <1>2, <1>4
  <2> QED BY <1>2, <2>1
<1>5. PICK n \in D : \A m \in D : n <= m
  <2>1. D \subseteq Nat
    OBVIOUS
  <2> HIDE DEF D
  <2> QED BY <1>4, <2>1, LeastNumber
<1>6. /\ n \in 1 .. Len(s) /\ n \in 1 .. Len(t) /\ s[n] # t[n]
      /\ \A m \in 1 .. Len(s) : m < n => s[m] = t[m]
  BY <1>2, <1>5
<1>7. DOMAIN s = 1 .. Len(s) /\ DOMAIN t = 1 .. Len(t) /\ Len(s) = Len(t)
  BY <1>2
<1>8. PICK k \in R, l \in R : k.id = s[n] /\ l.id = t[n]
  BY <1>2, <1>6 DEF Ids
<1>9. PICK m \in 1 .. Len(t) : t[m] = s[n]
  BY <1>2, <1>6, <1>7 DEF ToSet
<1>10. n < m
  BY <1>2, <1>6, <1>7, <1>9
<1>11. l.key < k.key
  BY <1>6, <1>7, <1>8, <1>9, <1>10 DEF Lists
<1>12. PICK p \in 1 .. Len(s) : s[p] = t[n]
  <2>1. t[n] \in ToSet(s)
    BY <1>2, <1>6
  <2> QED BY <1>7, <2>1 DEF ToSet
<1>13. n < p
  BY <1>2, <1>6, <1>7, <1>12
<1>14. k.key < l.key
  BY <1>6, <1>7, <1>8, <1>12, <1>13 DEF Lists
<1> QED BY <1>3, <1>11, <1>14

LEMMA ShownIs ==
  ASSUME NEW R, Apart(R), NEW s, Lists(s, R)
  PROVE  Shown(R) = s
BY ShownLists, ListUnique

\* What is in both is in one order, if the rows are.
LEMMA OrderKept ==
  ASSUME NEW R, Apart(R), NEW Q, Apart(Q), NEW s, Lists(s, R), NEW t, Lists(t, Q),
         Ids(Q) \subseteq Ids(R),
         \A k, l \in R : \A i, j \in Q :
           i.id = k.id /\ j.id = l.id /\ i.key < j.key => k.key < l.key
  PROVE  t \in List!InOrderOf(s, Ids(Q))
<1>1. IsFiniteSet(Ids(R)) /\ IsFiniteSet(Ids(Q))
  <2>1. Ids(R) \subseteq Id /\ Ids(Q) \subseteq Id
    BY KeysOfRows DEF Ids, Apart
  <2> QED BY <2>1, IdsFinite
<1>2. /\ s \in Seq(Ids(R)) /\ ToSet(s) = Ids(R) /\ DOMAIN s = 1 .. Len(s)
      /\ t \in Seq(Ids(Q)) /\ ToSet(t) = Ids(Q) /\ DOMAIN t = 1 .. Len(t)
      /\ Len(s) \in Nat /\ Len(t) \in Nat
      /\ \A m, n \in 1 .. Len(t) : t[m] = t[n] => m = n
  BY <1>1, OrdersOfSet DEF Lists
<1>3. ASSUME NEW m \in DOMAIN t, NEW n \in DOMAIN t, m < n
      PROVE  \E p, q \in DOMAIN s : p < q /\ s[p] = t[m] /\ s[q] = t[n]
  <2>1. PICK i \in Q, j \in Q : i.id = t[m] /\ j.id = t[n]
    BY <1>2 DEF Ids
  <2>2. i.key < j.key
    BY <1>3, <2>1 DEF Lists
  <2>3. PICK k \in R, l \in R : k.id = t[m] /\ l.id = t[n]
    BY <2>1 DEF Ids
  <2>4. k.key < l.key
    BY <2>1, <2>2, <2>3
  <2>5. PICK p \in DOMAIN s, q \in DOMAIN s : s[p] = t[m] /\ s[q] = t[n]
    <3>1. t[m] \in ToSet(s) /\ t[n] \in ToSet(s)
      BY <1>2, <2>3 DEF Ids
    <3> QED BY <3>1 DEF ToSet
  <2>6. k.key \in Nat /\ l.key \in Nat
    BY KeysOfRows DEF Apart
  <2>7. ~(q < p)
    BY <2>3, <2>4, <2>5, <2>6 DEF Lists
  <2>8. p # q
    BY <1>2, <1>3, <2>5
  <2> QED BY <1>2, <2>5, <2>7, <2>8
<1>4. t \in SetToSeqs(Ids(Q))
  BY DEF Lists
<1> QED BY <1>3, <1>4, SameHelpers DEF List!InOrderOf

\* What a list says of its rows.
LEMMA Listed ==
  ASSUME NEW R, Apart(R), NEW s, Lists(s, R)
  PROVE  /\ s \in Seq(Ids(R)) /\ ToSet(s) = Ids(R) /\ DOMAIN s = 1 .. Len(s) /\ Len(s) \in Nat
         /\ \A m, n \in 1 .. Len(s) : s[m] = s[n] => m = n
<1>1. IsFiniteSet(Ids(R))
  <2>1. Ids(R) \subseteq Id
    BY KeysOfRows DEF Ids, Apart
  <2> QED BY <2>1, IdsFinite
<1> QED BY <1>1, OrdersOfSet DEF Lists

LEMMA PartApart ==
  ASSUME NEW R, Apart(R), NEW Q, Q \subseteq R
  PROVE  Apart(Q)
BY FS_Subset DEF Apart

\* A new row with the greatest key comes last.
LEMMA Appended ==
  ASSUME NEW R, Apart(R), NEW Q, Apart(Q), NEW s, Lists(s, R), NEW x, x \notin Ids(R),
         NEW key, \A k \in R : k.key < key,
         \E j \in Q : j.id = x,
         \A k \in R : \E j \in Q : j.id = k.id,
         \A j \in Q : \/ j.id = x /\ j.key = key
                      \/ \E k \in R : j.id = k.id /\ j.key = k.key
  PROVE  Lists(Append(s, x), Q)
<1>1. /\ s \in Seq(Ids(R)) /\ ToSet(s) = Ids(R) /\ DOMAIN s = 1 .. Len(s) /\ Len(s) \in Nat
      /\ \A m, n \in 1 .. Len(s) : s[m] = s[n] => m = n
  BY Listed
<1>2. PICK t : t = Append(s, x)
  OBVIOUS
<1>3. Ids(Q) = Ids(R) \cup {x}
  BY DEF Ids
<1>4. /\ t \in Seq(Ids(Q)) /\ Len(t) = Len(s) + 1 /\ DOMAIN t = 1 .. Len(s) + 1
      /\ \A n \in 1 .. Len(s) : t[n] = s[n]
      /\ t[Len(s) + 1] = x
  <2>1. s \in Seq(Ids(Q)) /\ x \in Ids(Q)
    BY <1>1, <1>3
  <2> QED BY <1>2, <2>1
<1>5. \A n \in 1 .. Len(s) : t[n] \in Ids(R) /\ t[n] # x
  BY <1>1, <1>4
<1>6. \A n \in 1 .. Len(t) : n \in 1 .. Len(s) \/ n = Len(s) + 1
  BY <1>1, <1>4
<1>7. \A m, n \in 1 .. Len(t) : t[m] = t[n] => m = n
  BY <1>1, <1>4, <1>5, <1>6
<1>8. ToSet(t) = Ids(Q)
  <2>1. \A i \in Ids(R) : \E n \in 1 .. Len(s) : s[n] = i
    BY <1>1 DEF ToSet
  <2>2. \A i \in Ids(R) : \E n \in DOMAIN t : t[n] = i
    BY <1>1, <1>4, <2>1
  <2>3. \E n \in DOMAIN t : t[n] = x
    BY <1>1, <1>4
  <2>4. \A n \in DOMAIN t : t[n] \in Ids(Q)
    BY <1>4
  <2> QED BY <1>3, <2>2, <2>3, <2>4 DEF ToSet
<1>9. t \in SetToSeqs(Ids(Q))
  BY <1>4, <1>7, <1>8, Permutation
<1>10. ASSUME NEW m \in DOMAIN t, NEW n \in DOMAIN t, NEW k \in Q, NEW l \in Q,
              m < n, k.id = t[m], l.id = t[n]
       PROVE  k.key < l.key
  <2>1. m \in 1 .. Len(s) /\ t[m] = s[m]
    BY <1>1, <1>4, <1>6, <1>10
  <2>2. PICK h \in R : k.id = h.id /\ k.key = h.key
    BY <1>5, <1>10, <2>1
  <2>3. CASE n \in 1 .. Len(s)
    <3>1. PICK g \in R : l.id = g.id /\ l.key = g.key
      BY <1>5, <1>10, <2>3
    <3>2. s[n] = g.id /\ s[m] = h.id
      BY <1>4, <1>10, <2>1, <2>2, <2>3, <3>1
    <3> QED BY <1>1, <1>10, <2>1, <2>2, <2>3, <3>1, <3>2 DEF Lists
  <2>4. CASE n = Len(s) + 1
    <3>1. l.id = x
      BY <1>4, <1>10, <2>4
    <3>2. l.key = key
      BY <3>1 DEF Ids
    <3> QED BY <2>2, <3>2
  <2> QED BY <1>4, <1>6, <2>3, <2>4
<1>11. Lists(t, Q)
  BY <1>9, <1>10 DEF Lists
<1> QED BY <1>2, <1>11

\* Rows whose keys are their places in s.
LEMMA Numbered ==
  ASSUME NEW Q, Apart(Q), NEW s \in Seq(Id),
         \A j \in Q : j.key \in DOMAIN s /\ j.id = s[j.key],
         \A n \in DOMAIN s : \E j \in Q : j.key = n
  PROVE  Lists(s, Q)
<1>1. Len(s) \in Nat /\ DOMAIN s = 1 .. Len(s)
  OBVIOUS
<1>2. \A n \in DOMAIN s : \E j \in Q : j.key = n /\ j.id = s[n]
  OBVIOUS
<1>3. ToSet(s) = Ids(Q)
  <2>1. \A n \in DOMAIN s : s[n] \in Ids(Q)
    BY <1>2 DEF Ids
  <2>2. \A i \in Ids(Q) : \E n \in DOMAIN s : s[n] = i
    <3> SUFFICES ASSUME NEW i \in Ids(Q) PROVE \E n \in DOMAIN s : s[n] = i
      OBVIOUS
    <3>1. PICK j \in Q : j.id = i
      BY DEF Ids
    <3>2. j.key \in DOMAIN s /\ s[j.key] = i
      BY <3>1
    <3> QED BY <3>2
  <2> QED BY <2>1, <2>2 DEF ToSet
<1>4. \A n \in 1 .. Len(s) : s[n] \in Ids(Q)
  BY <1>1, <1>2 DEF Ids
<1>5. s \in Seq(Ids(Q))
  BY <1>1, <1>4
<1>6. \A m, n \in 1 .. Len(s) : s[m] = s[n] => m = n
  BY <1>1, <1>2 DEF Apart
<1>7. s \in SetToSeqs(Ids(Q))
  BY <1>3, <1>5, <1>6, Permutation
<1>8. ASSUME NEW m \in DOMAIN s, NEW n \in DOMAIN s, NEW k \in Q, NEW l \in Q,
             m < n, k.id = s[m], l.id = s[n]
      PROVE  k.key < l.key
  <2>1. k.key \in DOMAIN s /\ s[k.key] = s[m] /\ l.key \in DOMAIN s /\ s[l.key] = s[n]
    BY <1>8
  <2>2. k.key = m /\ l.key = n
    BY <1>1, <1>6, <2>1
  <2> QED BY <1>8, <2>2
<1> QED BY <1>7, <1>8 DEF Lists

\* Rows numbered as s, then the others as they were.
LEMMA Reordered ==
  ASSUME NEW R, Apart(R), NEW Q, Apart(Q), NEW u, Lists(u, R), Ids(Q) = Ids(R),
         NEW s \in Seq(Id), \A m, n \in 1 .. Len(s) : s[m] = s[n] => m = n,
         ToSet(s) \subseteq Ids(R),
         \A j \in Q : \A m \in DOMAIN s : j.id = s[m] => j.key = m,
         \A j \in Q : j.id \notin ToSet(s) =>
           /\ \E k \in R : k.id = j.id /\ k.key = j.key
           /\ \A m \in DOMAIN s : m < j.key
  PROVE  \E rest \in List!InOrderOf(u, Ids(R) \ ToSet(s)) : Lists(s \o rest, Q)
<1>1. Len(s) \in Nat /\ DOMAIN s = 1 .. Len(s)
  OBVIOUS
<1>2. PICK O : O = {j \in Q : j.id \notin ToSet(s)}
  OBVIOUS
<1>3. Apart(O)
  BY <1>2, PartApart
<1>4. PICK rest : rest = Shown(O)
  OBVIOUS
<1>5. Lists(rest, O)
  BY <1>3, <1>4, ShownLists
<1>6. /\ rest \in Seq(Ids(O)) /\ ToSet(rest) = Ids(O) /\ DOMAIN rest = 1 .. Len(rest)
      /\ Len(rest) \in Nat
      /\ \A m, n \in 1 .. Len(rest) : rest[m] = rest[n] => m = n
  BY <1>3, <1>5, Listed
<1>7. Ids(O) = Ids(R) \ ToSet(s)
  <2>1. \A j \in Q : j \in O <=> j.id \notin ToSet(s)
    BY <1>2
  <2>2. Ids(O) = Ids(Q) \ ToSet(s)
    BY <1>2, <2>1 DEF Ids
  <2> QED BY <2>2
<1>8. rest \in List!InOrderOf(u, Ids(O))
  <2>1. \A i \in O : \E k \in R : k.id = i.id /\ k.key = i.key
    BY <1>2
  <2>2. ASSUME NEW k \in R, NEW l \in R, NEW i \in O, NEW j \in O, i.id = k.id, j.id = l.id,
               i.key < j.key
        PROVE  k.key < l.key
    <3>1. i.key = k.key /\ j.key = l.key
      BY <2>1, <2>2 DEF Apart
    <3> QED BY <2>2, <3>1
  <2>3. Ids(O) \subseteq Ids(R)
    BY <1>7
  <2> QED BY <1>3, <1>5, <2>2, <2>3, OrderKept
<1>9. PICK t : t = s \o rest
  OBVIOUS
<1>10. /\ \A n \in 1 .. Len(s) : s[n] \in Ids(Q) /\ s[n] \in ToSet(s)
       /\ \A n \in 1 .. Len(rest) : rest[n] \in Ids(Q) /\ rest[n] \notin ToSet(s)
  <2>1. \A n \in 1 .. Len(s) : s[n] \in ToSet(s)
    BY <1>1 DEF ToSet
  <2>2. \A n \in 1 .. Len(rest) : rest[n] \in Ids(O)
    BY <1>6
  <2> QED BY <1>7, <2>1, <2>2
<1>11. s \in Seq(Ids(Q)) /\ rest \in Seq(Ids(Q))
  BY <1>1, <1>6, <1>10
<1>12. /\ t \in Seq(Ids(Q)) /\ Len(t) = Len(s) + Len(rest) /\ DOMAIN t = 1 .. Len(s) + Len(rest)
       /\ \A n \in 1 .. Len(s) : t[n] = s[n]
       /\ \A n \in 1 .. Len(rest) : n + Len(s) \in DOMAIN t /\ t[n + Len(s)] = rest[n]
       /\ \A n \in 1 .. Len(t) : n \in 1 .. Len(s) \/ n - Len(s) \in 1 .. Len(rest)
  <2>1. /\ t \in Seq(Ids(Q)) /\ Len(t) = Len(s) + Len(rest)
        /\ \A n \in 1 .. Len(s) + Len(rest) :
             t[n] = IF n <= Len(s) THEN s[n] ELSE rest[n - Len(s)]
    BY <1>9, <1>11, ConcatProperties
  <2>2. DOMAIN t = 1 .. Len(s) + Len(rest)
    BY <2>1
  <2>3. \A n \in 1 .. Len(s) : n \in 1 .. Len(s) + Len(rest) /\ n <= Len(s)
    BY <1>1, <1>6
  <2>4. \A n \in 1 .. Len(rest) : /\ n + Len(s) \in 1 .. Len(s) + Len(rest)
                                  /\ ~(n + Len(s) <= Len(s)) /\ (n + Len(s)) - Len(s) = n
    BY <1>1, <1>6
  <2>5. \A n \in 1 .. Len(t) : n \in 1 .. Len(s) \/ n - Len(s) \in 1 .. Len(rest)
    BY <1>1, <1>6, <2>1
  <2>6. \A n \in 1 .. Len(rest) : t[n + Len(s)] = rest[n]
    <3> SUFFICES ASSUME NEW n \in 1 .. Len(rest) PROVE t[n + Len(s)] = rest[n]
      OBVIOUS
    <3>1. t[n + Len(s)] = rest[(n + Len(s)) - Len(s)]
      BY <2>1, <2>4
    <3> QED BY <2>4, <3>1
  <2> QED BY <2>1, <2>2, <2>3, <2>4, <2>5, <2>6
<1>13. \A n \in 1 .. Len(t) : \/ n \in 1 .. Len(s) /\ t[n] = s[n]
                              \/ \E m \in 1 .. Len(rest) : n = m + Len(s) /\ t[n] = rest[m]
  <2> SUFFICES ASSUME NEW n \in 1 .. Len(t), n \notin 1 .. Len(s)
               PROVE  \E m \in 1 .. Len(rest) : n = m + Len(s) /\ t[n] = rest[m]
    BY <1>12
  <2>1. n - Len(s) \in 1 .. Len(rest) /\ n = (n - Len(s)) + Len(s)
    BY <1>1, <1>12
  <2> QED BY <1>12, <2>1
<1>14. \A m, n \in 1 .. Len(t) : t[m] = t[n] => m = n
  <2> SUFFICES ASSUME NEW m \in 1 .. Len(t), NEW n \in 1 .. Len(t), t[m] = t[n] PROVE m = n
    OBVIOUS
  <2>1. CASE m \in 1 .. Len(s) /\ n \in 1 .. Len(s)
    BY <2>1, <1>12
  <2>2. CASE m \in 1 .. Len(s) /\ n \notin 1 .. Len(s)
    <3>1. PICK b \in 1 .. Len(rest) : t[n] = rest[b]
      BY <1>13, <2>2
    <3>2. t[m] = s[m] /\ s[m] \in ToSet(s) /\ rest[b] \notin ToSet(s)
      BY <1>10, <1>12, <2>2
    <3> QED BY <3>1, <3>2
  <2>3. CASE m \notin 1 .. Len(s) /\ n \in 1 .. Len(s)
    <3>1. PICK a \in 1 .. Len(rest) : t[m] = rest[a]
      BY <1>13, <2>3
    <3>2. t[n] = s[n] /\ s[n] \in ToSet(s) /\ rest[a] \notin ToSet(s)
      BY <1>10, <1>12, <2>3
    <3> QED BY <3>1, <3>2
  <2>4. CASE m \notin 1 .. Len(s) /\ n \notin 1 .. Len(s)
    <3>1. PICK a \in 1 .. Len(rest), b \in 1 .. Len(rest) :
            m = a + Len(s) /\ t[m] = rest[a] /\ n = b + Len(s) /\ t[n] = rest[b]
      BY <2>4, <1>13
    <3>2. a = b
      BY <1>6, <3>1
    <3> QED BY <3>1, <3>2
  <2> QED BY <2>1, <2>2, <2>3, <2>4
<1>15. ToSet(t) = Ids(Q)
  <2>1. \A i \in ToSet(s) : \E n \in DOMAIN t : t[n] = i
    <3> SUFFICES ASSUME NEW n \in 1 .. Len(s) PROVE \E m \in DOMAIN t : t[m] = s[n]
      BY <1>1 DEF ToSet
    <3>1. n \in DOMAIN t /\ t[n] = s[n]
      BY <1>6, <1>12
    <3> QED BY <3>1
  <2>2. \A i \in Ids(O) : \E n \in DOMAIN t : t[n] = i
    <3> SUFFICES ASSUME NEW n \in 1 .. Len(rest) PROVE \E m \in DOMAIN t : t[m] = rest[n]
      BY <1>6 DEF ToSet
    <3> QED BY <1>12
  <2>3. \A i \in Ids(Q) : \E n \in DOMAIN t : t[n] = i
    BY <1>7, <2>1, <2>2
  <2>4. \A n \in DOMAIN t : t[n] \in Ids(Q)
    BY <1>12
  <2> QED BY <2>3, <2>4 DEF ToSet
<1>16. t \in SetToSeqs(Ids(Q))
  BY <1>12, <1>14, <1>15, Permutation
<1>17. ASSUME NEW m \in DOMAIN t, NEW n \in DOMAIN t, NEW k \in Q, NEW l \in Q,
              m < n, k.id = t[m], l.id = t[n]
       PROVE  k.key < l.key
  <2>1. m \in 1 .. Len(t) /\ n \in 1 .. Len(t)
    BY <1>12
  <2>2. CASE n \in 1 .. Len(s)
    <3>1. m \in 1 .. Len(s)
      BY <1>1, <1>12, <1>17, <2>1, <2>2
    <3>2. k.id = s[m] /\ l.id = s[n]
      BY <1>12, <1>17, <2>2, <3>1
    <3>3. k.key = m /\ l.key = n
      BY <1>1, <2>2, <3>1, <3>2
    <3> QED BY <1>17, <3>3
  <2>3. CASE m \in 1 .. Len(s) /\ n \notin 1 .. Len(s)
    <3>1. k.id = s[m]
      BY <1>12, <1>17, <2>3
    <3>2. k.key = m
      BY <1>1, <2>3, <3>1
    <3>3. PICK b \in 1 .. Len(rest) : t[n] = rest[b]
      BY <1>13, <2>1, <2>3
    <3>4. l.id \notin ToSet(s)
      BY <1>10, <1>17, <3>3
    <3> QED BY <1>1, <2>3, <3>2, <3>4
  <2>4. CASE m \notin 1 .. Len(s) /\ n \notin 1 .. Len(s)
    <3>1. PICK a \in 1 .. Len(rest), b \in 1 .. Len(rest) :
            m = a + Len(s) /\ t[m] = rest[a] /\ n = b + Len(s) /\ t[n] = rest[b]
      BY <1>13, <2>1, <2>4
    <3>2. a < b
      BY <1>1, <1>6, <1>17, <3>1
    <3>3. k \in O /\ l \in O
      BY <1>2, <1>10, <1>17, <3>1
    <3> QED BY <1>5, <1>6, <1>17, <3>1, <3>2, <3>3 DEF Lists
  <2>5. m \in 1 .. Len(s) \/ n \notin 1 .. Len(s)
    BY <1>1, <1>12, <1>17, <2>1
  <2> QED BY <2>2, <2>3, <2>4
<1>18. Lists(t, Q)
  BY <1>16, <1>17 DEF Lists
<1> QED BY <1>7, <1>8, <1>9, <1>18
-----------------------------------------------------------------------------
(***************************************************************************)
(* The rows shown, sorted by their keys, are the list of OrderedList       *)
(***************************************************************************)
LEMMA ApartOf ==
  ASSUME NEW R, R \subseteq Row,
         \A k, l \in R : k.id = l.id => k = l,
         \A k, l \in R : k.key = l.key => k = l
  PROVE  Apart(R)
<1> DEFINE f == [k \in R |-> k.id]
<1>1. f \in Injection(R, Ids(R)) /\ f \in Surjection(R, Ids(R))
  BY DEF Injection, Surjection, IsInjective, Ids
<1>2. Ids(R) \subseteq Id
  BY KeysOfRows DEF Ids
<1>3. IsFiniteSet(R)
  <2> HIDE DEF f
  <2> QED BY <1>1, <1>2, IdsFinite, FS_Injection
<1> QED BY <1>3 DEF Apart

LEMMA Showing ==
  ASSUME CallsInv, Unharmed, NEW p, p = ShownList
  PROVE  Apart(Live) /\ Lists(p, Live) /\ Live \subseteq rows /\ rows \subseteq Row
         /\ \A k, l \in rows : k.id = l.id => k = l
<1>1. Live \subseteq rows /\ rows \subseteq Row /\ \A k, l \in rows : k.id = l.id => k = l
  BY DEF Live, CallsInv, TypeOK, UniqueIds
<1>2. \A k, l \in Live : k.key = l.key => k = l
  BY <1>1 DEF Unharmed, KeysApart
<1>3. PICK L : L = Live
  OBVIOUS
<1>4. Apart(L)
  BY <1>1, <1>2, <1>3, ApartOf
<1>5. p = Shown(L)
  BY <1>3 DEF ShownList, Shown
<1>6. Lists(p, L)
  BY <1>4, <1>5, ShownLists
<1> QED BY <1>1, <1>3, <1>4, <1>6

LEMMA ShowingAfter ==
  ASSUME CallsInv', Unharmed', NEW q, q = ShownList'
  PROVE  Apart(Live') /\ Lists(q, Live') /\ Live' \subseteq rows' /\ rows' \subseteq Row
         /\ \A k, l \in rows' : k.id = l.id => k = l
<1>1. Live' \subseteq rows' /\ rows' \subseteq Row /\ \A k, l \in rows' : k.id = l.id => k = l
  BY DEF Live, CallsInv, TypeOK, UniqueIds
<1>2. \A k, l \in Live' : k.key = l.key => k = l
  BY <1>1 DEF Unharmed, KeysApart
<1>3. PICK L : L = Live'
  OBVIOUS
<1>4. Apart(L)
  BY <1>1, <1>2, <1>3, ApartOf
<1>5. q = Shown(L)
  BY <1>3 DEF ShownList, Shown
<1>6. Lists(q, L)
  BY <1>4, <1>5, ShownLists
<1> QED BY <1>1, <1>3, <1>4, <1>6

LEMMA AddRefines ==
  ASSUME CallsInv, Unharmed, CallsInv', Unharmed', NEW c \in calls, Commit(c), c.op = "add"
  PROVE  \E x \in Id : List!AddItem(x)
<1>1. PICK p : p = ShownList
  OBVIOUS
<1>2. PICK q : q = ShownList'
  OBVIOUS
<1>3. PICK x : x = c.plan[1].id
  OBVIOUS
<1>4. /\ PlanShaped(c) /\ DOMAIN c.plan = {1} /\ c.plan[1].what = "insert" /\ c.items = <<x>>
      /\ x \in Id
  <2>1. PlanShaped(c) /\ DOMAIN c.plan = 1 .. Len(c.plan) /\ \A n \in DOMAIN c.plan : c.plan[n].id \in Id
    BY CallFields DEF CallsInv, CallsShaped
  <2>2. Len(c.plan) = 1 /\ c.plan[1].what = "insert" /\ c.items = <<x>>
    BY <1>3, <2>1 DEF PlanShaped
  <2> QED BY <1>3, <2>1, <2>2
<1>5. \A i : ~Writes(c, "delete", i) /\ ~Writes(c, "hide", i) /\ ~Writes(c, "update", i)
  BY <1>4 DEF Writes
<1>6. /\ answer' = [op |-> c.op, items |-> c.items]
      /\ \A j \in rows' : Inserted(c, j) \/ \E k \in rows : Left(c, k, j)
      /\ \A k \in rows : \E j \in rows' : Left(c, k, j)
      /\ \E j \in rows' : Inserted(c, j)
  BY <1>4, <1>5, CommitsAs
<1>7. \A j : Inserted(c, j) => j.id = x /\ j.key = c.plan[1].key /\ j.live
  BY <1>3, <1>4 DEF Inserted
<1>8. \A k, j : Left(c, k, j) => j.id = k.id /\ j.key = k.key /\ (j.live <=> k.live)
  BY <1>5 DEF Left, Writes
<1>9. Apart(Live) /\ Lists(p, Live) /\ Apart(Live') /\ Lists(q, Live')
  BY <1>1, <1>2, Showing, ShowingAfter
<1>10. x \notin Ids(rows)
  BY <1>3, <1>4 DEF CallsInv, InsertsFresh, Has, Ids
<1>11. x \notin Ids(Live) /\ \A k \in Live : k.key < c.plan[1].key
  BY <1>10 DEF Ids, Live, Unharmed, AddsAbove
<1>12. \E j \in Live' : j.id = x
  BY <1>6, <1>7 DEF Live
<1>13. \A k \in Live : \E j \in Live' : j.id = k.id
  BY <1>6, <1>8 DEF Live
<1>14. \A j \in Live' : \/ j.id = x /\ j.key = c.plan[1].key
                        \/ \E k \in Live : j.id = k.id /\ j.key = k.key
  BY <1>6, <1>7, <1>8 DEF Live
<1>15. Lists(Append(p, x), Live')
  <2>1. PICK L, M, key : L = Live /\ M = Live' /\ key = c.plan[1].key
    OBVIOUS
  <2>2. Lists(Append(p, x), M)
    BY <2>1, <1>9, <1>11, <1>12, <1>13, <1>14, Appended
  <2> QED BY <2>1, <2>2
<1>16. q = Append(p, x)
  <2>1. PICK M : M = Live'
    OBVIOUS
  <2> QED BY <2>1, <1>9, <1>15, ListUnique
<1>17. x \notin List!ToSet(p)
  <2>1. PICK L : L = Live
    OBVIOUS
  <2>2. ToSet(p) = Ids(L)
    BY <2>1, <1>9, Listed
  <2> QED BY <2>1, <2>2, <1>11, SameHelpers
<1>18. answer'.op = "add" /\ answer'.items = <<x>>
  BY <1>4, <1>6
<1>19. List!AddItem(x)
  BY <1>1, <1>2, <1>16, <1>17, <1>18 DEF List!AddItem, List!Answered
<1> QED BY <1>4, <1>19

LEMMA DeleteRefines ==
  ASSUME CallsInv, Unharmed, CallsInv', Unharmed', NEW c \in calls, Commit(c), c.op = "delete"
  PROVE  \E x \in Id : List!DeleteItem(x)
<1>1. PICK p : p = ShownList
  OBVIOUS
<1>2. PICK q : q = ShownList'
  OBVIOUS
<1>3. PICK x : x = c.plan[1].id
  OBVIOUS
<1>4. /\ c \in Call /\ TypeOK /\ PlanShaped(c) /\ DOMAIN c.plan = 1 .. Len(c.plan)
      /\ Len(c.plan) \in Nat /\ \A n \in DOMAIN c.plan : c.plan[n].id \in Id
      /\ kind \in {"child", "case"}
  BY CallFields, KindsAssumption DEF CallsInv, CallsShaped, TypeOK
<1>5. /\ 1 \in DOMAIN c.plan /\ c.items = <<x>> /\ x \in Id
      /\ c.plan[1].what = IF kind = "child" THEN "delete" ELSE "hide"
      /\ \A n \in DOMAIN c.plan : n > 1 => c.plan[n].what = "update" /\ c.plan[n].key = n - 1
      /\ \A m, n \in DOMAIN c.plan : c.plan[m].id = c.plan[n].id => m = n
  <2>1. Len(c.plan) > 0 /\ c.items = <<x>>
    BY <1>3, <1>4 DEF PlanShaped
  <2>2. 1 \in DOMAIN c.plan
    BY <1>4, <2>1
  <2>3. /\ c.plan[1].what = IF kind = "child" THEN "delete" ELSE "hide"
        /\ \A n \in DOMAIN c.plan : n > 1 => c.plan[n].what = "update" /\ c.plan[n].key = n - 1
    BY <1>4 DEF PlanShaped
  <2>4. \A m, n \in DOMAIN c.plan : c.plan[m].id = c.plan[n].id => m = n
    BY <1>4 DEF PlanShaped
  <2> QED BY <1>3, <1>4, <2>1, <2>2, <2>3, <2>4
<1>6. \A n \in DOMAIN c.plan : n = 1 \/ n > 1
  BY <1>4
<1>7. \A i : /\ (Writes(c, "delete", i) \/ Writes(c, "hide", i)) <=> i = x
             /\ Writes(c, "update", i) <=> \E n \in DOMAIN c.plan : n > 1 /\ c.plan[n].id = i
  <2>1. \A n \in DOMAIN c.plan : /\ c.plan[n].what \in {"delete", "hide"} <=> n = 1
                                 /\ c.plan[n].what = "update" <=> n > 1
    BY <1>4, <1>5, <1>6
  <2> QED BY <1>3, <1>5, <2>1 DEF Writes
<1>8. /\ answer' = [op |-> c.op, items |-> c.items]
      /\ \A j \in rows' : \E k \in rows : ~Writes(c, "delete", k.id) /\ Left(c, k, j)
      /\ \A k \in rows : ~Writes(c, "delete", k.id) => \E j \in rows' : Left(c, k, j)
      /\ c.done = Len(c.plan)
  <2>1. \A j : ~Inserted(c, j)
    <3>1. \A n \in DOMAIN c.plan : c.plan[n].what # "insert"
      BY <1>5, <1>6
    <3> QED BY <3>1 DEF Inserted
  <2> QED BY <2>1, CommitsAs
<1>9. Apart(Live) /\ Lists(p, Live) /\ Apart(Live') /\ Lists(q, Live')
  BY <1>1, <1>2, Showing, ShowingAfter
<1>10. \A k, l \in rows : k.id = l.id => k = l
  BY <1>1, Showing
\* A row still shown was shown; its key is its place in the plan or unchanged.
<1>11. \A j \in Live' : \E k \in Live :
         /\ j.id = k.id /\ k.id # x
         /\ \/ \E n \in DOMAIN c.plan : n > 1 /\ c.plan[n].id = k.id /\ j.key = n - 1
            \/ k.id \notin PlanIds(c) /\ j.key = k.key
  <2> SUFFICES ASSUME NEW j \in rows', j.live
               PROVE  \E k \in Live :
                        /\ j.id = k.id /\ k.id # x
                        /\ \/ \E n \in DOMAIN c.plan : n > 1 /\ c.plan[n].id = k.id /\ j.key = n - 1
                           \/ k.id \notin PlanIds(c) /\ j.key = k.key
    BY DEF Live
  <2>1. PICK k \in rows : ~Writes(c, "delete", k.id) /\ Left(c, k, j)
    BY <1>8
  <2>2. k \in Live /\ j.id = k.id /\ k.id # x
    BY <1>7, <2>1 DEF Left, Live
  <2>3. CASE \E n \in DOMAIN c.plan : c.plan[n].what = "update" /\ c.plan[n].id = k.id /\ j.key = c.plan[n].key
    <3>1. PICK n \in DOMAIN c.plan : c.plan[n].what = "update" /\ c.plan[n].id = k.id /\ j.key = c.plan[n].key
      BY <2>3
    <3>2. n > 1
      BY <1>3, <1>6, <2>2, <3>1
    <3>3. j.key = n - 1
      BY <1>5, <3>1, <3>2
    <3> QED BY <2>2, <3>1, <3>2, <3>3
  <2>4. CASE ~Writes(c, "update", k.id) /\ j.key = k.key
    <3>1. k.id \notin PlanIds(c)
      BY <1>3, <1>6, <1>7, <2>2, <2>4 DEF PlanIds
    <3> QED BY <2>2, <2>4, <3>1
  <2> QED BY <2>1, <2>3, <2>4 DEF Left
<1>12. Ids(Live') = Ids(Live) \ {x}
  <2>1. \A i \in Ids(Live') : i \in Ids(Live) /\ i # x
    BY <1>11 DEF Ids
  <2>2. ASSUME NEW k \in Live, k.id # x PROVE \E j \in Live' : j.id = k.id
    <3>1. k \in rows /\ k.live
      BY DEF Live
    <3>2. ~Writes(c, "delete", k.id) /\ ~Writes(c, "hide", k.id)
      BY <1>7, <2>2
    <3>3. PICK j \in rows' : Left(c, k, j)
      BY <1>8, <3>1, <3>2
    <3> QED BY <3>1, <3>2, <3>3 DEF Left, Live
  <2>3. \A i \in Ids(Live) : i # x => i \in Ids(Live')
    BY <2>2 DEF Ids
  <2> QED BY <2>1, <2>3
<1>13. Fits(c) /\ InOrder(c)
  <2>1. ~Doomed(c)
    BY <1>4, <1>8 DEF Doomed
  <2> QED BY <2>1 DEF Unharmed, UpdatesFit, DeletesInOrder
<1>14. ASSUME NEW k \in Live, NEW l \in Live, NEW i \in Live', NEW j \in Live',
              i.id = k.id, j.id = l.id, i.key < j.key
       PROVE  k.key < l.key
  <2>0. k \in rows /\ l \in rows
    BY DEF Live
  <2>1. /\ k.id # x
        /\ \/ \E n \in DOMAIN c.plan : n > 1 /\ c.plan[n].id = k.id /\ i.key = n - 1
           \/ k.id \notin PlanIds(c) /\ i.key = k.key
    <3>1. PICK g \in Live : /\ i.id = g.id /\ g.id # x
              /\ \/ \E n \in DOMAIN c.plan : n > 1 /\ c.plan[n].id = g.id /\ i.key = n - 1
                 \/ g.id \notin PlanIds(c) /\ i.key = g.key
      BY <1>11
    <3>2. g = k
      BY <1>10, <1>14, <2>0, <3>1 DEF Live
    <3> QED BY <3>1, <3>2
  <2>2. /\ l.id # x
        /\ \/ \E n \in DOMAIN c.plan : n > 1 /\ c.plan[n].id = l.id /\ j.key = n - 1
           \/ l.id \notin PlanIds(c) /\ j.key = l.key
    <3>1. PICK g \in Live : /\ j.id = g.id /\ g.id # x
              /\ \/ \E n \in DOMAIN c.plan : n > 1 /\ c.plan[n].id = g.id /\ j.key = n - 1
                 \/ g.id \notin PlanIds(c) /\ j.key = g.key
      BY <1>11
    <3>2. g = l
      BY <1>10, <1>14, <2>0, <3>1 DEF Live
    <3> QED BY <3>1, <3>2
  <2>3. CASE k.id \notin PlanIds(c) /\ i.key = k.key
    <3>1. ASSUME NEW n \in DOMAIN c.plan, n > 1, c.plan[n].id = l.id, j.key = n - 1 PROVE FALSE
      <4>1. c.plan[n].what = "update" /\ c.plan[n].key = n - 1
        BY <1>5, <3>1
      <4>2. n - 1 < k.key
        BY <1>13, <2>3, <4>1 DEF Fits
      <4>3. k.key \in Nat
        BY <1>4, <2>0, RowFields
      <4> QED BY <1>4, <1>14, <2>3, <3>1, <4>2, <4>3
    <3>2. j.key = l.key
      BY <2>2, <3>1
    <3> QED BY <1>14, <2>3, <3>2
  <2>4. CASE \E m \in DOMAIN c.plan : m > 1 /\ c.plan[m].id = k.id /\ i.key = m - 1
    <3>1. PICK m \in DOMAIN c.plan : m > 1 /\ c.plan[m].id = k.id /\ i.key = m - 1
      BY <2>4
    <3>2. \A h \in 1 .. m : h \in DOMAIN c.plan
      BY <1>4
    <3>3. l.id \notin {c.plan[h].id : h \in 1 .. m}
      <4> SUFFICES ASSUME NEW h \in 1 .. m, c.plan[h].id = l.id PROVE FALSE
        OBVIOUS
      <4>1. h \in DOMAIN c.plan /\ l.id \in PlanIds(c)
        BY <3>2 DEF PlanIds
      <4>2. PICK n \in DOMAIN c.plan : n > 1 /\ c.plan[n].id = l.id /\ j.key = n - 1
        BY <2>2, <4>1
      <4>3. h = n
        BY <1>5, <4>1, <4>2
      <4> QED BY <1>4, <1>14, <3>1, <4>2, <4>3
    <3> QED BY <1>13, <3>1, <3>3 DEF InOrder
  <2> QED BY <2>1, <2>3, <2>4
<1>15. q \in List!InOrderOf(p, Ids(Live'))
  <2>1. PICK L, M : L = Live /\ M = Live'
    OBVIOUS
  <2>2. Ids(M) \subseteq Ids(L)
    BY <1>12, <2>1
  <2>3. q \in List!InOrderOf(p, Ids(M))
    BY <1>9, <1>14, <2>1, <2>2, OrderKept
  <2> QED BY <2>1, <2>3
<1>16. List!ToSet(p) = Ids(Live)
  <2>1. PICK L : L = Live
    OBVIOUS
  <2> QED BY <2>1, <1>9, Listed, SameHelpers
<1>17. q \in List!InOrderOf(p, List!ToSet(p) \ {x})
  BY <1>12, <1>15, <1>16
<1>18. answer'.op = "delete" /\ answer'.items = <<x>>
  BY <1>5, <1>8
<1>19. List!DeleteItem(x)
  BY <1>1, <1>2, <1>17, <1>18 DEF List!DeleteItem, List!Answered
<1> QED BY <1>5, <1>19

\* A list of some of the ids.
LEMMA Partial ==
  ASSUME NEW s \in Seq(Id), \A m, n \in 1 .. Len(s) : s[m] = s[n] => m = n
  PROVE  s \in List!SetToAllKPermutations(Id)
<1>1. PICK S : S = ToSet(s)
  OBVIOUS
<1>2. s \in Seq(S) /\ S \subseteq Id
  BY <1>1 DEF ToSet
<1>3. s \in SetToSeqs(S)
  BY <1>1, <1>2, Permutation
<1>4. s \in List!SetToSeqs(S)
  BY <1>3, SameHelpers
<1> QED BY <1>2, <1>4 DEF List!SetToAllKPermutations

LEMMA ReorderRefines ==
  ASSUME CallsInv, Unharmed, CallsInv', Unharmed', NEW c \in calls, Commit(c), c.op = "reorder"
  PROVE  \E s \in List!SetToAllKPermutations(Id) : List!ReorderItems(s)
<1>1. PICK p : p = ShownList
  OBVIOUS
<1>2. PICK q : q = ShownList'
  OBVIOUS
<1>3. PICK s : s = c.items
  OBVIOUS
<1>4. /\ PlanShaped(c) /\ s \in Seq(Id) /\ c.plan = Renumber(s)
      /\ \A m, n \in DOMAIN c.plan : c.plan[m].id = c.plan[n].id => m = n
  BY <1>3, CallFields DEF CallsInv, CallsShaped, PlanShaped
<1>5. /\ DOMAIN c.plan = 1 .. Len(s) /\ DOMAIN s = 1 .. Len(s) /\ Len(c.plan) = Len(s) /\ Len(s) \in Nat
      /\ \A n \in 1 .. Len(s) : /\ c.plan[n].what = "update" /\ c.plan[n].id = s[n]
                                /\ c.plan[n].key = n
  BY <1>4 DEF Renumber, IndexToOrderKey
<1>6. \A m, n \in 1 .. Len(s) : s[m] = s[n] => m = n
  BY <1>4, <1>5
<1>7. PlanIds(c) = ToSet(s)
  BY <1>5 DEF PlanIds, ToSet
<1>8. /\ answer' = [op |-> c.op, items |-> c.items]
      /\ \A j \in rows' : \E k \in rows : Left(c, k, j)
      /\ \A k \in rows : \E j \in rows' : Left(c, k, j)
      /\ c.done = Len(c.plan)
  <2>1. (\A j : ~Inserted(c, j)) /\ (\A i : ~Writes(c, "delete", i))
    BY <1>5 DEF Inserted, Writes
  <2> QED BY <2>1, CommitsAs
<1>9. Apart(Live) /\ Lists(p, Live) /\ Apart(Live') /\ Lists(q, Live')
  BY <1>1, <1>2, Showing, ShowingAfter
<1>10. Fits(c)
  <2>1. ~Doomed(c)
    BY <1>5, <1>8 DEF Doomed
  <2> QED BY <2>1 DEF Unharmed, UpdatesFit
<1>11. \A k, j : Left(c, k, j) =>
         /\ j.id = k.id /\ (j.live <=> k.live)
         /\ j.id \notin ToSet(s) => j.key = k.key
         /\ \A m \in DOMAIN s : j.id = s[m] => j.key = m
  <2> SUFFICES ASSUME NEW k, NEW j, Left(c, k, j)
               PROVE  /\ j.id = k.id /\ (j.live <=> k.live)
                      /\ j.id \notin ToSet(s) => j.key = k.key
                      /\ \A m \in DOMAIN s : j.id = s[m] => j.key = m
    OBVIOUS
  <2>1. \A i : ~Writes(c, "hide", i)
    BY <1>5 DEF Writes
  <2>2. j.id = k.id /\ (j.live <=> k.live)
    BY <2>1 DEF Left
  <2>3. \/ \E n \in DOMAIN c.plan : c.plan[n].id = k.id /\ j.key = c.plan[n].key
        \/ ~Writes(c, "update", k.id) /\ j.key = k.key
    BY DEF Left
  <2>4. j.id \notin ToSet(s) => j.key = k.key
    BY <1>7, <2>2, <2>3 DEF PlanIds
  <2>5. ASSUME NEW m \in DOMAIN s, j.id = s[m] PROVE j.key = m
    <3>1. Writes(c, "update", k.id)
      BY <1>5, <2>2, <2>5 DEF Writes
    <3>2. PICK n \in DOMAIN c.plan : c.plan[n].id = k.id /\ j.key = c.plan[n].key
      BY <2>3, <3>1
    <3>3. n = m
      BY <1>5, <1>6, <2>2, <2>5, <3>2
    <3> QED BY <1>5, <3>2, <3>3
  <2> QED BY <2>2, <2>4, <2>5
<1>12. Ids(Live') = Ids(Live)
  <2>1. \A j \in Live' : \E k \in Live : j.id = k.id
    BY <1>8, <1>11 DEF Live
  <2>2. \A k \in Live : \E j \in Live' : j.id = k.id
    BY <1>8, <1>11 DEF Live
  <2> QED BY <2>1, <2>2 DEF Ids
<1>13. ToSet(s) \subseteq Ids(Live)
  <2>1. \A n \in DOMAIN s : s[n] \in Ids(Live)
    BY <1>5, <1>10 DEF Fits
  <2> QED BY <2>1 DEF ToSet
<1>14. \A j \in Live' : \A m \in DOMAIN s : j.id = s[m] => j.key = m
  BY <1>8, <1>11 DEF Live
<1>15. \A j \in Live' : j.id \notin ToSet(s) =>
         /\ \E k \in Live : k.id = j.id /\ k.key = j.key
         /\ \A m \in DOMAIN s : m < j.key
  <2> SUFFICES ASSUME NEW j \in Live', j.id \notin ToSet(s)
               PROVE  /\ \E k \in Live : k.id = j.id /\ k.key = j.key
                      /\ \A m \in DOMAIN s : m < j.key
    OBVIOUS
  <2>1. PICK k \in Live : k.id = j.id /\ k.key = j.key
    BY <1>8, <1>11 DEF Live
  <2>2. \A m \in DOMAIN s : m < k.key
    BY <1>5, <1>7, <1>10, <2>1 DEF Fits
  <2> QED BY <2>1, <2>2
<1>16. \E rest \in List!InOrderOf(p, Ids(Live) \ ToSet(s)) : Lists(s \o rest, Live')
  <2>1. PICK L, M : L = Live /\ M = Live'
    OBVIOUS
  <2>2. \E rest \in List!InOrderOf(p, Ids(L) \ ToSet(s)) : Lists(s \o rest, M)
    BY <1>4, <1>6, <1>9, <1>12, <1>13, <1>14, <1>15, <2>1, Reordered
  <2> QED BY <2>1, <2>2
<1>17. \E rest \in List!InOrderOf(p, Ids(Live) \ ToSet(s)) : q = s \o rest
  <2>1. PICK M : M = Live'
    OBVIOUS
  <2> QED BY <2>1, <1>9, <1>16, ListUnique
<1>18. List!ToSet(p) = Ids(Live) /\ List!ToSet(s) = ToSet(s)
  <2>1. PICK L : L = Live
    OBVIOUS
  <2> QED BY <2>1, <1>9, Listed, SameHelpers
<1>19. answer'.op = "reorder" /\ answer'.items = s
  BY <1>3, <1>8
<1>20. List!ReorderItems(s)
  BY <1>1, <1>2, <1>13, <1>17, <1>18, <1>19 DEF List!ReorderItems, List!Answered
<1> QED BY <1>4, <1>6, <1>20, Partial

LEMMA SyncRefines ==
  ASSUME CallsInv, Unharmed, CallsInv', Unharmed', NEW c \in calls, Commit(c), c.op = "sync"
  PROVE  \E s \in List!SetToAllKPermutations(Id) : List!SyncItems(s)
<1>1. PICK q : q = ShownList'
  OBVIOUS
<1>2. PICK s : s = c.items
  OBVIOUS
<1>3. /\ s \in Seq(Id) /\ DOMAIN s = 1 .. Len(s) /\ kind = "child"
      /\ DOMAIN c.plan = 1 .. Len(c.plan)
      /\ \A n \in DOMAIN c.plan :
           /\ c.plan[n].what \in {"delete", "update", "insert"}
           /\ c.plan[n].what # "delete" => c.plan[n].key \in DOMAIN s /\ c.plan[n].id = s[c.plan[n].key]
      /\ \A m \in DOMAIN s : \E n \in DOMAIN c.plan : c.plan[n].what # "delete" /\ c.plan[n].key = m
      /\ \A m, n \in DOMAIN c.plan : c.plan[m].id = c.plan[n].id => m = n
  <2>1. PlanShaped(c) /\ s \in Seq(Id) /\ DOMAIN c.plan = 1 .. Len(c.plan)
    BY <1>2, CallFields DEF CallsInv, CallsShaped
  <2>2. \A m, n \in DOMAIN c.plan : c.plan[m].id = c.plan[n].id => m = n
    BY <2>1 DEF PlanShaped
  <2> QED BY <1>2, <2>1, <2>2 DEF PlanShaped
<1>4. \A m, n \in 1 .. Len(s) : s[m] = s[n] => m = n
  <2> SUFFICES ASSUME NEW m \in DOMAIN s, NEW n \in DOMAIN s, s[m] = s[n] PROVE m = n
    BY <1>3
  <2>1. PICK a \in DOMAIN c.plan, b \in DOMAIN c.plan :
          /\ c.plan[a].what # "delete" /\ c.plan[a].key = m
          /\ c.plan[b].what # "delete" /\ c.plan[b].key = n
    BY <1>3
  <2>2. c.plan[a].id = c.plan[b].id
    BY <1>3, <2>1
  <2> QED BY <1>3, <2>1, <2>2
<1>5. /\ answer' = [op |-> c.op, items |-> c.items] /\ c.done = Len(c.plan) /\ UNCHANGED kind
      /\ \A j \in rows' :
           Inserted(c, j) \/ \E k \in rows : ~Writes(c, "delete", k.id) /\ Left(c, k, j)
      /\ \A k \in rows : ~Writes(c, "delete", k.id) => \E j \in rows' : Left(c, k, j)
      /\ \A n \in DOMAIN c.plan :
           c.plan[n].what = "insert" => \E j \in rows' : Inserted(c, j) /\ j.id = c.plan[n].id
  BY CommitsAs
<1>6. Apart(Live') /\ Lists(q, Live')
  BY <1>1, ShowingAfter
<1>7. Live' = rows'
  BY <1>3, <1>5 DEF Live, CallsInv, ChildrenLive
<1>8. \A k \in rows : ~Writes(c, "delete", k.id) => Writes(c, "update", k.id)
  <2> SUFFICES ASSUME NEW k \in rows, ~Writes(c, "delete", k.id) PROVE Writes(c, "update", k.id)
    OBVIOUS
  <2>1. k.id \in Ids(rows)
    BY DEF Ids
  <2>2. PICK n \in DOMAIN c.plan : c.plan[n].id = k.id
    BY <2>1 DEF Unharmed, SyncsKnowAll, PlanIds
  <2>3. c.plan[n].what # "insert"
    BY <2>2 DEF CallsInv, InsertsFresh, Has
  <2> QED BY <1>3, <2>2, <2>3 DEF Writes
<1>9. \A j \in rows' : j.key \in DOMAIN s /\ j.id = s[j.key]
  <2> SUFFICES ASSUME NEW j \in rows' PROVE j.key \in DOMAIN s /\ j.id = s[j.key]
    OBVIOUS
  <2>1. PICK n \in DOMAIN c.plan : c.plan[n].what # "delete" /\ j.id = c.plan[n].id /\ j.key = c.plan[n].key
    <3>1. CASE Inserted(c, j)
      BY <3>1 DEF Inserted
    <3>2. CASE ~Inserted(c, j)
      <4>1. PICK k \in rows : ~Writes(c, "delete", k.id) /\ Left(c, k, j)
        BY <1>5, <3>2
      <4>2. Writes(c, "update", k.id)
        BY <1>8, <4>1
      <4> QED BY <4>1, <4>2 DEF Left
    <3> QED BY <3>1, <3>2
  <2> QED BY <1>3, <2>1
<1>10. \A n \in DOMAIN s : \E j \in rows' : j.key = n
  <2> SUFFICES ASSUME NEW n \in DOMAIN s PROVE \E j \in rows' : j.key = n
    OBVIOUS
  <2>1. PICK a \in DOMAIN c.plan : c.plan[a].what # "delete" /\ c.plan[a].key = n
    BY <1>3
  <2>2. c.plan[a].id = s[n]
    BY <1>3, <2>1
  <2>3. \E j \in rows' : j.id = c.plan[a].id
    <3>1. CASE c.plan[a].what = "insert"
      BY <1>5, <3>1
    <3>2. CASE c.plan[a].what # "insert"
      <4>1. PICK k \in rows : k.id = c.plan[a].id
        <5>1. a \in 1 .. c.done
          BY <1>3, <1>5
        <5> QED BY <3>2, <5>1 DEF CallsInv, RowsHeld, Has
      <4>2. ~Writes(c, "delete", k.id)
        BY <1>3, <2>1, <4>1 DEF Writes
      <4> QED BY <1>5, <4>1, <4>2 DEF Left
    <3> QED BY <3>1, <3>2
  <2>4. PICK j \in rows' : j.id = s[n]
    BY <2>2, <2>3
  <2>5. j.key = n
    BY <1>3, <1>4, <1>9, <2>4
  <2> QED BY <2>5
<1>11. Lists(s, Live')
  <2>1. PICK M : M = Live'
    OBVIOUS
  <2>2. Apart(M) /\ M = rows'
    BY <1>6, <1>7, <2>1
  <2>3. \A j \in M : j.key \in DOMAIN s /\ j.id = s[j.key]
    BY <1>9, <2>2
  <2>4. \A n \in DOMAIN s : \E j \in M : j.key = n
    BY <1>10, <2>2
  <2>5. s \in Seq(Id)
    BY <1>3
  <2>6. Lists(s, M)
    BY ONLY <2>2, <2>3, <2>4, <2>5, Numbered
  <2> QED BY <2>1, <2>6
<1>12. q = s
  <2>1. PICK M : M = Live'
    OBVIOUS
  <2> QED BY <2>1, <1>6, <1>11, ListUnique
<1>13. answer'.op = "sync" /\ answer'.items = s
  BY <1>2, <1>5
<1>14. List!SyncItems(s)
  BY <1>1, <1>12, <1>13 DEF List!SyncItems, List!Answered
<1> QED BY <1>3, <1>4, <1>14, Partial

LEMMA RestoreRefines ==
  ASSUME CallsInv, Unharmed, CallsInv', Unharmed', ~collided', NEW c \in calls, Restore(c)
  PROVE  \E x \in Id : List!RestoreItem(x)
<1>1. PICK p : p = ShownList
  OBVIOUS
<1>2. PICK q : q = ShownList'
  OBVIOUS
<1>3. PICK x : x = c.items[1]
  OBVIOUS
<1>4. c.items = <<x>>
  <2>1. PlanShaped(c) /\ c.items \in Seq(Id)
    BY CallFields DEF CallsInv, CallsShaped
  <2>2. Len(c.items) = 1
    BY <2>1 DEF Restore, PlanShaped
  <2> QED BY <1>3, <2>1, <2>2
<1>5. PICK k \in rows : /\ k.id = x
                        /\ rows' = (rows \ {k}) \cup {[k EXCEPT !.live = TRUE]}
                        /\ answer' = [op |-> "restore", items |-> c.items]
  BY <1>3, RestoresAs
<1>6. PICK j : j = [k EXCEPT !.live = TRUE]
  OBVIOUS
<1>7. k \in Row /\ rows \subseteq Row /\ rows' \subseteq Row /\ \A g, h \in rows : g.id = h.id => g = h
  BY DEF CallsInv, TypeOK, UniqueIds
<1>8. j.id = k.id /\ j.key = k.key /\ j.live /\ x \in Id
  BY <1>5, <1>6, <1>7 DEF Row
<1>9. rows' = (rows \ {k}) \cup {j}
  BY <1>5, <1>6
<1>10. Apart(Live) /\ Lists(p, Live) /\ Apart(Live') /\ Lists(q, Live')
  BY <1>1, <1>2, Showing, ShowingAfter
<1>11. Live' = (Live \ {k}) \cup {j}
  BY <1>8, <1>9 DEF Live
<1>12. List!ToSet(p) = Ids(Live) /\ List!ToSet(q) = Ids(Live')
  <2>1. PICK L, M : L = Live /\ M = Live'
    OBVIOUS
  <2> QED BY <2>1, <1>10, Listed, SameHelpers
<1>13. x \in Ids(Live')
  BY <1>5, <1>8, <1>11 DEF Ids
<1>14. answer'.op = "restore" /\ answer'.items = <<x>>
  BY <1>4, <1>5
<1>15. CASE k.live
  <2>1. j = k
    <3>1. j.live = k.live /\ j.skipped = k.skipped /\ j \in Row
      <4>1. j \in rows'
        BY <1>9
      <4> QED BY <1>6, <1>7, <1>15, <4>1 DEF Row
    <3> QED BY <1>7, <1>8, <3>1, SameRows
  <2>2. Live' = Live
    BY <1>5, <1>11, <1>15, <2>1 DEF Live
  <2>3. q = p
    <3>1. PICK L, M : L = Live /\ M = Live'
      OBVIOUS
    <3> QED BY <3>1, <1>10, <2>2, ListUnique
  <2>4. x \in List!ToSet(p)
    BY <1>12, <1>13, <2>2
  <2>5. List!RestoreItem(x)
    BY <1>1, <1>2, <1>12, <1>13, <1>14, <2>3, <2>4 DEF List!RestoreItem, List!Answered
  <2> QED BY <1>8, <2>5
<1>16. CASE ~k.live
  <2>1. Live' = Live \cup {j}
    BY <1>11, <1>16 DEF Live
  <2>2. x \notin Ids(Live)
    BY <1>5, <1>7, <1>16 DEF Ids, Live
  <2>3. Ids(Live) = Ids(Live') \ {x}
    BY <1>5, <1>8, <2>1, <2>2 DEF Ids
  <2>4. p \in List!InOrderOf(q, Ids(Live))
    <3>1. PICK L, M : L = Live /\ M = Live'
      OBVIOUS
    <3>2. Apart(L) /\ Lists(p, L) /\ Apart(M) /\ Lists(q, M) /\ L \subseteq M
      BY <1>10, <2>1, <3>1
    <3>3. \A g, h \in M : \A i, l \in L :
            i.id = g.id /\ l.id = h.id /\ i.key < l.key => g.key < h.key
      <4>1. \A g \in M : \A i \in L : i.id = g.id => i = g
        BY <3>2 DEF Apart
      <4> QED BY <4>1
    <3>4. Ids(L) \subseteq Ids(M)
      BY <3>2 DEF Ids
    <3>5. p \in List!InOrderOf(q, Ids(L))
      BY <3>2, <3>3, <3>4, OrderKept
    <3> QED BY <3>1, <3>5
  <2>5. x \notin List!ToSet(p)
    BY <1>12, <2>2
  <2>6. p \in List!InOrderOf(q, List!ToSet(q) \ {x})
    BY <1>12, <2>3, <2>4
  <2>7. List!RestoreItem(x)
    BY <1>1, <1>2, <1>12, <1>13, <1>14, <2>5, <2>6 DEF List!RestoreItem, List!Answered
  <2> QED BY <1>8, <2>7
<1> QED BY <1>15, <1>16

\* The rows stay and nobody is answered.
LEMMA QuietRefines ==
  ASSUME rows' = rows, answer' = None
  PROVE  List!NoAnswer
<1>1. ShownList' = ShownList
  BY DEF ShownList, Live
<1>2. answer'.op = "none" /\ answer'.items = <<>>
  BY DEF None
<1> QED BY <1>1, <1>2 DEF List!NoAnswer, List!Answered

LEMMA StepRefines ==
  ASSUME KeysInv, KeysInv', Next
  PROVE  List!Next
<1>1. CASE collided'
  BY <1>1 DEF List!Next
<1>2. CASE ~collided'
  <2>1. ~collided
    BY <1>2, CollidedStays DEF KeysInv
  <2>2. CallsInv /\ Unharmed /\ CallsInv' /\ Unharmed'
    BY <1>2, <2>1 DEF KeysInv
  <2>3. UNCHANGED collided
    BY <1>2, <2>1, <2>2 DEF CallsInv, TypeOK
  <2>4. \/ List!NoAnswer
        \/ \E x \in Id : List!AddItem(x) \/ List!DeleteItem(x) \/ List!RestoreItem(x)
        \/ \E s \in List!SetToAllKPermutations(Id) : List!ReorderItems(s) \/ List!SyncItems(s)
    <3>1. ASSUME NEW r \in Req, Arrive(r)
          PROVE  List!NoAnswer
      <4>1. PICK e : Arrival(r, e)
        BY <2>2, <3>1, SomethingArrives
      <4>2. rows' = rows /\ answer' = None
        BY <4>1 DEF Arrival
      <4> QED BY <4>2, QuietRefines
    <3>2. ASSUME NEW c \in calls, WriteRow(c) \/ ReadRemaining(c) \/ Abort(c)
          PROVE  List!NoAnswer
      <4>1. rows' = rows /\ answer' = None
        BY <3>2 DEF WriteRow, ReadRemaining, Abort
      <4> QED BY <4>1, QuietRefines
    <3>3. ASSUME NEW c \in calls, Commit(c)
          PROVE  \/ \E x \in Id : List!AddItem(x) \/ List!DeleteItem(x)
                 \/ \E s \in List!SetToAllKPermutations(Id) : List!ReorderItems(s) \/ List!SyncItems(s)
      <4>1. c.op \in {"add", "delete", "reorder", "sync"}
        BY <2>2, <3>3, CallFields DEF CallsInv, Commit, Op
      <4> QED BY <2>2, <3>3, <4>1, AddRefines, DeleteRefines, ReorderRefines, SyncRefines
    <3>4. ASSUME NEW c \in calls, Restore(c)
          PROVE  \E x \in Id : List!RestoreItem(x)
      BY <1>2, <2>2, <3>4, RestoreRefines
    <3> QED BY <3>1, <3>2, <3>3, <3>4 DEF Next, Resume
  <2> QED BY <2>3, <2>4 DEF List!Next
<1> QED BY <1>1, <1>2

LEMMA EmptyShown ==
  ASSUME Live = {}
  PROVE  ShownList = <<>>
<1>1. PICK R : R = Live
  OBVIOUS
<1>2. Apart(R)
  BY <1>1, FS_EmptySet DEF Apart
<1>3. Lists(<<>>, R)
  <2>1. <<>> \in Seq(Ids(R)) /\ Len(<<>>) = 0 /\ ToSet(<<>>) = Ids(R) /\ DOMAIN <<>> = {}
    BY <1>1 DEF ToSet, Ids
  <2>2. <<>> \in SetToSeqs(Ids(R))
    <3> SUFFICES \A m, n \in 1 .. Len(<<>>) : <<>>[m] = <<>>[n] => m = n
      BY <2>1, Permutation
    <3> QED BY <2>1
  <2> QED BY <2>1, <2>2 DEF Lists
<1>4. Shown(R) = <<>>
  BY <1>2, <1>3, ShownIs
<1> QED BY <1>1, <1>4 DEF ShownList, Shown

\* The rows shown and their answers behave as the list and the answers of
\* OrderedList: what the services promise their callers holds for any number
\* of rows and requests, until two collide.
THEOREM OrderKeysImplementList == Spec => ImplementsList
<1>1. Init => List!Init
  <2> SUFFICES ASSUME Init PROVE List!Init
    OBVIOUS
  <2>1. ShownList = <<>>
    BY EmptyShown DEF Init, Live
  <2> QED BY <2>1 DEF Init, List!Init, None
<1>2. KeysInv /\ KeysInv' /\ [Next]_vars => [List!Next]_(List!vars)
  <2> SUFFICES ASSUME KeysInv, KeysInv', [Next]_vars PROVE [List!Next]_(List!vars)
    OBVIOUS
  <2>1. CASE Next
    BY <2>1, StepRefines
  <2>2. CASE UNCHANGED vars
    <3>1. ShownList' = ShownList /\ UNCHANGED <<answer, collided>>
      BY <2>2 DEF vars, ShownList, Live
    <3> QED BY <3>1 DEF List!vars
  <2> QED BY <2>1, <2>2
<1> QED BY <1>1, <1>2, KeysInductive, PTL DEF Spec, ImplementsList, List!Spec

=============================================================================
