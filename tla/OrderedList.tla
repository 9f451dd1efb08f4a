---------------------------- MODULE OrderedList -----------------------------
(***************************************************************************)
(* What an ordered collection of the repository promises its callers: the  *)
(* steps, preconditions or expected results of a test case, or the test    *)
(* cases of a suite.  A caller sees a list and the answers to the requests *)
(* that changed it; order keys, rows and transactions are the business of  *)
(* OrderKeys, which implements this specification.                         *)
(*                                                                         *)
(* The promise ends when two requests collide, or when a client names the  *)
(* order key of a new item itself (`collided`): OrderKeys says which       *)
(* overlaps those are.                                                     *)
(***************************************************************************)
EXTENDS SequencesExt

CONSTANT Item

VARIABLES list,     \* the items in the order they are shown
          answer,   \* the last request that was answered with success
          collided  \* requests have overlapped in a way the code mishandles,
                    \* or a client has named a key

vars == <<list, answer, collided>>

Init == /\ list = <<>>
        /\ answer = [op |-> "none", items |-> <<>>]
        /\ collided = FALSE

\* The items of S, which are in s, in the order they have there.
InOrderOf(s, S) ==
  {t \in SetToSeqs(S) : \A m, n \in DOMAIN t : m < n =>
     \E i, j \in DOMAIN s : i < j /\ s[i] = t[m] /\ s[j] = t[n]}

Answered(o, s) == answer'.op = o /\ answer'.items = s

\* A new item goes to the end.
AddItem(x) == /\ Answered("add", <<x>>)
              /\ x \notin ToSet(list)
              /\ list' = Append(list, x)

\* The others keep their order.  Deleting twice is answered twice.
DeleteItem(x) == /\ Answered("delete", <<x>>)
                 /\ list' \in InOrderOf(list, ToSet(list) \ {x})

\* The items the caller named come in the order it named them; an item it
\* did not know of yet stays behind them.
ReorderItems(s) ==
  /\ Answered("reorder", s)
  /\ ToSet(s) \subseteq ToSet(list)
  /\ \E rest \in InOrderOf(list, ToSet(list) \ ToSet(s)) : list' = s \o rest

\* The list becomes what the caller sent.
SyncItems(s) == Answered("sync", s) /\ list' = s

\* A deleted item comes back somewhere between the others.
RestoreItem(x) == /\ Answered("restore", <<x>>)
                  /\ x \in ToSet(list')
                  /\ IF x \in ToSet(list) THEN list' = list
                     ELSE list \in InOrderOf(list', ToSet(list') \ {x})

\* Between two answers the list is at rest.
NoAnswer == Answered("none", <<>>) /\ UNCHANGED list

Next == \/ collided'
        \/ /\ UNCHANGED collided
           /\ \/ NoAnswer
              \/ \E x \in Item : AddItem(x) \/ DeleteItem(x) \/ RestoreItem(x)
              \/ \E s \in SetToAllKPermutations(Item) : ReorderItems(s) \/ SyncItems(s)

Spec == Init /\ [][Next]_vars
=============================================================================
