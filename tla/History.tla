------------------------------ MODULE History -------------------------------
(***************************************************************************)
(* The history of a test suite and of one of its test cases (apps/api      *)
(* test-suite.service.ts, test-case.service.ts).  Every update, deletion   *)
(* and restoring writes the row and, next to it, an entry with the row as  *)
(* the request had found it.  A daily job (apps/jobs history-cleanup.ts)   *)
(* removes the entries that are too old.                                   *)
(***************************************************************************)
EXTENDS Requests, Sequences

CONSTANTS Field,      \* what of a row can be edited: title, description, ...
          MaxEntries  \* bound: entries ever made

ASSUME EntriesAssumption == MaxEntries \in Nat

VARIABLES items,           \* items[i]: the row of the suite or of the case
          entries,         \* entries[i]: its history, oldest first
          made,            \* how many entries there have been
          start,           \* history: the row as the last entry removed left it
          historyCalls,    \* historyCalls[r]: the request in slot r
          historyOverlap   \* history: the kinds of requests that overlapped

ofEntries == <<entries, made, start>>
historyVars == <<items, ofEntries, historyCalls, historyOverlap>>

-----------------------------------------------------------------------------
Item == {"suite", "case"}
\* A value of a field is `made`, plus one, when a request chose it; `deleted`
\* says for how long the row is.
Value == 0 .. MaxEntries + 1
ItemRow == [fields : [Field -> Value], deleted : {"no", "fresh", "over"}]
Sent == UNION {[some -> Value] : some \in SUBSET Field}
Entry == [kind : {"UPDATE", "DELETE", "RESTORE"}, before : ItemRow, after : Sent]
HistoryCall == {Idle}
  \cup [op : {"UPDATE", "DELETE", "RESTORE"}, at : {"write", "commit"}, item : Item,
        before : ItemRow, sent : Sent]

\* One type invariant for the component.
HistoryTypeOK == /\ items \in [Item -> ItemRow]
                 /\ entries \in [Item -> Seq(Entry)]
                 /\ made \in 0 .. MaxEntries
                 /\ start \in [Item -> ItemRow]
                 /\ historyCalls \in [Req -> HistoryCall]
                 /\ historyOverlap \subseteq Item

FirstRow == [fields |-> [f \in Field |-> 0], deleted |-> "no"]
HistoryInit == /\ items = [i \in Item |-> FirstRow]
               /\ entries = [i \in Item |-> <<>>]
               /\ made = 0
               /\ start = [i \in Item |-> FirstRow]
               /\ historyCalls = [r \in Req |-> Idle]
               /\ historyOverlap = {}

HistoryAt(r, op, at) == historyCalls[r].op = op /\ historyCalls[r].at = at
HistoryLeave(r) == historyCalls' = End(historyCalls, r)

\* A request has found its row, and will write beside what it found.
HistoryStart(r, op, i, sent) ==
  /\ historyCalls[r] = Idle
  /\ historyCalls' = [historyCalls EXCEPT ![r] =
       [op |-> op, at |-> "write", item |-> i, before |-> items[i], sent |-> sent]]
  /\ UNCHANGED <<items, ofEntries, historyOverlap>>

Overwrite(row, sent) == [f \in Field |-> IF f \in DOMAIN sent THEN sent[f] ELSE row.fields[f]]

\* What an entry of kind op says the row became.
Became(op, row, sent) ==
  CASE op = "UPDATE" -> [row EXCEPT !.fields = Overwrite(row, sent)]
    [] op = "DELETE" -> [row EXCEPT !.deleted = "fresh"]
    [] op = "RESTORE" -> [row EXCEPT !.deleted = "no"]

Overlaps(r) == \E d \in Req \ {r} :
  historyCalls[d] # Idle /\ historyCalls[d].item = historyCalls[r].item

WriteRow(r) == LET c == historyCalls[r]
               IN items' = [items EXCEPT ![c.item] = Became(c.op, @, c.sent)]
WriteEntry(r, before) ==
  LET c == historyCalls[r]
  IN /\ made < MaxEntries /\ made' = made + 1
     /\ entries' = [entries EXCEPT ![c.item] =
          Append(@, [kind |-> c.op, before |-> before, after |-> c.sent])]
     /\ UNCHANGED start
MarkOverlap(r) == historyOverlap' = IF Overlaps(r)
                                    THEN historyOverlap \cup {historyCalls[r].item}
                                    ELSE historyOverlap

-----------------------------------------------------------------------------
\* update and updateWithChildren: the fields sent, changed or not.  The one of
\* a case ends here when nothing changes; the one of a suite goes on.
UpdateItemFind(r) == \E i \in Item : \E some \in SUBSET Field :
  /\ items[i].deleted = "no"
  /\ \E new \in SUBSET some :
       /\ i = "case" => new # {}
       /\ HistoryStart(r, "UPDATE", i, [f \in some |-> IF f \in new THEN made + 1
                                                       ELSE items[i].fields[f]])

DeleteItemFind(r) == \E i \in Item :
  items[i].deleted = "no" /\ HistoryStart(r, "DELETE", i, <<>>)

\* A suite at any time; a case within thirty days and while its suite is there.
RestoreItemFind(r) == \E i \in Item :
  /\ items[i].deleted # "no"
  /\ i = "case" => items["case"].deleted = "fresh" /\ items["suite"].deleted = "no"
  /\ HistoryStart(r, "RESTORE", i, <<>>)

\* Mutant: the entry has the row as it is after the write.
ItemCommitAfter(r) ==
  /\ historyCalls[r] # Idle /\ historyCalls[r].at = "write"
  /\ ~(HistoryAt(r, "RESTORE", "write") /\ historyCalls[r].item = "case")
  /\ WriteRow(r) /\ WriteEntry(r, items'[historyCalls[r].item]) /\ MarkOverlap(r)
  /\ HistoryLeave(r)

\* One transaction writes the row and the entry.
ItemCommit(r) ==
  /\ historyCalls[r] # Idle /\ historyCalls[r].at = "write"
  /\ ~(HistoryAt(r, "RESTORE", "write") /\ historyCalls[r].item = "case")
  /\ WriteRow(r) /\ WriteEntry(r, historyCalls[r].before) /\ MarkOverlap(r)
  /\ HistoryLeave(r)

\* restore of a case: the row is written on a connection of the repository's
\* own while the transaction with the entry is open.
RestoreCaseRow(r) ==
  /\ HistoryAt(r, "RESTORE", "write") /\ historyCalls[r].item = "case"
  /\ WriteRow(r) /\ MarkOverlap(r)
  /\ historyCalls' = [historyCalls EXCEPT ![r].at = "commit"]
  /\ UNCHANGED ofEntries

RestoreCaseCommit(r) ==
  /\ HistoryAt(r, "RESTORE", "commit")
  /\ WriteEntry(r, historyCalls[r].before) /\ MarkOverlap(r)
  /\ HistoryLeave(r)
  /\ UNCHANGED items

\* An error or a crash.  The transaction is rolled back, and a case already
\* restored stays so.
HistoryAbort(r) ==
  /\ historyCalls[r] # Idle
  /\ historyOverlap' = IF historyCalls[r].at = "commit" THEN historyOverlap \cup {"case"}
                       ELSE historyOverlap
  /\ HistoryLeave(r)
  /\ UNCHANGED <<items, ofEntries>>

ThirtyDaysPass == \E i \in Item :
  /\ items[i].deleted = "fresh"
  /\ items' = [items EXCEPT ![i].deleted = "over"]
  /\ UNCHANGED <<ofEntries, historyCalls, historyOverlap>>

\* What entry n of h says the row became; it was `from` before the first one.
Left(from, h, n) == IF n = 0 THEN from ELSE Became(h[n].kind, h[n].before, h[n].after)

\* The job removes the entries of a table that are older than its limit.
HistoryCleanup == \E i \in Item : \E n \in DOMAIN entries[i] :
  /\ entries' = [entries EXCEPT ![i] = SubSeq(@, n + 1, Len(@))]
  /\ start' = [start EXCEPT ![i] = Left(@, entries[i], n)]
  /\ UNCHANGED <<items, made, historyCalls, historyOverlap>>

HistoryNext ==
  \/ \E r \in Req : \/ UpdateItemFind(r) \/ DeleteItemFind(r) \/ RestoreItemFind(r)
                    \/ ItemCommit(r) \/ RestoreCaseRow(r) \/ RestoreCaseCommit(r)
                    \/ HistoryAbort(r)
  \/ ThirtyDaysPass \/ HistoryCleanup

HistorySpec == HistoryInit /\ [][HistoryNext]_historyVars

-----------------------------------------------------------------------------
\* Equal but for how long a row has been deleted.
SameRow(a, b) == a.fields = b.fields /\ (a.deleted = "no" <=> b.deleted = "no")

\* Every entry has the row as the entry before it left it.
Chained(from, h) == \A n \in DOMAIN h : SameRow(h[n].before, Left(from, h, n - 1))
Told(i) == SameRow(items[i], Left(start[i], entries[i], Len(entries[i])))

\* The history can be replayed: every entry has the row as the entry before
\* it left it, one that is there or one removed for its age, and the last one
\* left it as it is.  So what was overwritten is lost by age only, and a
\* deletion or restoring is always told: unless two requests for the row
\* overlapped, or the restoring of a case was cut short.
HistoryReplays ==
  \A i \in Item :
    i \notin historyOverlap /\ (\A r \in Req : ~HistoryAt(r, "RESTORE", "commit")) =>
      Chained(start[i], entries[i]) /\ Told(i)

-----------------------------------------------------------------------------
\* Why: a request that nothing has overlapped writes beside the row as it
\* still is, and the restoring of a case between its two writes beside the
\* row as it was, which is the one the history ends with.
CommitsRestoreCases == \A r \in Req :
  historyCalls[r] # Idle /\ historyCalls[r].at = "commit"
    => historyCalls[r].op = "RESTORE" /\ historyCalls[r].item = "case"
HalfRestored(r) ==
  /\ SameRow(historyCalls[r].before, Left(start["case"], entries["case"], Len(entries["case"])))
  /\ SameRow(items["case"], Became("RESTORE", historyCalls[r].before, <<>>))
ToldSoFar(i) ==
  /\ Chained(start[i], entries[i])
  /\ \/ Told(i)
     \/ \E r \in Req : HistoryAt(r, "RESTORE", "commit") /\ historyCalls[r].item = i
  /\ \A r \in Req : historyCalls[r] # Idle /\ historyCalls[r].item = i =>
       IF historyCalls[r].at = "write" THEN SameRow(historyCalls[r].before, items[i])
       ELSE HalfRestored(r)
HistoryInv == /\ HistoryTypeOK /\ CommitsRestoreCases
              /\ \A i \in Item \ historyOverlap : ToldSoFar(i)
=============================================================================
