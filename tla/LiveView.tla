------------------------------ MODULE LiveView ------------------------------
(***************************************************************************)
(* An execution shown in several windows (apps/web Execution.tsx,          *)
(* useExecutionRealtime.ts, lib/ws.ts) while its results change (apps/api  *)
(* execution.service.ts).  A window keeps a copy in its query cache; it is *)
(* patched by its own edits at once, by their answers, and by the events   *)
(* of everybody's edits, and replaced by a refetch.  An edit writes the    *)
(* row, then publishes, then answers; nothing orders two edits.            *)
(***************************************************************************)
EXTENDS Requests, Sequences

CONSTANTS Window, Row,  \* windows, and results of the execution
          MaxEdits      \* bound: edits ever made

ASSUME EditsAssumption == MaxEdits \in Nat

VARIABLES rows,       \* rows[x]: status and note of the result
          edits,      \* how many edits there have been
          view,       \* view[w]: the copy in window w, or NoView
          online,     \* online[w]: w is connected and subscribed
          channel,    \* channel[w]: the events on their way to w
          fetch,      \* fetch[w]: the query of w in flight
          viewCalls,  \* viewCalls[r]: the edit in slot r
          doubts      \* history: what w met since its last sound refetch

viewVars == <<rows, edits, view, online, channel, fetch, viewCalls, doubts>>

-----------------------------------------------------------------------------
\* A status and a note are the number of the edit they come from; 0 is none.
Content == [status : 0 .. MaxEdits, note : 0 .. MaxEdits]
Copy == [Row -> Content]
NoView == <<>>
Agent == "agent"
\* What edits through the API is not one of the windows.
ASSUME AgentAssumption == Agent \notin Window
NoFetch == [at |-> "idle"]
Fetch == {NoFetch, [at |-> "sent"]}
  \* `sound`: no event came or was missed since the rows were read
  \cup [at : {"read"}, rows : Copy, sound : BOOLEAN]
\* `sound`: the event tells the row as it is, and no newer one was sent.
Event == [row : Row, content : Content, sound : BOOLEAN]
\* `alone`: nothing else changed the copy since, or was about to when it began.
ViewCall == {Idle}
  \cup [op : {"edit"}, at : {"write"}, win : Window \cup {Agent}, row : Row, sent : Content,
        before : Copy \cup {NoView}, alone : BOOLEAN]
  \cup [op : {"edit"}, at : {"publish", "answer"}, win : Window \cup {Agent}, row : Row,
        sent : Content, before : Copy \cup {NoView}, alone : BOOLEAN, result : Content]

\* One type invariant for the component.
ViewTypeOK == /\ rows \in Copy /\ edits \in 0 .. MaxEdits
              /\ view \in [Window -> Copy \cup {NoView}]
              /\ online \in [Window -> BOOLEAN]
              /\ channel \in [Window -> Seq(Event)]
              /\ fetch \in [Window -> Fetch]
              /\ viewCalls \in [Req -> ViewCall]
              /\ doubts \in [Window -> SUBSET {"missed", "event", "answer", "rollback", "refetch"}]

ViewInit == /\ rows = [x \in Row |-> [status |-> 0, note |-> 0]]
            /\ edits = 0
            /\ view = [w \in Window |-> NoView]
            /\ online = [w \in Window |-> FALSE]
            /\ channel = [w \in Window |-> <<>>]
            /\ fetch = [w \in Window |-> NoFetch]
            /\ viewCalls = [r \in Req |-> Idle]
            /\ doubts = [w \in Window |-> {}]

EditAt(r, at) == viewCalls[r].op = "edit" /\ viewCalls[r].at = at
Doubt(w, kind) == doubts' = [doubts EXCEPT ![w] = @ \cup {kind}]
Unsound(f) == IF f.at = "read" THEN [f EXCEPT !.sound = FALSE] ELSE f

\* Something else changes the copy of w.
Disturb(calls, w) == [r \in Req |-> IF calls[r] # Idle /\ calls[r].win = w
                                     THEN [calls[r] EXCEPT !.alone = FALSE] ELSE calls[r]]

-----------------------------------------------------------------------------
(***************************************************************************)
(* Queries                                                                 *)
(***************************************************************************)
\* The page opens, is opened again when its copy is stale, or an event says
\* that evidence was added.
FetchStart(w) == /\ fetch[w] = NoFetch
                 /\ fetch' = [fetch EXCEPT ![w] = [at |-> "sent"]]
                 /\ UNCHANGED <<rows, edits, view, online, channel, viewCalls, doubts>>

FetchRead(w) ==
  /\ fetch[w].at = "sent"
  /\ fetch' = [fetch EXCEPT ![w] = [at |-> "read", rows |-> rows, sound |-> TRUE]]
  /\ UNCHANGED <<rows, edits, view, online, channel, viewCalls, doubts>>

FetchApply(w) ==
  /\ fetch[w].at = "read"
  /\ view' = [view EXCEPT ![w] = fetch[w].rows]
  /\ doubts' = [doubts EXCEPT ![w] = IF fetch[w].sound THEN {} ELSE @ \cup {"refetch"}]
  /\ fetch' = [fetch EXCEPT ![w] = NoFetch]
  /\ viewCalls' = Disturb(viewCalls, w)
  /\ UNCHANGED <<rows, edits, online, channel>>

-----------------------------------------------------------------------------
(***************************************************************************)
(* Edits                                                                   *)
(***************************************************************************)
\* Begins an edit.
EditBegin(r, w, x, sent) ==
  /\ viewCalls[r] = Idle /\ edits < MaxEdits
  /\ edits' = edits + 1
  /\ viewCalls' = [Disturb(viewCalls, w) EXCEPT ![r] =
       [op |-> "edit", at |-> "write", win |-> w, row |-> x, sent |-> sent,
        before |-> IF w = Agent THEN NoView ELSE view[w],
        alone |-> ~\E d \in Req : viewCalls[d] # Idle /\ viewCalls[d].win = w]]
  /\ UNCHANGED <<rows, online, channel, doubts>>

\* A click on a status sends the note shown, an edit of the note the status
\* shown.  onMutate: the query is cancelled, the copy is kept and patched.
EditStart(r) == \E w \in Window, x \in Row :
  /\ view[w] # NoView
  /\ \E sent \in {[view[w][x] EXCEPT !.status = edits + 1], [view[w][x] EXCEPT !.note = edits + 1],
                  [view[w][x] EXCEPT !.note = 0]} :
       /\ EditBegin(r, w, x, sent)
       /\ view' = [view EXCEPT ![w][x] = sent]
  /\ fetch' = [fetch EXCEPT ![w] = NoFetch]

\* An agent, or a page that is not shown here, edits through the API.
AgentEditStart(r) == \E x \in Row : \E note \in {0, edits + 1, rows[x].note} :
  /\ EditBegin(r, Agent, x, [status |-> edits + 1, note |-> note])
  /\ UNCHANGED <<view, fetch>>

\* The row's update.  An empty note is left out of a request, and stays as it
\* was.
EditWrite(r) ==
  /\ EditAt(r, "write")
  /\ LET c == viewCalls[r]
         result == IF c.sent.note = 0 THEN [c.sent EXCEPT !.note = rows[c.row].note] ELSE c.sent
     IN /\ rows' = [rows EXCEPT ![c.row] = result]
        /\ viewCalls' = [viewCalls EXCEPT ![r] =
             [op |-> "edit", at |-> "publish", win |-> c.win, row |-> c.row, sent |-> c.sent,
              before |-> c.before, alone |-> c.alone, result |-> result]]
  /\ UNCHANGED <<edits, view, online, channel, fetch, doubts>>

\* The event of the row as it is now is still to come.
ToBePublished(r, x) == \E d \in Req \ {r} :
  EditAt(d, "publish") /\ viewCalls[d].row = x /\ viewCalls[d].result = rows[x]

\* Nothing that is on its way tells the latest any more.
Outdated(events) == [i \in DOMAIN events |-> [events[i] EXCEPT !.sound = FALSE]]

\* The event says what was sent, an empty note for one left out.  A failure to
\* publish is only logged, and without Redis nothing is published: any of the
\* connected windows may be missed, or all, and the edit succeeds.
EditPublish(r) ==
  /\ EditAt(r, "publish")
  /\ LET c == viewCalls[r]
         e == [row |-> c.row, content |-> c.sent,
               sound |-> \/ c.sent = rows[c.row]
                         \/ ToBePublished(r, c.row)]
     IN \E reached \in SUBSET {w \in Window : online[w]} :
          /\ channel' = [w \in Window |-> IF w \in reached THEN Append(channel[w], e)
                                          ELSE Outdated(channel[w])]
          /\ doubts' = [w \in Window |-> IF w \in reached THEN doubts[w]
                                         ELSE doubts[w] \cup {"missed"}]
          /\ fetch' = [w \in Window |-> IF w \in reached THEN fetch[w] ELSE Unsound(fetch[w])]
  /\ viewCalls' = IF viewCalls[r].win = Agent THEN End(viewCalls, r)
                  ELSE [viewCalls EXCEPT ![r].at = "answer"]
  /\ UNCHANGED <<rows, edits, view, online>>

\* onSuccess: the row of the answer replaces what the copy says by now.
EditAnswer(r) ==
  /\ EditAt(r, "answer")
  /\ LET c == viewCalls[r]
     IN /\ IF view[c.win][c.row] \in {c.sent, c.result} THEN UNCHANGED doubts
           ELSE Doubt(c.win, "answer")
        /\ view' = [view EXCEPT ![c.win][c.row] = c.result]
        /\ viewCalls' = Disturb(End(viewCalls, r), c.win)
  /\ UNCHANGED <<rows, edits, online, channel, fetch>>

\* Mutant: nothing is rolled back.
EditFailShown(r) ==
  /\ EditAt(r, "write") \/ EditAt(r, "answer")
  /\ IF EditAt(r, "answer") /\ viewCalls[r].win # Agent
     THEN Doubt(viewCalls[r].win, "rollback") ELSE UNCHANGED doubts
  /\ viewCalls' = End(viewCalls, r)
  /\ UNCHANGED <<rows, edits, view, online, channel, fetch>>

\* onError, when the write failed or only its answer was lost: all of the
\* copy is as it was before the edit, whatever it was patched with meanwhile.
EditFail(r) ==
  /\ EditAt(r, "write") \/ EditAt(r, "answer")
  /\ LET c == viewCalls[r]
     IN IF c.win = Agent THEN UNCHANGED <<view, doubts>> ELSE
        /\ IF EditAt(r, "write") /\ c.alone THEN UNCHANGED doubts ELSE Doubt(c.win, "rollback")
        /\ view' = [view EXCEPT ![c.win] = c.before]
  /\ viewCalls' = Disturb(End(viewCalls, r), viewCalls[r].win)
  /\ UNCHANGED <<rows, edits, online, channel, fetch>>

\* The server goes down with the row written: nobody hears of it, and the
\* window rolls back.
EditLost(r) ==
  /\ EditAt(r, "publish")
  /\ LET c == viewCalls[r]
     IN /\ view' = IF c.win = Agent THEN view ELSE [view EXCEPT ![c.win] = c.before]
        /\ viewCalls' = Disturb(End(viewCalls, r), c.win)
  /\ doubts' = [w \in Window |-> doubts[w] \cup {"missed"}]
  /\ fetch' = [w \in Window |-> Unsound(fetch[w])]
  /\ channel' = [w \in Window |-> Outdated(channel[w])]
  /\ UNCHANGED <<rows, edits, online>>

-----------------------------------------------------------------------------
(***************************************************************************)
(* Events                                                                  *)
(***************************************************************************)
\* The copy is patched, and marked stale without a refetch.
Deliver(w) ==
  /\ channel[w] # <<>>
  /\ LET e == Head(channel[w])
     IN /\ view' = IF view[w] = NoView THEN view
                   ELSE [view EXCEPT ![w][e.row] = e.content]
        /\ IF e.sound THEN UNCHANGED doubts ELSE Doubt(w, "event")
  /\ channel' = [channel EXCEPT ![w] = Tail(@)]
  /\ fetch' = [fetch EXCEPT ![w] = Unsound(@)]
  /\ viewCalls' = Disturb(viewCalls, w)
  /\ UNCHANGED <<rows, edits, online>>

\* Connecting again subscribes to the channels again and fetches nothing.
Connect(w) == /\ ~online[w]
              /\ online' = [online EXCEPT ![w] = TRUE]
              /\ UNCHANGED <<rows, edits, view, channel, fetch, viewCalls, doubts>>

\* The connection breaks; what was on its way is lost.
Disconnect(w) ==
  /\ online[w]
  /\ online' = [online EXCEPT ![w] = FALSE]
  /\ channel' = [channel EXCEPT ![w] = <<>>]
  /\ IF channel[w] = <<>> THEN UNCHANGED <<doubts, fetch>>
     ELSE Doubt(w, "missed") /\ fetch' = [fetch EXCEPT ![w] = Unsound(@)]
  /\ UNCHANGED <<rows, edits, view, viewCalls>>

ViewNext ==
  \/ \E r \in Req : \/ EditStart(r) \/ AgentEditStart(r) \/ EditWrite(r) \/ EditPublish(r)
                    \/ EditAnswer(r) \/ EditFail(r) \/ EditLost(r)
  \/ \E w \in Window : \/ FetchStart(w) \/ FetchRead(w) \/ FetchApply(w)
                       \/ Deliver(w) \/ Connect(w) \/ Disconnect(w)

ViewSpec == ViewInit /\ [][ViewNext]_viewVars

-----------------------------------------------------------------------------
Quiet(w) == /\ \A r \in Req : viewCalls[r] = Idle
            /\ channel[w] = <<>>
            /\ fetch[w] = NoFetch

\* When nothing is on its way a window shows the rows as they are: unless
\* since its last refetch it missed an event; got one that had been overtaken
\* by another or that reported a kept note as empty; or got the answer to an
\* edit, a rollback or a refetch after an event that was newer.
QuietViewsAgree ==
  \A w \in Window : view[w] # NoView /\ Quiet(w) /\ doubts[w] = {} => view[w] = rows

-----------------------------------------------------------------------------
\* Why: the copy of a window without doubts agrees with a row unless an edit
\* will still be published as the row is now, or an event for the row is on
\* its way; or a write is pending in the window, which will be published, or
\* fail: then the copy from before it, if nothing changed since, is the one
\* that agrees.  An answer brings the row as it was written, which differs
\* from what was sent only in a note, and rows do not lose theirs.
Coming(x) == \E d \in Req :
  EditAt(d, "publish") /\ viewCalls[d].row = x /\ viewCalls[d].result = rows[x]
NoneFor(w, x) == \A i \in DOMAIN channel[w] : channel[w][i].row # x
LastFor(w, x, i) == /\ channel[w][i].row = x
                    /\ \A j \in DOMAIN channel[w] : j > i => channel[w][j].row # x
Writing(r, w, x) == EditAt(r, "write") /\ viewCalls[r].win = w /\ viewCalls[r].row = x
Agrees(w, x) ==
  \/ Coming(x)
  \/ /\ (\E r \in Req : Writing(r, w, x)) \/ view[w][x] = rows[x]
     /\ \A r \in Req : Writing(r, w, x) /\ viewCalls[r].alone => viewCalls[r].before[x] = rows[x]

OfflineHearNothing == \A w \in Window : ~online[w] => channel[w] = <<>>
EventsTell == \A w \in Window, x \in Row : \A i \in DOMAIN channel[w] :
  LastFor(w, x, i) => \/ Coming(x)
                      \/ ~channel[w][i].sound
                      \/ channel[w][i].content = rows[x]
FetchesTell == \A w \in Window, x \in Row :
  fetch[w].at = "read" /\ NoneFor(w, x) /\ fetch[w].sound => Coming(x) \/ fetch[w].rows[x] = rows[x]
ViewsTell == \A w \in Window, x \in Row :
  view[w] # NoView /\ doubts[w] = {} /\ NoneFor(w, x) => Agrees(w, x)
EditsHaveViews == \A r \in Req : viewCalls[r] # Idle /\ viewCalls[r].win # Agent =>
  /\ view[viewCalls[r].win] \in Copy /\ viewCalls[r].before \in Copy
  /\ view[viewCalls[r].win] # NoView
  /\ viewCalls[r].alone =>
       /\ \A d \in Req \ {r} : viewCalls[d] # Idle => viewCalls[d].win # viewCalls[r].win
       /\ viewCalls[r].at = "write" => \A y \in Row \ {viewCalls[r].row} :
            view[viewCalls[r].win][y] = viewCalls[r].before[y]
NotesStay == \A r \in Req : EditAt(r, "publish") \/ EditAt(r, "answer") =>
  \/ viewCalls[r].result = viewCalls[r].sent
  \/ viewCalls[r].sent.note = 0 /\ rows[viewCalls[r].row].note # 0
AgentsDoNotWait == \A r \in Req : EditAt(r, "answer") => viewCalls[r].win # Agent
ViewInv == /\ ViewTypeOK /\ OfflineHearNothing /\ EventsTell /\ FetchesTell /\ ViewsTell
           /\ EditsHaveViews /\ NotesStay /\ AgentsDoNotWait
=============================================================================
