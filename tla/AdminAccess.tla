---------------------------- MODULE AdminAccess -----------------------------
(***************************************************************************)
(* The administrators of the system (apps/api system-admin.service.ts and  *)
(* setup.controller.ts): their rows, the invitations to become one, and    *)
(* the copy of a row that Redis keeps for the detail page.  A request      *)
(* passes the middleware, reads, decides and writes; changes are followed  *)
(* by the invalidation of the copy.  A request may fail after any step.    *)
(***************************************************************************)
EXTENDS Requests

CONSTANTS Admin,   \* e-mail addresses an administrator may have
          AdminInvitation

VARIABLES admins,        \* admins[a]: the row, or NoAdmin
          adminInv,      \* adminInv[i]: the row, or NoAdmin
          detail,        \* detail[a]: what Redis caches of the row, or NoAdmin
          adminCalls,    \* adminCalls[r]: the request in slot r
          adminOverlap   \* history: the kinds of requests that overlapped

adminVars == <<admins, adminInv, detail, adminCalls, adminOverlap>>

-----------------------------------------------------------------------------
AdminRole == {"SUPER_ADMIN", "ADMIN"}  \* VIEWER is like ADMIN here
NoAdmin == [role |-> "none"]
AdminRow == [role : AdminRole, deleted : BOOLEAN]
AdminInvRow == [to : Admin, role : AdminRole, accepted : BOOLEAN, expired : BOOLEAN]
AdminCall == {Idle}
  \cup [op : {"update"}, at : {"find", "write", "invalidate"}, by : Admin, who : Admin,
        role : AdminRole]
  \cup [op : {"remove"}, at : {"find", "write", "invalidate"}, who : Admin]
  \cup [op : {"invite"}, at : {"find", "write"}, who : Admin, role : AdminRole]
  \cup [op : {"accept"}, at : {"lookup", "update", "create", "mark"}, inv : AdminInvitation]
  \cup [op : {"view"}, at : {"fill"}, who : Admin, row : AdminRow]

\* One type invariant for the component.
AdminTypeOK == /\ admins \in [Admin -> AdminRow \cup {NoAdmin}]
               /\ adminInv \in [AdminInvitation -> AdminInvRow \cup {NoAdmin}]
               /\ detail \in [Admin -> AdminRow \cup {NoAdmin}]
               /\ adminCalls \in [Req -> AdminCall]
               /\ adminOverlap \subseteq {"demotion", "activation", "fill", "crash"}

Active(a) == admins[a] # NoAdmin /\ ~admins[a].deleted
Super(a) == Active(a) /\ admins[a].role = "SUPER_ADMIN"
SuperAdmins == {a \in Admin : Super(a)}
Acceptable(i) == adminInv[i] # NoAdmin /\ ~adminInv[i].accepted /\ ~adminInv[i].expired

\* An id of the model stands for a new row once the old one is settled and
\* no request refers to it.
Reusable(i) == /\ ~Acceptable(i)
               /\ \A r \in Req : adminCalls[r].op = "accept" => adminCalls[r].inv # i

\* Before the initial setup.
AdminInit == /\ admins = [a \in Admin |-> NoAdmin]
             /\ adminInv = [i \in AdminInvitation |-> NoAdmin]
             /\ detail = [a \in Admin |-> NoAdmin]
             /\ adminCalls = [r \in Req |-> Idle]
             /\ adminOverlap = {}

AdminAt(r, op, at) == adminCalls[r].op = op /\ adminCalls[r].at = at
AdminTo(r, at) == adminCalls' = [adminCalls EXCEPT ![r].at = at]
AdminLeave(r) == adminCalls' = End(adminCalls, r)
AdminStart(r, call) == /\ adminCalls[r] = Idle
                       /\ adminCalls' = [adminCalls EXCEPT ![r] = call]
                       /\ UNCHANGED <<admins, adminInv, detail, adminOverlap>>
AdminCheck(r, ok, at) == /\ IF ok THEN AdminTo(r, at) ELSE AdminLeave(r)
                         /\ UNCHANGED <<admins, adminInv, detail, adminOverlap>>

\* A request past its check that will take somebody's rank, and the others
\* of that kind.
Demotes(d) == \/ AdminAt(d, "remove", "write")
              \/ AdminAt(d, "update", "write") /\ adminCalls[d].role = "ADMIN"
Demoting(r) == {d \in Req \ {r} : Demotes(d)}

\* Copies of row a that have been read and not yet cached.
Filling(a) == {d \in Req : adminCalls[d].op = "view" /\ adminCalls[d].who = a}

\* The row of a changes; `kinds` are overlaps to be remembered.
SetRow(a, row, kinds) ==
  /\ admins' = [admins EXCEPT ![a] = row]
  /\ adminOverlap' = adminOverlap \cup kinds \cup {"fill" : d \in Filling(a)}

-----------------------------------------------------------------------------
\* setup: counts and creates in one serializable transaction.
Setup(a) ==
  /\ \A b \in Admin : ~Active(b)
  /\ admins[a] = NoAdmin
  /\ SetRow(a, [role |-> "SUPER_ADMIN", deleted |-> FALSE], {})
  /\ UNCHANGED <<adminInv, detail, adminCalls>>

\* requireAdminAuth and requireSuperAdmin.
AdminRequest(r) ==
  \E b \in SuperAdmins, a \in Admin :
    \/ \E g \in AdminRole :
         \/ AdminStart(r, [op |-> "update", at |-> "find", by |-> b, who |-> a, role |-> g])
         \/ AdminStart(r, [op |-> "invite", at |-> "find", who |-> a, role |-> g])
    \/ b # a /\ AdminStart(r, [op |-> "remove", at |-> "find", who |-> a])

\* Mutant: the last one may be demoted.
UpdateFindUncounted(r) ==
  /\ AdminAt(r, "update", "find")
  /\ LET c == adminCalls[r]
     IN AdminCheck(r, Active(c.who) /\ (c.role = admins[c.who].role \/ c.by # c.who), "write")

\* The target, and the number of its kind when it loses its rank.
UpdateFind(r) ==
  /\ AdminAt(r, "update", "find")
  /\ LET c == adminCalls[r]
     IN AdminCheck(r, /\ Active(c.who)
                      /\ c.role # admins[c.who].role =>
                           c.by # c.who /\ (Super(c.who) => Cardinality(SuperAdmins) > 1),
                   "write")

UpdateWrite(r) ==
  /\ AdminAt(r, "update", "write")
  /\ LET c == adminCalls[r]
     IN SetRow(c.who, [admins[c.who] EXCEPT !.role = c.role],
               {"demotion" : d \in {d \in Demoting(r) : c.role = "ADMIN"}})
  /\ AdminTo(r, "invalidate")
  /\ UNCHANGED <<adminInv, detail>>

RemoveAdminFind(r) ==
  /\ AdminAt(r, "remove", "find")
  /\ LET a == adminCalls[r].who
     IN AdminCheck(r, Active(a) /\ (Super(a) => Cardinality(SuperAdmins) > 1), "write")

RemoveAdminWrite(r) ==
  /\ AdminAt(r, "remove", "write")
  /\ LET a == adminCalls[r].who
     IN SetRow(a, [admins[a] EXCEPT !.deleted = TRUE], {"demotion" : d \in Demoting(r)})
  /\ AdminTo(r, "invalidate")
  /\ UNCHANGED <<adminInv, detail>>

\* Mutant: the copy stays.
InvalidateNothing(r) ==
  /\ \E o \in {"update", "remove"} : AdminAt(r, o, "invalidate")
  /\ AdminLeave(r)
  /\ UNCHANGED <<admins, adminInv, detail, adminOverlap>>

Invalidate(r) ==
  /\ \E o \in {"update", "remove"} : AdminAt(r, o, "invalidate")
  /\ detail' = [detail EXCEPT ![adminCalls[r].who] = NoAdmin]
  /\ AdminLeave(r)
  /\ UNCHANGED <<admins, adminInv, adminOverlap>>

InviteAdminFind(r) ==
  /\ AdminAt(r, "invite", "find")
  /\ LET a == adminCalls[r].who
     IN AdminCheck(r, ~Active(a) /\ \A i \in AdminInvitation :
                                      Acceptable(i) => adminInv[i].to # a, "write")

InviteAdminWrite(r) ==
  /\ AdminAt(r, "invite", "write")
  /\ \E i \in AdminInvitation :
       /\ Reusable(i)
       /\ adminInv' = [adminInv EXCEPT ![i] = [to |-> adminCalls[r].who,
            role |-> adminCalls[r].role, accepted |-> FALSE, expired |-> FALSE]]
  /\ AdminLeave(r)
  /\ UNCHANGED <<admins, detail, adminOverlap>>

\* The invitation is found open; bcrypt runs; the user is looked up.
AcceptFind(r) == \E i \in AdminInvitation :
  /\ Acceptable(i)
  /\ AdminStart(r, [op |-> "accept", at |-> "lookup", inv |-> i])

AcceptLookup(r) ==
  /\ AdminAt(r, "accept", "lookup")
  /\ AdminTo(r, IF admins[adminInv[adminCalls[r].inv].to] = NoAdmin THEN "create" ELSE "update")
  /\ UNCHANGED <<admins, adminInv, detail, adminOverlap>>

\* One transaction restores the row and settles the invitation; only the
\* cached lists are invalidated.
AcceptUpdate(r) ==
  /\ AdminAt(r, "accept", "update")
  /\ LET i == adminCalls[r].inv
         a == adminInv[i].to
     IN /\ SetRow(a, [role |-> adminInv[i].role, deleted |-> FALSE],
                  IF Active(a) \/ detail[a] # NoAdmin THEN {"activation"} ELSE {})
        /\ adminInv' = [adminInv EXCEPT ![i].accepted = TRUE]
  /\ AdminLeave(r)
  /\ UNCHANGED detail

\* A new row, unless the unique e-mail is taken meanwhile; the invitation is
\* settled in a transaction of its own.
AcceptCreate(r) ==
  /\ AdminAt(r, "accept", "create")
  /\ LET i == adminCalls[r].inv
     IN IF admins[adminInv[i].to] = NoAdmin
        THEN /\ SetRow(adminInv[i].to, [role |-> adminInv[i].role, deleted |-> FALSE], {})
             /\ AdminTo(r, "mark")
        ELSE AdminLeave(r) /\ UNCHANGED <<admins, adminOverlap>>
  /\ UNCHANGED <<adminInv, detail>>

AcceptMark(r) ==
  /\ AdminAt(r, "accept", "mark")
  /\ adminInv' = [adminInv EXCEPT ![adminCalls[r].inv].accepted = TRUE]
  /\ AdminLeave(r)
  /\ UNCHANGED <<admins, detail, adminOverlap>>

\* The detail page: a miss reads the row, and caches it after the answer.
ViewRead(r) == \E a \in Admin :
  /\ detail[a] = NoAdmin /\ admins[a] # NoAdmin
  /\ AdminStart(r, [op |-> "view", at |-> "fill", who |-> a, row |-> admins[a]])

ViewFill(r) ==
  /\ AdminAt(r, "view", "fill")
  /\ detail' = [detail EXCEPT ![adminCalls[r].who] = adminCalls[r].row]
  /\ AdminLeave(r)
  /\ UNCHANGED <<admins, adminInv, adminOverlap>>

\* An error or a crash between two steps.
AdminAbort(r) ==
  /\ adminCalls[r] # Idle
  /\ adminOverlap' = adminOverlap \cup {"crash" : d \in {d \in {r} : adminCalls[d].at = "invalidate"}}
  /\ AdminLeave(r)
  /\ UNCHANGED <<admins, adminInv, detail>>

AdminInvExpires(i) ==
  /\ Acceptable(i)
  /\ adminInv' = [adminInv EXCEPT ![i].expired = TRUE]
  /\ UNCHANGED <<admins, detail, adminCalls, adminOverlap>>

\* The time to live of a cached row ends.
DetailExpires(a) ==
  /\ detail[a] # NoAdmin
  /\ detail' = [detail EXCEPT ![a] = NoAdmin]
  /\ UNCHANGED <<admins, adminInv, adminCalls, adminOverlap>>

AdminHandle(r) ==
  \/ AdminRequest(r) \/ AcceptFind(r) \/ ViewRead(r)
  \/ UpdateFind(r) \/ UpdateWrite(r) \/ RemoveAdminFind(r) \/ RemoveAdminWrite(r)
  \/ Invalidate(r) \/ InviteAdminFind(r) \/ InviteAdminWrite(r)
  \/ AcceptLookup(r) \/ AcceptUpdate(r) \/ AcceptCreate(r) \/ AcceptMark(r)
  \/ ViewFill(r) \/ AdminAbort(r)

AdminNext == \/ \E r \in Req : AdminHandle(r)
             \/ \E a \in Admin : Setup(a) \/ DetailExpires(a)
             \/ \E i \in AdminInvitation : AdminInvExpires(i)

AdminSpec == AdminInit /\ [][AdminNext]_adminVars

-----------------------------------------------------------------------------
\* Once set up, the system keeps a super administrator, although every
\* request counts them before it writes: unless one lost its rank while
\* another such request had counted, or an invitation was accepted for a row
\* that is already active.
SuperAdminRemains ==
  {"demotion", "activation"} \cap adminOverlap = {} =>
    ((\E a \in Admin : admins[a] # NoAdmin) => SuperAdmins # {})

\* What Redis shows of an administrator is the row, or its change is about
\* to be invalidated: unless a row was changed between being read and cached,
\* or reactivated, which invalidates only the lists, or a request failed
\* between the two.
DetailIsCurrent ==
  {"fill", "activation", "crash"} \cap adminOverlap = {} =>
    \A a \in Admin : detail[a] \in {NoAdmin, admins[a]} \/
      \E r \in Req : adminCalls[r] # Idle /\ adminCalls[r].at = "invalidate" /\ adminCalls[r].who = a

-----------------------------------------------------------------------------
\* Why: an invitation and a request come from somebody who was there, and rows
\* stay; whoever has counted another super administrator still has one, as
\* the next to lose the rank would have been an overlap; and a copy on its way
\* to Redis is the row, for the same reason.
Founded == (\E i \in AdminInvitation : adminInv[i] # NoAdmin) \/ (\E r \in Req : adminCalls[r] # Idle)
             => \E a \in Admin : admins[a] # NoAdmin
RowsFound == \A r \in Req :
  LET c == adminCalls[r]
  IN /\ c.op \in {"update", "remove"} /\ c.at # "find" => admins[c.who] # NoAdmin
     /\ c.op = "accept" => adminInv[c.inv] # NoAdmin
RanksCounted ==
  /\ (\E a \in Admin : admins[a] # NoAdmin) => SuperAdmins # {}
  /\ \A r \in Req : Demotes(r) => SuperAdmins # {adminCalls[r].who}
CopiesCurrent ==
  /\ \A r \in Req : adminCalls[r].op = "view" => adminCalls[r].row = admins[adminCalls[r].who]
  /\ \A a \in Admin : detail[a] \in {NoAdmin, admins[a]} \/
       \E r \in Req : adminCalls[r] # Idle /\ adminCalls[r].at = "invalidate" /\ adminCalls[r].who = a

AdminInv == /\ AdminTypeOK /\ Founded /\ RowsFound
            /\ {"demotion", "activation"} \cap adminOverlap = {} => RanksCounted
            /\ {"fill", "activation", "crash"} \cap adminOverlap = {} => CopiesCurrent
=============================================================================
