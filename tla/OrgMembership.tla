--------------------------- MODULE OrgMembership ----------------------------
(***************************************************************************)
(* One organization: its members with their roles and its invitations      *)
(* (apps/api organization.service.ts).  Every request reads, decides and   *)
(* writes; the role the middleware asks for is read first, the rows the    *)
(* service looks at next, and the write comes last.  A write or            *)
(* transaction is one step: what it writes does not depend on reads inside *)
(* it, and row locks keep two of them apart.                               *)
(***************************************************************************)
EXTENDS Requests

CONSTANTS Person,     \* users with an account; e-mail addresses are theirs
          Founder,    \* who created the organization
          GivenRole,  \* the roles given by invitation and change of role
          Invitation  \* ids of invitations: bounds the rows at any time

ASSUME FounderAssumption == Founder \in Person
ASSUME GivenRoleAssumption == GivenRole \subseteq {"ADMIN", "MEMBER"}

VARIABLES role,         \* role[p]: the role of p's member row, or "none"
          org,          \* "live", or how long it has been deleted
          invitations,  \* invitations[i]: the row, or NoRow
          orgCalls,     \* orgCalls[r]: the request in slot r
          overlapped    \* history: the kinds of requests that overlapped

orgVars == <<role, org, invitations, orgCalls, overlapped>>

-----------------------------------------------------------------------------
NoRow == [to |-> "nobody"]

\* `uses` counts acceptances, where the row has the time of the last one.
InvitationRow == [to : Person, role : GivenRole, uses : 0 .. 2,
                  declined : BOOLEAN, expired : BOOLEAN]
OrgCall == {Idle}
  \cup [op : {"role"}, at : {"find", "write"}, who : Person, role : GivenRole]
  \cup [op : {"remove"}, at : {"find", "write"}, who : Person]
  \cup [op : {"transfer"}, at : {"find", "successor", "write"}, by : Person, who : Person]
  \cup [op : {"invite"}, at : {"find", "write"}, who : Person, role : GivenRole]
  \cup [op : {"accept", "decline"}, at : {"write"}, inv : Invitation]
  \cup [op : {"cancel"}, at : {"find", "write"}, inv : Invitation]
  \cup [op : {"delete", "restore"}, at : {"find", "write"}]

\* One type invariant for the component.
OrgTypeOK == /\ role \in [Person -> {"none", "OWNER", "ADMIN", "MEMBER"}]
             /\ org \in {"live", "deleted", "overdue"}
             /\ invitations \in [Invitation -> InvitationRow \cup {NoRow}]
             /\ orgCalls \in [Req -> OrgCall]
             /\ overlapped \subseteq {"transfer", "answer", "invite"}

\* create: the founder is the owner.
OrgInit == /\ role = [p \in Person |-> IF p = Founder THEN "OWNER" ELSE "none"]
           /\ org = "live"
           /\ invitations = [i \in Invitation |-> NoRow]
           /\ orgCalls = [r \in Req |-> Idle]
           /\ overlapped = {}

Exists(i) == invitations[i] # NoRow
Unanswered(i) == Exists(i) /\ invitations[i].uses = 0 /\ ~invitations[i].declined
Pending(i) == Unanswered(i) /\ ~invitations[i].expired

At(r, op, at) == orgCalls[r].op = op /\ orgCalls[r].at = at
GoTo(r, at) == orgCalls' = [orgCalls EXCEPT ![r].at = at]
Leave(r) == orgCalls' = End(orgCalls, r)
OrgStart(r, call) == /\ orgCalls[r] = Idle
                     /\ orgCalls' = [orgCalls EXCEPT ![r] = call]
                     /\ UNCHANGED <<role, org, invitations, overlapped>>

\* A check that ends the request or lets it go on.
OrgCheck(r, ok, at) == /\ IF ok THEN GoTo(r, at) ELSE Leave(r)
                       /\ UNCHANGED <<role, org, invitations, overlapped>>

\* Other requests that have passed their check.
Waiting(r) == {d \in Req \ {r} : orgCalls[d] # Idle /\ orgCalls[d].at # "find"}

-----------------------------------------------------------------------------
(***************************************************************************)
(* Arrival: requireOrgRole reads the caller's role.                        *)
(***************************************************************************)
MayManage == org = "live" /\ \E p \in Person : role[p] \in {"OWNER", "ADMIN"}
IsOwner(p) == role[p] = "OWNER"

OrgRequest(r) ==
  \/ /\ MayManage
     /\ \E p \in Person :
          \/ \E g \in GivenRole :
               \/ OrgStart(r, [op |-> "role", at |-> "find", who |-> p, role |-> g])
               \/ OrgStart(r, [op |-> "invite", at |-> "find", who |-> p, role |-> g])
          \/ OrgStart(r, [op |-> "remove", at |-> "find", who |-> p])
  \/ /\ MayManage
     /\ \E i \in Invitation : OrgStart(r, [op |-> "cancel", at |-> "find", inv |-> i])
  \/ /\ org = "live"
     /\ \E p, q \in Person :
          /\ IsOwner(p) /\ p # q
          /\ OrgStart(r, [op |-> "transfer", at |-> "find", by |-> p, who |-> q])
  \/ /\ \E p \in Person : IsOwner(p)
     /\ \/ org = "live" /\ OrgStart(r, [op |-> "delete", at |-> "find"])
        \/ OrgStart(r, [op |-> "restore", at |-> "find"])

\* The owner's member row, then the successor's.
TransferFind(r) ==
  /\ At(r, "transfer", "find")
  /\ OrgCheck(r, org = "live" /\ IsOwner(orgCalls[r].by), "successor")

TransferSuccessor(r) ==
  /\ At(r, "transfer", "successor")
  /\ OrgCheck(r, role[orgCalls[r].who] # "none", "write")

\* The transaction; it fails when one of the rows is gone.
TransferWrite(r) ==
  /\ At(r, "transfer", "write")
  /\ LET c == orgCalls[r]
     IN IF "none" \in {role[c.by], role[c.who]}
        THEN UNCHANGED <<role, overlapped>>
        ELSE /\ role' = [role EXCEPT ![c.by] = "ADMIN", ![c.who] = "OWNER"]
             /\ overlapped' = overlapped \cup
                  {"transfer" : d \in {d \in Waiting(r) :
                      \/ orgCalls[d].op = "transfer"
                      \/ orgCalls[d].op \in {"role", "remove"} /\ orgCalls[d].who = c.who}}
  /\ Leave(r)
  /\ UNCHANGED <<org, invitations>>

\* Mutant: the owner's row is not protected.
RoleFindAny(r) ==
  /\ At(r, "role", "find")
  /\ OrgCheck(r, role[orgCalls[r].who] # "none", "write")

RoleFind(r) ==
  /\ At(r, "role", "find")
  /\ OrgCheck(r, role[orgCalls[r].who] \in {"ADMIN", "MEMBER"}, "write")

RoleWrite(r) ==
  /\ At(r, "role", "write")
  /\ LET c == orgCalls[r]
     IN role' = [role EXCEPT ![c.who] = IF @ = "none" THEN @ ELSE c.role]
  /\ Leave(r)
  /\ UNCHANGED <<org, invitations, overlapped>>

RemoveFind(r) ==
  /\ At(r, "remove", "find")
  /\ OrgCheck(r, role[orgCalls[r].who] \in {"ADMIN", "MEMBER"}, "write")

RemoveWrite(r) ==
  /\ At(r, "remove", "write")
  /\ role' = [role EXCEPT ![orgCalls[r].who] = "none"]
  /\ Leave(r)
  /\ UNCHANGED <<org, invitations, overlapped>>

-----------------------------------------------------------------------------
(***************************************************************************)
(* Invitations.  Accepting and declining start with the row itself: the    *)
(* token is all the authorization they ask for.                            *)
(***************************************************************************)
\* Mutant: an unanswered invitation that ran out is in the way, one that is
\* pending is not.
InviteFindExpired(r) ==
  /\ At(r, "invite", "find")
  /\ LET p == orgCalls[r].who
     IN OrgCheck(r, /\ org = "live" /\ role[p] = "none"
                    /\ \A i \in Invitation : Unanswered(i) /\ ~Pending(i)
                                               => invitations[i].to # p, "write")

InviteFind(r) ==
  /\ At(r, "invite", "find")
  /\ LET p == orgCalls[r].who
     IN OrgCheck(r, /\ org = "live" /\ role[p] = "none"
                    /\ \A i \in Invitation : Pending(i) => invitations[i].to # p, "write")

InviteWrite(r) ==
  /\ At(r, "invite", "write")
  /\ \E i \in Invitation :
       /\ ~Exists(i)
       /\ invitations' = [invitations EXCEPT ![i] =
            [to |-> orgCalls[r].who, role |-> orgCalls[r].role, uses |-> 0,
             declined |-> FALSE, expired |-> FALSE]]
  /\ overlapped' = overlapped \cup
       {"invite" : d \in {d \in Waiting(r) : /\ orgCalls[d].op = "invite"
                                             /\ orgCalls[d].who = orgCalls[r].who}}
  /\ Leave(r)
  /\ UNCHANGED <<role, org>>

\* Mutant: only declined invitations are closed.
AnswerFindUsed(r) ==
  \E i \in Invitation, o \in {"accept", "decline"} :
    /\ Exists(i) /\ ~invitations[i].declined /\ ~invitations[i].expired
    /\ OrgStart(r, [op |-> o, at |-> "write", inv |-> i])

\* The invitation is found open and meant for the caller.
AnswerFind(r) ==
  \E i \in Invitation, o \in {"accept", "decline"} :
    /\ Pending(i)
    /\ OrgStart(r, [op |-> o, at |-> "write", inv |-> i])

CancelFind(r) ==
  /\ At(r, "cancel", "find")
  /\ OrgCheck(r, Unanswered(orgCalls[r].inv), "write")

\* Another answer to the same invitation has passed its check.
Answered(r) ==
  overlapped' = overlapped \cup
    {"answer" : d \in {d \in Waiting(r) : /\ orgCalls[d].op \in {"accept", "decline", "cancel"}
                                          /\ orgCalls[d].inv = orgCalls[r].inv}}

\* The transaction of acceptInvitation: it fails when the invitation is gone
\* or the member row exists.
AcceptWrite(r) ==
  /\ At(r, "accept", "write")
  /\ LET i == orgCalls[r].inv
         p == invitations[i].to
     IN IF Exists(i) /\ role[p] = "none"
        THEN /\ invitations' = [invitations EXCEPT ![i].uses = IF @ = 2 THEN 2 ELSE @ + 1]
             /\ role' = [role EXCEPT ![p] = invitations[i].role]
             /\ Answered(r)
        ELSE UNCHANGED <<invitations, role, overlapped>>
  /\ Leave(r)
  /\ UNCHANGED org

DeclineWrite(r) ==
  /\ At(r, "decline", "write")
  /\ LET i == orgCalls[r].inv
     IN IF Exists(i) THEN /\ invitations' = [invitations EXCEPT ![i].declined = TRUE]
                          /\ Answered(r)
                     ELSE UNCHANGED <<invitations, overlapped>>
  /\ Leave(r)
  /\ UNCHANGED <<role, org>>

CancelWrite(r) ==
  /\ At(r, "cancel", "write")
  /\ IF Exists(orgCalls[r].inv)
     THEN /\ invitations' = [invitations EXCEPT ![orgCalls[r].inv] = NoRow]
          /\ Answered(r)
     ELSE UNCHANGED <<invitations, overlapped>>
  /\ Leave(r)
  /\ UNCHANGED <<role, org>>

\* Seven days pass.
InvitationExpires(i) ==
  /\ Pending(i)
  /\ invitations' = [invitations EXCEPT ![i].expired = TRUE]
  /\ UNCHANGED <<role, org, orgCalls, overlapped>>

-----------------------------------------------------------------------------
(***************************************************************************)
(* Deletion with thirty days of grace.                                     *)
(***************************************************************************)
DeleteFind(r) == At(r, "delete", "find") /\ OrgCheck(r, org = "live", "write")
DeleteWrite(r) == /\ At(r, "delete", "write")
                  /\ org' = "deleted"
                  /\ Leave(r)
                  /\ UNCHANGED <<role, invitations, overlapped>>
RestoreFind(r) == At(r, "restore", "find") /\ OrgCheck(r, org = "deleted", "write")
RestoreWrite(r) == /\ At(r, "restore", "write")
                   /\ org' = "live"
                   /\ Leave(r)
                   /\ UNCHANGED <<role, invitations, overlapped>>
GraceEnds == /\ org = "deleted"
             /\ org' = "overdue"
             /\ UNCHANGED <<role, invitations, orgCalls, overlapped>>

OrgHandle(r) ==
  \/ OrgRequest(r) \/ AnswerFind(r)
  \/ TransferFind(r) \/ TransferSuccessor(r) \/ TransferWrite(r)
  \/ RoleFind(r) \/ RoleWrite(r) \/ RemoveFind(r) \/ RemoveWrite(r)
  \/ InviteFind(r) \/ InviteWrite(r) \/ CancelFind(r)
  \/ AcceptWrite(r) \/ DeclineWrite(r) \/ CancelWrite(r)
  \/ DeleteFind(r) \/ DeleteWrite(r) \/ RestoreFind(r) \/ RestoreWrite(r)

OrgNext == \/ \E r \in Req : OrgHandle(r)
           \/ \E i \in Invitation : InvitationExpires(i)
           \/ GraceEnds

OrgSpec == OrgInit /\ [][OrgNext]_orgVars

-----------------------------------------------------------------------------
\* There is exactly one owner, although the transfer checks both rows before
\* its transaction and role changes and removals check theirs before they
\* write: unless a transfer committed while another transfer, or a change of
\* its successor's row, had passed its check.
SingleOwner ==
  "transfer" \notin overlapped =>
    \E p \in Person : IsOwner(p) /\ \A q \in Person : IsOwner(q) => q = p

\* An invitation is settled once: it lets one person in, once, or is
\* declined; who is a member was let in by an invitation that stands, also
\* after a removal and a second invitation.  Unless two answers to one
\* invitation had both passed their check.
InvitationsSettleOnce ==
  "answer" \notin overlapped =>
    /\ \A i \in Invitation : Exists(i) => /\ invitations[i].uses <= 1
                                          /\ invitations[i].declined => invitations[i].uses = 0
    /\ \A p \in Person \ {Founder} : role[p] # "none" =>
         \E i \in Invitation : Exists(i) /\ invitations[i].to = p /\ invitations[i].uses = 1

\* Nobody has two pending invitations, unless two requests to invite the
\* same address had both found none.
OnePendingInvitation ==
  "invite" \notin overlapped =>
    \A i, j \in Invitation : Pending(i) /\ Pending(j) /\ invitations[i].to = invitations[j].to
                               => i = j
-----------------------------------------------------------------------------
\* Why they hold: what a request found before its last step still holds when
\* it takes it, as long as no overlap has been seen.
TransfersApart == \A r \in Req : orgCalls[r].op = "transfer" => orgCalls[r].by # orgCalls[r].who
OwnersFound ==
  "transfer" \notin overlapped =>
    \A r \in Req :
      /\ At(r, "role", "write") \/ At(r, "remove", "write") => ~IsOwner(orgCalls[r].who)
      /\ At(r, "transfer", "successor") \/ At(r, "transfer", "write") => IsOwner(orgCalls[r].by)
Answering(r) == At(r, "accept", "write") \/ At(r, "decline", "write") \/ At(r, "cancel", "write")
AnswersFound ==
  "answer" \notin overlapped =>
    \A r \in Req : Answering(r) => Unanswered(orgCalls[r].inv)
InvitesFound ==
  "invite" \notin overlapped =>
    \A r \in Req, i \in Invitation :
      At(r, "invite", "write") /\ Pending(i) => invitations[i].to # orgCalls[r].who

\* The inductive invariant of the component.
OrgInv == /\ OrgTypeOK /\ TransfersApart /\ OwnersFound /\ SingleOwner
          /\ AnswersFound /\ InvitationsSettleOnce /\ InvitesFound /\ OnePendingInvitation
=============================================================================
