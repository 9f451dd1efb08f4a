---------------------------- MODULE AccessProofs ----------------------------
(***************************************************************************)
(* Proofs about who has access: the members of an organization, the        *)
(* administrators of the system, and the users' ways to log in.  OrgInv,   *)
(* AdminInv and AccountInv are inductive, for any number of requests,      *)
(* people, invitations, providers and mailed tokens.                       *)
(***************************************************************************)
EXTENDS OrgMembership, AdminAccess, UserAccount, FiniteSetTheorems, TLAPS

-----------------------------------------------------------------------------
(***************************************************************************)
(* Organizations: members and invitations                                  *)
(***************************************************************************)
\* A row is never taken for the absence of one.
LEMMA InvitationsAreThere == NoRow \notin InvitationRow
<1> SUFFICES ASSUME NoRow \in InvitationRow PROVE FALSE
  OBVIOUS
<1>1. DOMAIN NoRow = {"to"}
  BY DEF NoRow
<1>2. "uses" \in DOMAIN NoRow
  BY DEF InvitationRow
<1> QED BY <1>1, <1>2

LEMMA ExistingRow ==
  ASSUME OrgTypeOK, NEW i \in Invitation, Exists(i)
  PROVE  invitations[i] \in InvitationRow
BY DEF OrgTypeOK, Exists

LEMMA OrgInitInv == OrgInit => OrgInv
<1> SUFFICES ASSUME OrgInit PROVE OrgInv
  OBVIOUS
<1>1. OrgTypeOK
  BY FounderAssumption DEF OrgInit, OrgTypeOK, OrgCall
<1>2. \A r \in Req : orgCalls[r].op = "idle"
  BY DEF OrgInit, Idle
<1>3. \A i \in Invitation : ~Exists(i)
  BY DEF OrgInit, Exists
<1>4. TransfersApart /\ OwnersFound /\ AnswersFound /\ InvitesFound
  BY <1>2 DEF TransfersApart, OwnersFound, AnswersFound, InvitesFound, At, Answering
<1>5. SingleOwner
  BY FounderAssumption DEF OrgInit, SingleOwner, IsOwner
<1>6. InvitationsSettleOnce /\ OnePendingInvitation
  BY <1>3 DEF OrgInit, InvitationsSettleOnce, OnePendingInvitation, Pending, Unanswered
<1> QED BY <1>1, <1>4, <1>5, <1>6 DEF OrgInv

-----------------------------------------------------------------------------
(***************************************************************************)
(* What becomes of the requests.                                           *)
(***************************************************************************)
\* One that goes on is the same request, further on; one that leaves is gone.
LEMMA GoesOn ==
  ASSUME OrgTypeOK, NEW r \in Req, NEW at \in {"write", "successor"},
         orgCalls[r].op # "idle", at = "successor" => orgCalls[r].op = "transfer",
         GoTo(r, at)
  PROVE  /\ orgCalls' \in [Req -> OrgCall]
         /\ \A d \in Req \ {r} : orgCalls'[d] = orgCalls[d]
         /\ orgCalls'[r].op = orgCalls[r].op /\ orgCalls'[r].at = at
         /\ orgCalls[r].op \in {"role", "remove", "transfer", "invite"}
              => orgCalls'[r].who = orgCalls[r].who
         /\ orgCalls[r].op = "transfer" => orgCalls'[r].by = orgCalls[r].by
         /\ orgCalls[r].op \in {"accept", "decline", "cancel"}
              => orgCalls'[r].inv = orgCalls[r].inv
<1> DEFINE c == orgCalls[r]
           n == [orgCalls[r] EXCEPT !.at = at]
<1>1. /\ n \in OrgCall /\ n.op = c.op /\ n.at = at
      /\ c.op \in {"role", "remove", "transfer", "invite"} => n.who = c.who
      /\ c.op = "transfer" => n.by = c.by
      /\ c.op \in {"accept", "decline", "cancel"} => n.inv = c.inv
  <2>1. c \in OrgCall
    BY DEF OrgTypeOK
  <2>2. CASE c.op = "role"
    <3>1. c \in [op : {"role"}, at : {"find", "write"}, who : Person, role : GivenRole]
      BY <2>1, <2>2 DEF OrgCall, Idle
    <3>2. n \in [op : {"role"}, at : {"find", "write"}, who : Person, role : GivenRole]
          /\ n.op = c.op /\ n.at = at /\ n.who = c.who
      BY <3>1, <2>2
    <3> QED BY <2>2, <3>2 DEF OrgCall
  <2>3. CASE c.op = "remove"
    <3>1. c \in [op : {"remove"}, at : {"find", "write"}, who : Person]
      BY <2>1, <2>3 DEF OrgCall, Idle
    <3>2. n \in [op : {"remove"}, at : {"find", "write"}, who : Person]
          /\ n.op = c.op /\ n.at = at /\ n.who = c.who
      BY <3>1, <2>3
    <3> QED BY <2>3, <3>2 DEF OrgCall
  <2>4. CASE c.op = "transfer"
    <3>1. c \in [op : {"transfer"}, at : {"find", "successor", "write"}, by : Person, who : Person]
      BY <2>1, <2>4 DEF OrgCall, Idle
    <3>2. n \in [op : {"transfer"}, at : {"find", "successor", "write"}, by : Person, who : Person]
          /\ n.op = c.op /\ n.at = at /\ n.who = c.who /\ n.by = c.by
      BY <3>1
    <3> QED BY <2>4, <3>2 DEF OrgCall
  <2>5. CASE c.op = "invite"
    <3>1. c \in [op : {"invite"}, at : {"find", "write"}, who : Person, role : GivenRole]
      BY <2>1, <2>5 DEF OrgCall, Idle
    <3>2. n \in [op : {"invite"}, at : {"find", "write"}, who : Person, role : GivenRole]
          /\ n.op = c.op /\ n.at = at /\ n.who = c.who
      BY <3>1, <2>5
    <3> QED BY <2>5, <3>2 DEF OrgCall
  <2>6. CASE c.op \in {"accept", "decline"}
    <3>1. c \in [op : {"accept", "decline"}, at : {"write"}, inv : Invitation]
      BY <2>1, <2>6 DEF OrgCall, Idle
    <3>2. n \in [op : {"accept", "decline"}, at : {"write"}, inv : Invitation]
          /\ n.op = c.op /\ n.at = at /\ n.inv = c.inv
      BY <3>1, <2>6
    <3> QED BY <2>6, <3>2 DEF OrgCall
  <2>7. CASE c.op = "cancel"
    <3>1. c \in [op : {"cancel"}, at : {"find", "write"}, inv : Invitation]
      BY <2>1, <2>7 DEF OrgCall, Idle
    <3>2. n \in [op : {"cancel"}, at : {"find", "write"}, inv : Invitation]
          /\ n.op = c.op /\ n.at = at /\ n.inv = c.inv
      BY <3>1, <2>7
    <3> QED BY <2>7, <3>2 DEF OrgCall
  <2>8. CASE c.op \in {"delete", "restore"}
    <3>1. c \in [op : {"delete", "restore"}, at : {"find", "write"}]
      BY <2>1, <2>8 DEF OrgCall, Idle
    <3>2. n \in [op : {"delete", "restore"}, at : {"find", "write"}]
          /\ n.op = c.op /\ n.at = at
      BY <3>1, <2>8
    <3> QED BY <2>8, <3>2 DEF OrgCall
  <2>9. c.op \in {"role", "remove", "transfer", "invite", "accept", "decline", "cancel",
                  "delete", "restore"}
    BY <2>1 DEF OrgCall, Idle
  <2> QED BY <2>2, <2>3, <2>4, <2>5, <2>6, <2>7, <2>8, <2>9
<1>2. orgCalls' = [orgCalls EXCEPT ![r] = n]
  BY DEF GoTo
<1> HIDE DEF n, c
<1>3. orgCalls'[r] = n /\ orgCalls' \in [Req -> OrgCall]
      /\ \A d \in Req \ {r} : orgCalls'[d] = orgCalls[d]
  BY <1>1, <1>2 DEF OrgTypeOK
<1> QED BY <1>1, <1>3 DEF c

LEMMA Leaves ==
  ASSUME OrgTypeOK, NEW r \in Req, Leave(r)
  PROVE  /\ orgCalls' \in [Req -> OrgCall]
         /\ orgCalls'[r] = Idle
         /\ \A d \in Req \ {r} : orgCalls'[d] = orgCalls[d]
BY DEF OrgTypeOK, Leave, End, OrgCall
\* A check that passes or not.
LEMMA ChecksOn ==
  ASSUME OrgTypeOK, NEW r \in Req, NEW ok \in BOOLEAN, NEW at \in {"write", "successor"},
         orgCalls[r].op # "idle", at = "successor" => orgCalls[r].op = "transfer",
         OrgCheck(r, ok, at)
  PROVE  /\ orgCalls' \in [Req -> OrgCall]
         /\ \A d \in Req \ {r} : orgCalls'[d] = orgCalls[d]
         /\ \/ orgCalls'[r] = Idle
            \/ /\ ok /\ orgCalls'[r].op = orgCalls[r].op /\ orgCalls'[r].at = at
               /\ orgCalls[r].op \in {"role", "remove", "transfer", "invite"}
                    => orgCalls'[r].who = orgCalls[r].who
               /\ orgCalls[r].op = "transfer" => orgCalls'[r].by = orgCalls[r].by
               /\ orgCalls[r].op \in {"accept", "decline", "cancel"}
                    => orgCalls'[r].inv = orgCalls[r].inv
         /\ UNCHANGED <<role, org, invitations, overlapped>>
<1>1. CASE ok
  <2>1. GoTo(r, at) /\ UNCHANGED <<role, org, invitations, overlapped>>
    BY <1>1 DEF OrgCheck
  <2> QED BY <1>1, <2>1, GoesOn
<1>2. CASE ~ok
  <2>1. Leave(r) /\ UNCHANGED <<role, org, invitations, overlapped>>
    BY <1>2 DEF OrgCheck
  <2> QED BY <2>1, Leaves
<1> QED BY <1>1, <1>2

\* The requests that look before they write.
Finds(r) == \/ TransferFind(r) \/ TransferSuccessor(r) \/ RoleFind(r) \/ RemoveFind(r)
            \/ InviteFind(r) \/ CancelFind(r) \/ DeleteFind(r) \/ RestoreFind(r)

\* What such a step does to its request: it goes on with what it found, or
\* ends.
Found(r) ==
  \/ orgCalls'[r] = Idle
  \/ /\ orgCalls[r].op = "transfer" /\ orgCalls'[r].op = "transfer"
     /\ orgCalls'[r].at \in {"successor", "write"}
     /\ orgCalls'[r].by = orgCalls[r].by /\ orgCalls'[r].who = orgCalls[r].who
     /\ orgCalls[r].at = "successor" \/ IsOwner(orgCalls[r].by)
  \/ /\ orgCalls[r].op \in {"role", "remove"} /\ orgCalls'[r].op = orgCalls[r].op
     /\ orgCalls'[r].at = "write" /\ orgCalls'[r].who = orgCalls[r].who
     /\ ~IsOwner(orgCalls[r].who)
  \/ /\ orgCalls[r].op = "invite" /\ orgCalls'[r].op = "invite"
     /\ orgCalls'[r].at = "write" /\ orgCalls'[r].who = orgCalls[r].who
     /\ \A i \in Invitation : Pending(i) => invitations[i].to # orgCalls[r].who
  \/ /\ orgCalls[r].op = "cancel" /\ orgCalls'[r].op = "cancel"
     /\ orgCalls'[r].at = "write" /\ orgCalls'[r].inv = orgCalls[r].inv
     /\ Unanswered(orgCalls[r].inv)
  \/ orgCalls[r].op \in {"delete", "restore"} /\ orgCalls'[r].op = orgCalls[r].op

LEMMA FindsFound ==
  ASSUME OrgTypeOK, NEW r \in Req, Finds(r)
  PROVE  /\ orgCalls' \in [Req -> OrgCall]
         /\ \A d \in Req \ {r} : orgCalls'[d] = orgCalls[d]
         /\ Found(r)
         /\ UNCHANGED <<role, org, invitations, overlapped>>
<1>1. CASE TransferFind(r)
  BY <1>1, ChecksOn DEF TransferFind, At, Found
<1>2. CASE TransferSuccessor(r)
  BY <1>2, ChecksOn DEF TransferSuccessor, At, Found
<1>3. CASE RoleFind(r)
  <2> DEFINE ok == role[orgCalls[r].who] \in {"ADMIN", "MEMBER"}
  <2>1. OrgCheck(r, ok, "write")
    BY <1>3 DEF RoleFind
  <2>2. ok \in BOOLEAN /\ (ok => ~IsOwner(orgCalls[r].who))
    BY DEF IsOwner
  <2> HIDE DEF ok
  <2> QED BY <1>3, <2>1, <2>2, ChecksOn DEF RoleFind, At, Found
<1>4. CASE RemoveFind(r)
  <2> DEFINE ok == role[orgCalls[r].who] \in {"ADMIN", "MEMBER"}
  <2>1. OrgCheck(r, ok, "write")
    BY <1>4 DEF RemoveFind
  <2>2. ok \in BOOLEAN /\ (ok => ~IsOwner(orgCalls[r].who))
    BY DEF IsOwner
  <2> HIDE DEF ok
  <2> QED BY <1>4, <2>1, <2>2, ChecksOn DEF RemoveFind, At, Found
<1>5. CASE InviteFind(r)
  <2>1. PICK ok \in BOOLEAN :
          /\ OrgCheck(r, ok, "write")
          /\ ok => \A i \in Invitation : Pending(i) => invitations[i].to # orgCalls[r].who
    BY <1>5 DEF InviteFind
  <2> QED BY <1>5, <2>1, ChecksOn DEF InviteFind, At, Found
<1>6. CASE CancelFind(r)
  BY <1>6, ChecksOn DEF CancelFind, At, Found, Unanswered
<1>7. CASE DeleteFind(r)
  BY <1>7, ChecksOn DEF DeleteFind, At, Found
<1>8. CASE RestoreFind(r)
  BY <1>8, ChecksOn DEF RestoreFind, At, Found
<1> QED BY <1>1, <1>2, <1>3, <1>4, <1>5, <1>6, <1>7, <1>8 DEF Finds

\* The writes; each ends its request.
Writes(r) == \/ TransferWrite(r) \/ RoleWrite(r) \/ RemoveWrite(r) \/ InviteWrite(r)
             \/ AcceptWrite(r) \/ DeclineWrite(r) \/ CancelWrite(r)
             \/ DeleteWrite(r) \/ RestoreWrite(r)

LEMMA WritesLeave ==
  ASSUME OrgTypeOK, NEW r \in Req, Writes(r)
  PROVE  /\ orgCalls' \in [Req -> OrgCall]
         /\ orgCalls'[r] = Idle
         /\ \A d \in Req \ {r} : orgCalls'[d] = orgCalls[d]
BY Leaves DEF Writes, TransferWrite, RoleWrite, RemoveWrite, InviteWrite, AcceptWrite,
              DeclineWrite, CancelWrite, DeleteWrite, RestoreWrite

\* A request that starts.
LEMMA Starts ==
  ASSUME OrgTypeOK, NEW r \in Req, OrgRequest(r) \/ AnswerFind(r)
  PROVE  /\ orgCalls' \in [Req -> OrgCall]
         /\ \A d \in Req \ {r} : orgCalls'[d] = orgCalls[d]
         /\ \/ orgCalls'[r].at = "find"
            \/ /\ orgCalls'[r].op \in {"accept", "decline"}
               /\ orgCalls'[r].inv \in Invitation /\ Pending(orgCalls'[r].inv)
         /\ orgCalls'[r].op = "transfer" => orgCalls'[r].by # orgCalls'[r].who
         /\ UNCHANGED <<role, org, invitations, overlapped>>
<1>1. PICK call \in OrgCall :
        /\ OrgStart(r, call)
        /\ \/ call.at = "find"
           \/ call.op \in {"accept", "decline"} /\ call.inv \in Invitation /\ Pending(call.inv)
        /\ call.op = "transfer" => call.by # call.who
  <2>1. CASE OrgRequest(r)
    <3>1. \/ \E p \in Person, g \in GivenRole :
               \/ OrgStart(r, [op |-> "role", at |-> "find", who |-> p, role |-> g])
               \/ OrgStart(r, [op |-> "invite", at |-> "find", who |-> p, role |-> g])
          \/ \E p \in Person : OrgStart(r, [op |-> "remove", at |-> "find", who |-> p])
          \/ \E i \in Invitation : OrgStart(r, [op |-> "cancel", at |-> "find", inv |-> i])
          \/ \E p, q \in Person :
               p # q /\ OrgStart(r, [op |-> "transfer", at |-> "find", by |-> p, who |-> q])
          \/ \E o \in {"delete", "restore"} : OrgStart(r, [op |-> o, at |-> "find"])
      BY <2>1, Zenon DEF OrgRequest
    <3>2. /\ \A p \in Person, g \in GivenRole, o \in {"role", "invite"} :
               [op |-> o, at |-> "find", who |-> p, role |-> g] \in OrgCall
          /\ \A p \in Person : [op |-> "remove", at |-> "find", who |-> p] \in OrgCall
          /\ \A i \in Invitation : [op |-> "cancel", at |-> "find", inv |-> i] \in OrgCall
          /\ \A p, q \in Person :
               [op |-> "transfer", at |-> "find", by |-> p, who |-> q] \in OrgCall
          /\ \A o \in {"delete", "restore"} : [op |-> o, at |-> "find"] \in OrgCall
      BY DEF OrgCall
    <3> QED BY <3>1, <3>2
  <2>2. CASE AnswerFind(r)
    BY <2>2 DEF AnswerFind, OrgCall
  <2> QED BY <2>1, <2>2
<1> QED BY <1>1 DEF OrgStart, OrgTypeOK

-----------------------------------------------------------------------------
(***************************************************************************)
(* Types.                                                                  *)
(***************************************************************************)
LEMMA OrgTypeStep ==
  ASSUME OrgTypeOK, [OrgNext]_orgVars PROVE OrgTypeOK'
<1>1. ASSUME NEW r \in Req, OrgRequest(r) \/ AnswerFind(r) PROVE OrgTypeOK'
  BY <1>1, Starts DEF OrgTypeOK
<1>2. ASSUME NEW r \in Req, Finds(r) PROVE OrgTypeOK'
  BY <1>2, FindsFound DEF OrgTypeOK
<1>3. ASSUME NEW r \in Req, Writes(r) PROVE OrgTypeOK'
  <2>1. orgCalls' \in [Req -> OrgCall]
    BY <1>3, WritesLeave
  <2>2. role' \in [Person -> {"none", "OWNER", "ADMIN", "MEMBER"}]
        /\ org' \in {"live", "deleted", "overdue"}
        /\ overlapped' \subseteq {"transfer", "answer", "invite"}
    <3>1. CASE TransferWrite(r)
      <4>1. \/ UNCHANGED <<role, overlapped>>
            \/ /\ role' = [role EXCEPT ![orgCalls[r].by] = "ADMIN", ![orgCalls[r].who] = "OWNER"]
               /\ overlapped' \subseteq overlapped \cup {"transfer"}
        BY <3>1, Zenon DEF TransferWrite
      <4> QED BY <3>1, <4>1 DEF TransferWrite, OrgTypeOK
    <3>2. CASE RoleWrite(r)
      <4> DEFINE c == orgCalls[r]
                 g == IF role[c.who] = "none" THEN role[c.who] ELSE c.role
      <4>1. c \in OrgCall /\ c.op = "role"
        BY <3>2 DEF RoleWrite, At, OrgTypeOK
      <4>2. c \in [op : {"role"}, at : {"find", "write"}, who : Person, role : GivenRole]
        BY <4>1 DEF OrgCall, Idle
      <4>3. c.who \in Person /\ c.role \in {"ADMIN", "MEMBER"}
        BY <4>2, GivenRoleAssumption
      <4>4. role' = [role EXCEPT ![c.who] = g]
        BY <3>2 DEF RoleWrite
      <4>5. g \in {"none", "OWNER", "ADMIN", "MEMBER"}
        BY <4>3 DEF OrgTypeOK
      <4> HIDE DEF g, c
      <4> QED BY <3>2, <4>4, <4>5 DEF RoleWrite, OrgTypeOK
    <3>3. CASE RemoveWrite(r)
      BY <3>3 DEF RemoveWrite, OrgTypeOK
    <3>4. CASE InviteWrite(r)
      BY <3>4 DEF InviteWrite, OrgTypeOK
    <3>5. CASE AcceptWrite(r)
      <4>1. orgCalls[r].inv \in Invitation
        BY <3>5 DEF AcceptWrite, At, OrgTypeOK, OrgCall, Idle
      <4>2. Exists(orgCalls[r].inv) => invitations[orgCalls[r].inv].role \in {"ADMIN", "MEMBER"}
        BY <4>1, ExistingRow, GivenRoleAssumption DEF InvitationRow
      <4> QED BY <3>5, <4>2 DEF AcceptWrite, Answered, OrgTypeOK
    <3>6. CASE DeclineWrite(r) \/ CancelWrite(r) \/ DeleteWrite(r) \/ RestoreWrite(r)
      BY <3>6 DEF DeclineWrite, CancelWrite, DeleteWrite, RestoreWrite, Answered, OrgTypeOK
    <3> QED BY <1>3, <3>1, <3>2, <3>3, <3>4, <3>5, <3>6 DEF Writes
  <2>3. invitations' \in [Invitation -> InvitationRow \cup {NoRow}]
    <3>1. CASE InviteWrite(r)
      <4>1. orgCalls[r].who \in Person /\ orgCalls[r].role \in GivenRole
        BY <3>1 DEF InviteWrite, At, OrgTypeOK, OrgCall, Idle
      <4>2. [to |-> orgCalls[r].who, role |-> orgCalls[r].role, uses |-> 0,
             declined |-> FALSE, expired |-> FALSE] \in InvitationRow
        BY <4>1 DEF InvitationRow
      <4> QED BY <3>1, <4>2 DEF InviteWrite, OrgTypeOK
    <3>2. CASE AcceptWrite(r)
      <4>1. orgCalls[r].inv \in Invitation
        BY <3>2 DEF AcceptWrite, At, OrgTypeOK, OrgCall, Idle
      <4>2. CASE Exists(orgCalls[r].inv)
        <5>1. invitations[orgCalls[r].inv] \in InvitationRow
          BY <4>1, <4>2, ExistingRow
        <5>2. ASSUME NEW u \in 0 .. 2
              PROVE  [invitations[orgCalls[r].inv] EXCEPT !.uses = u] \in InvitationRow
          BY <5>1 DEF InvitationRow
        <5> DEFINE u == invitations[orgCalls[r].inv].uses
                   v == IF u = 2 THEN 2 ELSE u + 1
        <5>3. v \in 0 .. 2
          BY <5>1 DEF InvitationRow
        <5>4. \/ UNCHANGED invitations
              \/ invitations' = [invitations EXCEPT ![orgCalls[r].inv] =
                   [invitations[orgCalls[r].inv] EXCEPT !.uses = v]]
          BY <3>2, Zenon DEF AcceptWrite
        <5> HIDE DEF v
        <5> QED BY <5>2, <5>3, <5>4 DEF OrgTypeOK
      <4>3. CASE ~Exists(orgCalls[r].inv)
        BY <3>2, <4>3 DEF AcceptWrite, OrgTypeOK
      <4> QED BY <4>2, <4>3
    <3>3. CASE DeclineWrite(r)
      <4>1. orgCalls[r].inv \in Invitation
        BY <3>3 DEF DeclineWrite, At, OrgTypeOK, OrgCall, Idle
      <4>2. Exists(orgCalls[r].inv) =>
              [invitations[orgCalls[r].inv] EXCEPT !.declined = TRUE] \in InvitationRow
        BY <4>1, ExistingRow DEF InvitationRow
      <4> QED BY <3>3, <4>2 DEF DeclineWrite, OrgTypeOK
    <3>4. CASE CancelWrite(r)
      BY <3>4 DEF CancelWrite, OrgTypeOK
    <3>5. CASE TransferWrite(r) \/ RoleWrite(r) \/ RemoveWrite(r) \/ DeleteWrite(r)
               \/ RestoreWrite(r)
      BY <3>5 DEF TransferWrite, RoleWrite, RemoveWrite, DeleteWrite, RestoreWrite, OrgTypeOK
    <3> QED BY <1>3, <3>1, <3>2, <3>3, <3>4, <3>5 DEF Writes
  <2> QED BY <2>1, <2>2, <2>3 DEF OrgTypeOK
<1>4. ASSUME NEW i \in Invitation, InvitationExpires(i) PROVE OrgTypeOK'
  <2>1. [invitations[i] EXCEPT !.expired = TRUE] \in InvitationRow
    BY <1>4, ExistingRow DEF InvitationExpires, Pending, Unanswered, InvitationRow
  <2> QED BY <1>4, <2>1 DEF InvitationExpires, OrgTypeOK
<1>5. CASE GraceEnds
  BY <1>5 DEF GraceEnds, OrgTypeOK
<1>6. CASE UNCHANGED orgVars
  BY <1>6 DEF orgVars, OrgTypeOK
<1> QED BY <1>1, <1>2, <1>3, <1>4, <1>5, <1>6 DEF OrgNext, OrgHandle, Finds, Writes

\* What the requests carry.
LEMMA Carries ==
  ASSUME OrgTypeOK, NEW r \in Req
  PROVE  /\ orgCalls[r].op \in {"role", "remove", "transfer", "invite"} => orgCalls[r].who \in Person
         /\ orgCalls[r].op = "transfer" => orgCalls[r].by \in Person
         /\ orgCalls[r].op \in {"accept", "decline", "cancel"} => orgCalls[r].inv \in Invitation
<1>1. orgCalls[r] \in OrgCall
  BY DEF OrgTypeOK
<1> QED BY <1>1 DEF OrgCall, Idle

-----------------------------------------------------------------------------
(***************************************************************************)
(* Owners.                                                                 *)
(***************************************************************************)
OwnerCall(r) == \/ At(r, "role", "write") \/ At(r, "remove", "write")
                \/ At(r, "transfer", "successor") \/ At(r, "transfer", "write")

\* A step that makes nobody an owner or a plain member, and moves no request
\* that relies on who is one.
LEMMA OwnersFrame ==
  ASSUME OrgInv,
         "transfer" \notin overlapped' =>
           "transfer" \notin overlapped /\ \A p \in Person : IsOwner(p)' <=> IsOwner(p),
         \A d \in Req : orgCalls'[d] = orgCalls[d] \/ ~OwnerCall(d)'
  PROVE  OwnersFound' /\ SingleOwner'
<1> SUFFICES ASSUME "transfer" \notin overlapped'
             PROVE  OwnersFound' /\ SingleOwner'
  BY DEF OwnersFound, SingleOwner
<1>1. OrgTypeOK /\ OwnersFound /\ SingleOwner
  BY DEF OrgInv
<1>2. SingleOwner'
  BY <1>1 DEF SingleOwner
<1>3. ASSUME NEW d \in Req, OwnerCall(d)'
      PROVE  /\ OwnerCall(d) /\ orgCalls'[d] = orgCalls[d]
             /\ orgCalls[d].who \in Person
             /\ orgCalls[d].op = "transfer" => orgCalls[d].by \in Person
  BY <1>1, <1>3, Carries DEF OwnerCall, At
<1>4. OwnersFound'
  BY <1>1, <1>3 DEF OwnersFound, OwnerCall, At
<1> QED BY <1>2, <1>4

LEMMA OwnersFindStep ==
  ASSUME OrgInv, NEW r \in Req, Finds(r) PROVE OwnersFound' /\ SingleOwner'
<1>1. OrgTypeOK /\ OwnersFound /\ SingleOwner
  BY DEF OrgInv
<1>2. /\ \A d \in Req \ {r} : orgCalls'[d] = orgCalls[d]
      /\ Found(r)
      /\ UNCHANGED <<role, org, invitations, overlapped>>
  BY <1>1, FindsFound
<1>3. SingleOwner'
  BY <1>1, <1>2 DEF SingleOwner, IsOwner
<1>4. ASSUME "transfer" \notin overlapped,
             (At(r, "role", "write") \/ At(r, "remove", "write"))'
      PROVE  ~IsOwner(orgCalls[r].who)' /\ orgCalls'[r].who = orgCalls[r].who
  BY <1>2, <1>4 DEF Found, At, IsOwner, Idle
<1>5. ASSUME "transfer" \notin overlapped,
             (At(r, "transfer", "successor") \/ At(r, "transfer", "write"))'
      PROVE  role[orgCalls'[r].by] = "OWNER"
  <2>1. orgCalls'[r].op = "transfer"
    BY <1>5 DEF At
  <2>2. /\ orgCalls[r].op = "transfer" /\ orgCalls'[r].by = orgCalls[r].by
        /\ orgCalls[r].at = "successor" \/ IsOwner(orgCalls[r].by)
    BY <1>2, <2>1 DEF Found, Idle
  <2> QED BY <1>1, <1>5, <2>2 DEF OwnersFound, At, IsOwner
<1>6. OwnersFound'
  BY <1>1, <1>2, <1>4, <1>5 DEF OwnersFound, At, IsOwner
<1> QED BY <1>3, <1>6

LEMMA TransferStep ==
  ASSUME OrgInv, NEW r \in Req, TransferWrite(r) PROVE OwnersFound' /\ SingleOwner'
<1> DEFINE c == orgCalls[r]
<1>1. OrgTypeOK /\ OwnersFound /\ SingleOwner /\ TransfersApart
  BY DEF OrgInv
<1>2. At(r, "transfer", "write") /\ c.by \in Person /\ c.who \in Person /\ c.by # c.who
  BY <1>1, Carries DEF TransferWrite, At, TransfersApart
<1>3. orgCalls'[r] = Idle /\ \A d \in Req \ {r} : orgCalls'[d] = orgCalls[d]
  BY <1>1, WritesLeave DEF Writes
<1>4. CASE "none" \in {role[c.by], role[c.who]}
  <2>1. role' = role /\ overlapped' = overlapped
    BY <1>4, Zenon DEF TransferWrite
  <2> QED BY <1>3, <2>1, OwnersFrame DEF IsOwner, OwnerCall, At, Idle
<1>5. CASE "none" \notin {role[c.by], role[c.who]}
  <2>1. /\ role' = [role EXCEPT ![c.by] = "ADMIN", ![c.who] = "OWNER"]
        /\ overlapped' = overlapped \cup
             {"transfer" : d \in {d \in Waiting(r) :
                 \/ orgCalls[d].op = "transfer"
                 \/ orgCalls[d].op \in {"role", "remove"} /\ orgCalls[d].who = c.who}}
    BY <1>5, Zenon DEF TransferWrite
  <2> SUFFICES ASSUME "transfer" \notin overlapped'
               PROVE  OwnersFound' /\ SingleOwner'
    BY DEF OwnersFound, SingleOwner
  <2>2. "transfer" \notin overlapped
    BY <2>1
  <2>3. ASSUME NEW d \in Waiting(r)
        PROVE  /\ orgCalls[d].op # "transfer"
               /\ orgCalls[d].op \in {"role", "remove"} => orgCalls[d].who # c.who
    BY <2>1, <2>3, Zenon
  <2>4. IsOwner(c.by) /\ \A q \in Person : IsOwner(q) => q = c.by
    BY <1>1, <1>2, <2>2 DEF OwnersFound, SingleOwner
  <2>5. \A q \in Person : IsOwner(q)' <=> q = c.who
    BY <1>1, <1>2, <2>1, <2>4 DEF IsOwner, OrgTypeOK
  <2>6. SingleOwner'
    BY <1>2, <2>5 DEF SingleOwner
  <2>7. ASSUME NEW d \in Req, OwnerCall(d)'
        PROVE  /\ orgCalls'[d] = orgCalls[d] /\ orgCalls[d].op \in {"role", "remove"}
               /\ orgCalls[d].who \in Person /\ orgCalls[d].who # c.who
    <3>1. d # r /\ orgCalls'[d] = orgCalls[d] /\ OwnerCall(d)
      BY <1>3, <2>7 DEF OwnerCall, At, Idle
    <3>2. d \in Waiting(r)
      BY <3>1 DEF Waiting, OwnerCall, At, Idle
    <3> QED BY <1>1, <2>3, <3>1, <3>2, Carries DEF OwnerCall, At
  <2>8. OwnersFound'
    BY <2>5, <2>7 DEF OwnersFound, OwnerCall, At
  <2> QED BY <2>6, <2>8
<1> QED BY <1>4, <1>5

\* The other writes: nobody becomes an owner and no owner is touched.
LEMMA OwnersWriteStep ==
  ASSUME OrgInv, NEW r \in Req, Writes(r), ~TransferWrite(r) PROVE OwnersFound' /\ SingleOwner'
<1> DEFINE c == orgCalls[r]
<1>1. OrgTypeOK /\ OwnersFound /\ SingleOwner
  BY DEF OrgInv
<1>2. orgCalls'[r] = Idle /\ \A d \in Req \ {r} : orgCalls'[d] = orgCalls[d]
  BY <1>1, WritesLeave
<1>3. \A d \in Req : orgCalls'[d] = orgCalls[d] \/ ~OwnerCall(d)'
  BY <1>2 DEF OwnerCall, At, Idle
<1>4. "transfer" \notin overlapped' =>
         "transfer" \notin overlapped /\ \A p \in Person : IsOwner(p)' <=> IsOwner(p)
  <2>1. CASE RoleWrite(r)
    <3>1. c \in OrgCall /\ At(r, "role", "write")
      BY <1>1, <2>1 DEF OrgTypeOK, RoleWrite
    <3>2. c.who \in Person /\ c.role \in GivenRole
      BY <3>1 DEF OrgCall, At, Idle
    <3>3. "transfer" \notin overlapped => ~IsOwner(c.who)
      BY <1>1, <3>1 DEF OwnersFound
    <3>4. overlapped' = overlapped /\ \A p \in Person \ {c.who} : role'[p] = role[p]
      BY <1>1, <2>1 DEF RoleWrite, OrgTypeOK
    <3>5. role'[c.who] = IF role[c.who] = "none" THEN role[c.who] ELSE c.role
      BY <1>1, <2>1, <3>2 DEF RoleWrite, OrgTypeOK
    <3>6. role[c.who] # "OWNER" => role'[c.who] # "OWNER"
      BY <3>2, <3>5, GivenRoleAssumption
    <3> QED BY <3>2, <3>3, <3>4, <3>6 DEF IsOwner
  <2>2. CASE RemoveWrite(r)
    <3>1. At(r, "remove", "write") /\ c.who \in Person
      BY <1>1, <2>2, Carries DEF RemoveWrite, At
    <3>2. "transfer" \notin overlapped => ~IsOwner(c.who)
      BY <1>1, <3>1 DEF OwnersFound
    <3> QED BY <1>1, <2>2, <3>1, <3>2 DEF RemoveWrite, IsOwner, OrgTypeOK
  <2>3. CASE AcceptWrite(r)
    <3>1. c.inv \in Invitation
      BY <1>1, <2>3, Carries DEF AcceptWrite, At
    <3>2. CASE Exists(c.inv) /\ role[invitations[c.inv].to] = "none"
      <4>1. invitations[c.inv].role \in GivenRole /\ invitations[c.inv].to \in Person
        BY <1>1, <3>1, <3>2, ExistingRow DEF InvitationRow
      <4>2. role' = [role EXCEPT ![invitations[c.inv].to] = invitations[c.inv].role]
            /\ Answered(r)
        BY <2>3, <3>2 DEF AcceptWrite
      <4>3. invitations[c.inv].role # "OWNER"
        BY <4>1, GivenRoleAssumption
      <4>4. \A p \in Person : IsOwner(p)' <=> IsOwner(p)
        BY <1>1, <3>2, <4>1, <4>2, <4>3 DEF IsOwner, OrgTypeOK
      <4>5. overlapped \subseteq overlapped'
        BY <4>2 DEF Answered
      <4> QED BY <4>4, <4>5
    <3>3. CASE ~(Exists(c.inv) /\ role[invitations[c.inv].to] = "none")
      BY <2>3, <3>3 DEF AcceptWrite, IsOwner
    <3> QED BY <3>2, <3>3
  <2>4. CASE InviteWrite(r) \/ DeclineWrite(r) \/ CancelWrite(r) \/ DeleteWrite(r)
             \/ RestoreWrite(r)
    <3>1. role' = role /\ overlapped \subseteq overlapped'
      BY <2>4 DEF InviteWrite, DeclineWrite, CancelWrite, DeleteWrite, RestoreWrite, Answered
    <3> QED BY <3>1 DEF IsOwner
  <2> QED BY <2>1, <2>2, <2>3, <2>4 DEF Writes
<1> QED BY <1>3, <1>4, OwnersFrame

LEMMA OwnersStep ==
  ASSUME OrgInv, [OrgNext]_orgVars PROVE OwnersFound' /\ SingleOwner'
<1>1. ASSUME NEW r \in Req, OrgRequest(r) \/ AnswerFind(r) PROVE OwnersFound' /\ SingleOwner'
  <2>1. /\ \A d \in Req \ {r} : orgCalls'[d] = orgCalls[d]
        /\ orgCalls'[r].at = "find" \/ orgCalls'[r].op \in {"accept", "decline"}
        /\ UNCHANGED <<role, overlapped>>
    BY <1>1, Starts DEF OrgInv
  <2>2. ~OwnerCall(r)'
    BY <2>1 DEF OwnerCall, At
  <2> QED BY <2>1, <2>2, OwnersFrame DEF IsOwner
<1>2. ASSUME NEW r \in Req, Finds(r) PROVE OwnersFound' /\ SingleOwner'
  BY <1>2, OwnersFindStep
<1>3. ASSUME NEW r \in Req, Writes(r) PROVE OwnersFound' /\ SingleOwner'
  BY <1>3, TransferStep, OwnersWriteStep
<1>4. CASE UNCHANGED <<role, orgCalls, overlapped>>
  BY <1>4, OwnersFrame DEF IsOwner
<1>5. CASE GraceEnds \/ (\E i \in Invitation : InvitationExpires(i)) \/ UNCHANGED orgVars
  BY <1>4, <1>5 DEF GraceEnds, InvitationExpires, orgVars
<1> QED BY <1>1, <1>2, <1>3, <1>5 DEF OrgNext, OrgHandle, Finds, Writes

-----------------------------------------------------------------------------
(***************************************************************************)
(* Answers to invitations.                                                 *)
(***************************************************************************)
\* A row that stays as it is, but for running out.
Kept(i) == /\ Exists(i)' /\ invitations'[i].to = invitations[i].to
           /\ invitations'[i].uses = invitations[i].uses
           /\ invitations'[i].declined = invitations[i].declined

\* A step that keeps the rows there are, adds at most unanswered ones, lets
\* nobody in, and moves no request that answers.
LEMMA AnswersFrame ==
  ASSUME OrgInv, "answer" \notin overlapped' => "answer" \notin overlapped,
         \A i \in Invitation : IF Exists(i) THEN Kept(i) ELSE Exists(i)' => Unanswered(i)',
         \A p \in Person : role'[p] # "none" => role[p] # "none",
         \A d \in Req : Answering(d)' =>
           \/ orgCalls'[d] = orgCalls[d]
           \/ orgCalls'[d].inv \in Invitation /\ Unanswered(orgCalls'[d].inv)
  PROVE  AnswersFound' /\ InvitationsSettleOnce'
<1> SUFFICES ASSUME "answer" \notin overlapped'
             PROVE  AnswersFound' /\ InvitationsSettleOnce'
  BY DEF AnswersFound, InvitationsSettleOnce
<1>1. OrgTypeOK /\ AnswersFound /\ InvitationsSettleOnce
  BY DEF OrgInv
<1>2. ASSUME NEW i \in Invitation, Exists(i)'
      PROVE  /\ invitations'[i].uses <= 1
             /\ invitations'[i].declined => invitations'[i].uses = 0
  <2>1. CASE Exists(i)
    BY <1>1, <2>1 DEF InvitationsSettleOnce, Kept
  <2>2. CASE ~Exists(i)
    BY <1>2, <2>2 DEF Unanswered
  <2> QED BY <2>1, <2>2
<1>3. ASSUME NEW p \in Person \ {Founder}, role'[p] # "none"
      PROVE  \E i \in Invitation : /\ Exists(i)' /\ invitations'[i].to = p
                                   /\ invitations'[i].uses = 1
  <2>1. PICK i \in Invitation : Exists(i) /\ invitations[i].to = p /\ invitations[i].uses = 1
    BY <1>1, <1>3 DEF InvitationsSettleOnce
  <2> QED BY <2>1 DEF Kept
<1>4. InvitationsSettleOnce'
  BY <1>2, <1>3 DEF InvitationsSettleOnce
<1>5. ASSUME NEW d \in Req, Answering(d)' PROVE Unanswered(orgCalls[d].inv)'
  <2>1. orgCalls'[d].inv \in Invitation /\ Unanswered(orgCalls'[d].inv)
    BY <1>1, <1>5, Carries DEF AnswersFound, Answering, At
  <2> QED BY <2>1 DEF Unanswered, Kept
<1>6. AnswersFound'
  BY <1>5 DEF AnswersFound
<1> QED BY <1>4, <1>6

\* A write that answers: nobody else is about to answer the same invitation.
LEMMA AnswersAlone ==
  ASSUME OrgInv, NEW r \in Req, Answering(r), Answered(r), "answer" \notin overlapped',
         orgCalls'[r] = Idle, \A d \in Req \ {r} : orgCalls'[d] = orgCalls[d],
         \A i \in Invitation \ {orgCalls[r].inv} : invitations'[i] = invitations[i]
  PROVE  /\ "answer" \notin overlapped /\ orgCalls[r].inv \in Invitation
         /\ Unanswered(orgCalls[r].inv)
         /\ AnswersFound'
<1>1. OrgTypeOK /\ AnswersFound
  BY DEF OrgInv
<1>2. /\ overlapped' = overlapped \cup
           {"answer" : d \in {d \in Waiting(r) :
              /\ orgCalls[d].op \in {"accept", "decline", "cancel"}
              /\ orgCalls[d].inv = orgCalls[r].inv}}
  BY DEF Answered
<1>3. "answer" \notin overlapped
  BY <1>2
<1>4. ASSUME NEW d \in Waiting(r), orgCalls[d].op \in {"accept", "decline", "cancel"}
      PROVE  orgCalls[d].inv # orgCalls[r].inv
  BY <1>2, <1>4, Zenon
<1>5. orgCalls[r].inv \in Invitation /\ Unanswered(orgCalls[r].inv)
  BY <1>1, <1>3, Carries DEF AnswersFound, Answering, At
<1>6. ASSUME NEW d \in Req, Answering(d)' PROVE Unanswered(orgCalls[d].inv)'
  <2>1. d # r /\ orgCalls'[d] = orgCalls[d] /\ Answering(d)
    BY <1>6 DEF Answering, At, Idle
  <2>2. d \in Waiting(r)
    BY <2>1 DEF Waiting, Answering, At, Idle
  <2>3. orgCalls[d].inv \in Invitation \ {orgCalls[r].inv}
    BY <1>1, <1>4, <2>1, <2>2, Carries DEF Answering, At
  <2>4. Unanswered(orgCalls[d].inv)
    BY <1>1, <1>3, <2>1 DEF AnswersFound
  <2> QED BY <2>1, <2>3, <2>4 DEF Unanswered, Exists
<1>7. AnswersFound'
  BY <1>6 DEF AnswersFound
<1> QED BY <1>3, <1>5, <1>7

LEMMA AnswerWriteStep ==
  ASSUME OrgInv, NEW r \in Req, AcceptWrite(r) \/ DeclineWrite(r) \/ CancelWrite(r)
  PROVE  AnswersFound' /\ InvitationsSettleOnce'
<1> DEFINE i == orgCalls[r].inv
<1> SUFFICES ASSUME "answer" \notin overlapped'
             PROVE  AnswersFound' /\ InvitationsSettleOnce'
  BY DEF AnswersFound, InvitationsSettleOnce
<1>1. OrgTypeOK /\ InvitationsSettleOnce
  BY DEF OrgInv
<1>2. orgCalls'[r] = Idle /\ \A d \in Req \ {r} : orgCalls'[d] = orgCalls[d]
  BY <1>1, WritesLeave DEF Writes
<1>3. i \in Invitation /\ Answering(r)
  BY <1>1, Carries DEF AcceptWrite, DeclineWrite, CancelWrite, At, Answering
<1>4. CASE UNCHANGED <<invitations, role, overlapped>>
  <2>1. \A j \in Invitation : IF Exists(j) THEN Kept(j) ELSE Exists(j)' => Unanswered(j)'
    BY <1>4 DEF Exists, Kept
  <2>2. \A d \in Req : Answering(d)' => orgCalls'[d] = orgCalls[d]
    BY <1>2 DEF Answering, At, Idle
  <2> QED BY <1>4, <2>1, <2>2, AnswersFrame
<1>5. CASE AcceptWrite(r) /\ Exists(i) /\ role[invitations[i].to] = "none"
  <2> DEFINE p == invitations[i].to
             n == [invitations[i] EXCEPT !.uses = IF @ = 2 THEN 2 ELSE @ + 1]
  <2>1. /\ invitations' = [invitations EXCEPT ![i] = n]
        /\ role' = [role EXCEPT ![p] = invitations[i].role]
        /\ Answered(r)
    BY <1>5, Zenon DEF AcceptWrite
  <2>2. /\ \A j \in Invitation \ {i} : invitations'[j] = invitations[j]
        /\ invitations'[i] = n
    <3> HIDE DEF n
    <3> QED BY <1>1, <1>3, <2>1 DEF OrgTypeOK
  <2>3. "answer" \notin overlapped /\ Unanswered(i) /\ AnswersFound'
    BY <1>2, <1>3, <2>1, <2>2, AnswersAlone
  <2>4. invitations[i] \in InvitationRow /\ invitations[i].uses = 0 /\ ~invitations[i].declined
    BY <1>3, <1>5, <1>1, <2>3, ExistingRow DEF Unanswered
  <2>5. n \in InvitationRow /\ n.uses = 1 /\ n.to = p /\ ~n.declined
    BY <2>4 DEF InvitationRow
  <2>6. invitations'[i] # NoRow
    <3> HIDE DEF n
    <3> QED BY <2>2, <2>5, InvitationsAreThere
  <2>7. \A j \in Invitation : Exists(j)' => /\ invitations'[j].uses <= 1
                                            /\ invitations'[j].declined => invitations'[j].uses = 0
    <3> HIDE DEF n
    <3> QED BY <1>1, <2>2, <2>3, <2>5 DEF InvitationsSettleOnce, Exists
  <2>8. ASSUME NEW q \in Person \ {Founder}, role'[q] # "none"
        PROVE  \E j \in Invitation : /\ Exists(j)' /\ invitations'[j].to = q
                                     /\ invitations'[j].uses = 1
    <3>1. CASE q = p
      <4>1. invitations'[i].to = q /\ invitations'[i].uses = 1
        <5> HIDE DEF n
        <5> QED BY <2>2, <2>5, <3>1
      <4> QED BY <1>3, <2>6, <4>1 DEF Exists
    <3>2. CASE q # p
      <4>1. role[q] # "none"
        BY <1>1, <2>1, <2>8, <3>2 DEF OrgTypeOK
      <4>2. PICK j \in Invitation : Exists(j) /\ invitations[j].to = q /\ invitations[j].uses = 1
        BY <1>1, <2>3, <4>1 DEF InvitationsSettleOnce
      <4>3. j # i
        BY <3>2, <4>2
      <4> QED BY <2>2, <4>2, <4>3 DEF Exists
    <3> QED BY <3>1, <3>2
  <2>9. InvitationsSettleOnce'
    BY <2>7, <2>8 DEF InvitationsSettleOnce
  <2> QED BY <2>3, <2>9
<1>6. CASE (DeclineWrite(r) \/ CancelWrite(r)) /\ Exists(i)
  <2>1. /\ \/ invitations' = [invitations EXCEPT ![i] = NoRow]
           \/ invitations' = [invitations EXCEPT ![i] = [invitations[i] EXCEPT !.declined = TRUE]]
        /\ Answered(r) /\ role' = role
    BY <1>6, Zenon DEF DeclineWrite, CancelWrite
  <2>2. \A j \in Invitation \ {i} : invitations'[j] = invitations[j]
    BY <1>1, <2>1 DEF OrgTypeOK
  <2>3. "answer" \notin overlapped /\ Unanswered(i) /\ AnswersFound'
    BY <1>2, <1>3, <2>1, <2>2, AnswersAlone
  <2>4. invitations[i] \in InvitationRow /\ invitations[i].uses = 0
    BY <1>3, <1>6, <1>1, <2>3, ExistingRow DEF Unanswered
  <2>5. invitations'[i] = NoRow \/ invitations'[i].uses = 0
    <3>1. [invitations[i] EXCEPT !.declined = TRUE].uses = 0
      BY <2>4 DEF InvitationRow
    <3>2. invitations'[i] \in {NoRow, [invitations[i] EXCEPT !.declined = TRUE]}
      BY <1>1, <1>3, <2>1 DEF OrgTypeOK
    <3> QED BY <3>1, <3>2
  <2>6. \A j \in Invitation : Exists(j)' => /\ invitations'[j].uses <= 1
                                            /\ invitations'[j].declined => invitations'[j].uses = 0
    BY <1>1, <2>2, <2>3, <2>5 DEF InvitationsSettleOnce, Exists
  <2>7. ASSUME NEW q \in Person \ {Founder}, role'[q] # "none"
        PROVE  \E j \in Invitation : /\ Exists(j)' /\ invitations'[j].to = q
                                     /\ invitations'[j].uses = 1
    <3>1. PICK j \in Invitation : Exists(j) /\ invitations[j].to = q /\ invitations[j].uses = 1
      BY <1>1, <2>1, <2>3, <2>7 DEF InvitationsSettleOnce
    <3>2. j # i
      BY <2>4, <3>1
    <3> QED BY <2>2, <3>1, <3>2 DEF Exists
  <2>8. InvitationsSettleOnce'
    BY <2>6, <2>7 DEF InvitationsSettleOnce
  <2> QED BY <2>3, <2>8
<1>7. \/ UNCHANGED <<invitations, role, overlapped>>
      \/ AcceptWrite(r) /\ Exists(i) /\ role[invitations[i].to] = "none"
      \/ (DeclineWrite(r) \/ CancelWrite(r)) /\ Exists(i)
  BY Zenon DEF AcceptWrite, DeclineWrite, CancelWrite
<1> QED BY <1>4, <1>5, <1>6, <1>7

\* The rest keeps what was answered.
LEMMA AnswersStep ==
  ASSUME OrgInv, [OrgNext]_orgVars PROVE AnswersFound' /\ InvitationsSettleOnce'
<1>0. OrgTypeOK
  BY DEF OrgInv
<1>1. ASSUME invitations' = invitations
      PROVE  \A i \in Invitation : IF Exists(i) THEN Kept(i) ELSE Exists(i)' => Unanswered(i)'
  BY <1>1 DEF Exists, Kept
<1>2. ASSUME NEW r \in Req, OrgRequest(r) \/ AnswerFind(r)
      PROVE  AnswersFound' /\ InvitationsSettleOnce'
  <2>1. /\ \A d \in Req \ {r} : orgCalls'[d] = orgCalls[d]
        /\ \/ orgCalls'[r].at = "find"
           \/ orgCalls'[r].inv \in Invitation /\ Pending(orgCalls'[r].inv)
        /\ UNCHANGED <<role, invitations, overlapped>>
    BY <1>0, <1>2, Starts
  <2>2. \A d \in Req : Answering(d)' =>
           \/ orgCalls'[d] = orgCalls[d]
           \/ orgCalls'[d].inv \in Invitation /\ Unanswered(orgCalls'[d].inv)
    BY <2>1 DEF Answering, At, Pending
  <2> QED BY <1>1, <2>1, <2>2, AnswersFrame
<1>3. ASSUME NEW r \in Req, Finds(r) PROVE AnswersFound' /\ InvitationsSettleOnce'
  <2>1. /\ \A d \in Req \ {r} : orgCalls'[d] = orgCalls[d]
        /\ Found(r)
        /\ UNCHANGED <<role, invitations, overlapped>>
    BY <1>0, <1>3, FindsFound
  <2>2. Answering(r)' => orgCalls'[r].inv \in Invitation /\ Unanswered(orgCalls'[r].inv)
    BY <1>0, <2>1, Carries DEF Found, Answering, At, Idle
  <2> QED BY <1>1, <2>1, <2>2, AnswersFrame
<1>4. ASSUME NEW r \in Req, Writes(r), ~(AcceptWrite(r) \/ DeclineWrite(r) \/ CancelWrite(r))
      PROVE  AnswersFound' /\ InvitationsSettleOnce'
  <2>1. orgCalls'[r] = Idle /\ \A d \in Req \ {r} : orgCalls'[d] = orgCalls[d]
    BY <1>0, <1>4, WritesLeave
  <2>2. \A d \in Req : Answering(d)' => orgCalls'[d] = orgCalls[d]
    BY <2>1 DEF Answering, At, Idle
  <2>3. \A p \in Person : role'[p] # "none" => role[p] # "none"
    <3>1. CASE TransferWrite(r)
      <4>1. \/ role' = role
            \/ /\ "none" \notin {role[orgCalls[r].by], role[orgCalls[r].who]}
               /\ role' = [role EXCEPT ![orgCalls[r].by] = "ADMIN", ![orgCalls[r].who] = "OWNER"]
        BY <3>1, Zenon DEF TransferWrite
      <4> QED BY <1>0, <4>1 DEF OrgTypeOK
    <3>2. CASE RoleWrite(r)
      <4>1. orgCalls[r].who \in Person
        BY <1>0, <3>2, Carries DEF RoleWrite, At
      <4>2. role'[orgCalls[r].who] =
              IF role[orgCalls[r].who] = "none" THEN role[orgCalls[r].who] ELSE orgCalls[r].role
        BY <1>0, <3>2, <4>1 DEF RoleWrite, OrgTypeOK
      <4>3. \A p \in Person \ {orgCalls[r].who} : role'[p] = role[p]
        BY <1>0, <3>2 DEF RoleWrite, OrgTypeOK
      <4> QED BY <4>2, <4>3
    <3>3. CASE RemoveWrite(r)
      BY <1>0, <3>3 DEF RemoveWrite, OrgTypeOK
    <3>4. CASE InviteWrite(r) \/ DeleteWrite(r) \/ RestoreWrite(r)
      BY <3>4 DEF InviteWrite, DeleteWrite, RestoreWrite
    <3> QED BY <1>4, <3>1, <3>2, <3>3, <3>4 DEF Writes
  <2>4. overlapped \subseteq overlapped'
    <3>1. CASE TransferWrite(r)
      BY <3>1 DEF TransferWrite
    <3>2. CASE ~TransferWrite(r)
      BY <1>4, <3>2 DEF Writes, RoleWrite, RemoveWrite, InviteWrite, DeleteWrite, RestoreWrite
    <3> QED BY <3>1, <3>2
  <2>5. CASE InviteWrite(r)
    <3>1. PICK i \in Invitation :
            /\ ~Exists(i)
            /\ invitations' = [invitations EXCEPT ![i] =
                 [to |-> orgCalls[r].who, role |-> orgCalls[r].role, uses |-> 0,
                  declined |-> FALSE, expired |-> FALSE]]
      BY <2>5 DEF InviteWrite
    <3>2. \A j \in Invitation : IF Exists(j) THEN Kept(j) ELSE Exists(j)' => Unanswered(j)'
      BY <1>0, <3>1 DEF Exists, Kept, Unanswered, OrgTypeOK
    <3> QED BY <2>2, <2>3, <2>4, <3>2, AnswersFrame
  <2>6. CASE ~InviteWrite(r)
    <3>1. invitations' = invitations
      BY <1>4, <2>6 DEF Writes, TransferWrite, RoleWrite, RemoveWrite, DeleteWrite, RestoreWrite
    <3> QED BY <1>1, <2>2, <2>3, <2>4, <3>1, AnswersFrame
  <2> QED BY <2>5, <2>6
<1>5. ASSUME NEW i \in Invitation, InvitationExpires(i)
      PROVE  AnswersFound' /\ InvitationsSettleOnce'
  <2>1. UNCHANGED <<role, orgCalls, overlapped>>
        /\ invitations' = [invitations EXCEPT ![i] = [invitations[i] EXCEPT !.expired = TRUE]]
    BY <1>5 DEF InvitationExpires
  <2>2. invitations[i] \in InvitationRow
    BY <1>0, <1>5, ExistingRow DEF InvitationExpires, Pending, Unanswered
  <2> DEFINE n == [invitations[i] EXCEPT !.expired = TRUE]
  <2>3. /\ n \in InvitationRow /\ n.to = invitations[i].to
        /\ n.uses = invitations[i].uses /\ n.declined = invitations[i].declined
    BY <2>2 DEF InvitationRow
  <2>4. invitations'[i] = n /\ \A j \in Invitation \ {i} : invitations'[j] = invitations[j]
    BY <1>0, <2>1 DEF OrgTypeOK
  <2> HIDE DEF n
  <2>5. \A j \in Invitation : IF Exists(j) THEN Kept(j) ELSE Exists(j)' => Unanswered(j)'
    BY <2>2, <2>3, <2>4, InvitationsAreThere DEF Exists, Kept
  <2> QED BY <2>1, <2>5, AnswersFrame
<1>6. CASE GraceEnds \/ UNCHANGED orgVars
  BY <1>1, <1>6, AnswersFrame DEF GraceEnds, orgVars
<1> QED BY <1>2, <1>3, <1>4, <1>5, <1>6, AnswerWriteStep DEF OrgNext, OrgHandle, Finds, Writes

-----------------------------------------------------------------------------
(***************************************************************************)
(* Invitations to one address.                                             *)
(***************************************************************************)
\* A step that makes no invitation pending, and lets nobody on who has not
\* looked for one.
LEMMA InvitesFrame ==
  ASSUME OrgInv, "invite" \notin overlapped' => "invite" \notin overlapped,
         \A i \in Invitation : Pending(i)' => Pending(i) /\ invitations'[i].to = invitations[i].to,
         \A d \in Req : At(d, "invite", "write")' =>
           \/ orgCalls'[d] = orgCalls[d]
           \/ \A i \in Invitation : Pending(i) => invitations[i].to # orgCalls'[d].who
  PROVE  InvitesFound' /\ OnePendingInvitation'
<1>1. OnePendingInvitation'
  BY DEF OrgInv, OnePendingInvitation
<1>2. ASSUME "invite" \notin overlapped',
             NEW d \in Req, NEW i \in Invitation, At(d, "invite", "write")', Pending(i)'
      PROVE  invitations'[i].to # orgCalls'[d].who
  <2>1. Pending(i) /\ invitations'[i].to = invitations[i].to
    BY <1>2
  <2>2. CASE orgCalls'[d] = orgCalls[d]
    <3>1. At(d, "invite", "write")
      BY <1>2, <2>2 DEF At
    <3> QED BY <1>2, <2>1, <2>2, <3>1 DEF OrgInv, InvitesFound
  <2> QED BY <1>2, <2>1, <2>2
<1>3. InvitesFound'
  BY <1>2 DEF InvitesFound
<1> QED BY <1>1, <1>3

LEMMA InviteWriteStep ==
  ASSUME OrgInv, NEW r \in Req, InviteWrite(r) PROVE InvitesFound' /\ OnePendingInvitation'
<1> SUFFICES ASSUME "invite" \notin overlapped'
             PROVE  InvitesFound' /\ OnePendingInvitation'
  BY DEF InvitesFound, OnePendingInvitation
<1> DEFINE p == orgCalls[r].who
<1>1. OrgTypeOK /\ InvitesFound /\ OnePendingInvitation /\ At(r, "invite", "write")
  BY DEF OrgInv, InviteWrite
<1>2. orgCalls'[r] = Idle /\ \A d \in Req \ {r} : orgCalls'[d] = orgCalls[d]
  BY <1>1, WritesLeave DEF Writes
<1>3. PICK i \in Invitation :
        /\ ~Exists(i)
        /\ invitations' = [invitations EXCEPT ![i] =
             [to |-> p, role |-> orgCalls[r].role, uses |-> 0,
              declined |-> FALSE, expired |-> FALSE]]
  BY DEF InviteWrite
<1>4. overlapped' = overlapped \cup
        {"invite" : d \in {d \in Waiting(r) : /\ orgCalls[d].op = "invite"
                                              /\ orgCalls[d].who = p}}
  BY DEF InviteWrite
<1>5. "invite" \notin overlapped
  BY <1>4
<1>6. ASSUME NEW d \in Waiting(r), orgCalls[d].op = "invite" PROVE orgCalls[d].who # p
  BY <1>4, <1>6, Zenon
<1>7. /\ invitations'[i].to = p
      /\ \A j \in Invitation \ {i} : invitations'[j] = invitations[j]
  BY <1>1, <1>3 DEF OrgTypeOK
<1>8. \A j \in Invitation \ {i} : Pending(j)' => Pending(j) /\ invitations[j].to # p
  BY <1>1, <1>5, <1>7 DEF InvitesFound, Pending, Unanswered, Exists
<1>9. OnePendingInvitation'
  BY <1>1, <1>5, <1>7, <1>8 DEF OnePendingInvitation
<1>10. ASSUME NEW d \in Req, NEW j \in Invitation, At(d, "invite", "write")', Pending(j)'
       PROVE  invitations'[j].to # orgCalls'[d].who
  <2>1. d # r /\ orgCalls'[d] = orgCalls[d] /\ At(d, "invite", "write")
    BY <1>2, <1>10 DEF At, Idle
  <2>2. d \in Waiting(r)
    BY <2>1 DEF Waiting, At, Idle
  <2>3. orgCalls[d].who # p
    BY <1>6, <2>1, <2>2 DEF At
  <2>4. CASE j = i
    BY <1>7, <2>1, <2>3, <2>4
  <2>5. CASE j # i
    BY <1>1, <1>5, <1>7, <1>8, <1>10, <2>1, <2>5 DEF InvitesFound
  <2> QED BY <2>4, <2>5
<1>11. InvitesFound'
  BY <1>10 DEF InvitesFound
<1> QED BY <1>9, <1>11

\* An answer makes no invitation pending.
LEMMA AnswerKeepsPending ==
  ASSUME OrgTypeOK, NEW r \in Req, AcceptWrite(r) \/ DeclineWrite(r) \/ CancelWrite(r),
         NEW j \in Invitation, Pending(j)'
  PROVE  Pending(j) /\ invitations'[j].to = invitations[j].to
<1> DEFINE i == orgCalls[r].inv
           u == IF invitations[i].uses = 2 THEN 2 ELSE invitations[i].uses + 1
           accepted == [invitations[i] EXCEPT !.uses = u]
           declined == [invitations[i] EXCEPT !.declined = TRUE]
<1>1. i \in Invitation
  BY Carries DEF AcceptWrite, DeclineWrite, CancelWrite, At
<1>2. CASE invitations' = invitations
  BY <1>2 DEF Pending, Unanswered, Exists
<1>3. CASE Exists(i) /\ invitations' = [invitations EXCEPT ![i] = accepted]
  <2>1. invitations[i] \in InvitationRow
    BY <1>1, <1>3, ExistingRow
  <2>2. u # 0
    BY <2>1 DEF InvitationRow
  <2>3. accepted.uses # 0
    <3> HIDE DEF u
    <3> QED BY <2>1, <2>2 DEF InvitationRow
  <2> HIDE DEF accepted
  <2> QED BY <1>1, <1>3, <2>3 DEF OrgTypeOK, Pending, Unanswered, Exists
<1>4. CASE Exists(i) /\ invitations' = [invitations EXCEPT ![i] = declined]
  <2>1. declined.declined
    BY <1>1, <1>4, ExistingRow DEF InvitationRow
  <2> HIDE DEF declined
  <2> QED BY <1>1, <1>4, <2>1 DEF OrgTypeOK, Pending, Unanswered, Exists
<1>5. CASE invitations' = [invitations EXCEPT ![i] = NoRow]
  BY <1>1, <1>5 DEF OrgTypeOK, Pending, Unanswered, Exists
<1>6. \/ invitations' = invitations
      \/ Exists(i) /\ invitations' = [invitations EXCEPT ![i] = accepted]
      \/ Exists(i) /\ invitations' = [invitations EXCEPT ![i] = declined]
      \/ invitations' = [invitations EXCEPT ![i] = NoRow]
  BY Zenon DEF AcceptWrite, DeclineWrite, CancelWrite
<1> QED BY <1>2, <1>3, <1>4, <1>5, <1>6

LEMMA InvitesStep ==
  ASSUME OrgInv, [OrgNext]_orgVars PROVE InvitesFound' /\ OnePendingInvitation'
<1>0. OrgTypeOK
  BY DEF OrgInv
<1>1. ASSUME invitations' = invitations
      PROVE  \A i \in Invitation : Pending(i)' => Pending(i) /\ invitations'[i].to = invitations[i].to
  BY <1>1 DEF Pending, Unanswered, Exists
<1>2. ASSUME NEW r \in Req, OrgRequest(r) \/ AnswerFind(r)
      PROVE  InvitesFound' /\ OnePendingInvitation'
  <2>1. /\ \A d \in Req \ {r} : orgCalls'[d] = orgCalls[d]
        /\ orgCalls'[r].at = "find" \/ orgCalls'[r].op \in {"accept", "decline"}
        /\ UNCHANGED <<invitations, overlapped>>
    BY <1>0, <1>2, Starts
  <2>2. ~At(r, "invite", "write")'
    BY <2>1 DEF At
  <2> QED BY <1>1, <2>1, <2>2, InvitesFrame
<1>3. ASSUME NEW r \in Req, Finds(r) PROVE InvitesFound' /\ OnePendingInvitation'
  <2>1. /\ \A d \in Req \ {r} : orgCalls'[d] = orgCalls[d]
        /\ Found(r)
        /\ UNCHANGED <<invitations, overlapped>>
    BY <1>0, <1>3, FindsFound
  <2>2. At(r, "invite", "write")' =>
          \A i \in Invitation : Pending(i) => invitations[i].to # orgCalls'[r].who
    BY <2>1 DEF Found, At, Idle
  <2> QED BY <1>1, <2>1, <2>2, InvitesFrame
<1>4. ASSUME NEW r \in Req, Writes(r), ~InviteWrite(r)
      PROVE  InvitesFound' /\ OnePendingInvitation'
  <2>1. orgCalls'[r] = Idle /\ \A d \in Req \ {r} : orgCalls'[d] = orgCalls[d]
    BY <1>0, <1>4, WritesLeave
  <2>2. \A d \in Req : At(d, "invite", "write")' => orgCalls'[d] = orgCalls[d]
    BY <2>1 DEF At, Idle
  <2>3. \A i \in Invitation : Pending(i)' => Pending(i) /\ invitations'[i].to = invitations[i].to
    <3>1. CASE AcceptWrite(r) \/ DeclineWrite(r) \/ CancelWrite(r)
      BY <1>0, <3>1, AnswerKeepsPending
    <3>2. CASE ~(AcceptWrite(r) \/ DeclineWrite(r) \/ CancelWrite(r))
      <4>1. invitations' = invitations
        BY <1>4, <3>2 DEF Writes, TransferWrite, RoleWrite, RemoveWrite, DeleteWrite, RestoreWrite
      <4> QED BY <1>1, <4>1
    <3> QED BY <3>1, <3>2
  <2>4. overlapped \subseteq overlapped'
    <3>1. CASE TransferWrite(r)
      BY <3>1 DEF TransferWrite
    <3>2. CASE AcceptWrite(r)
      BY <3>2 DEF AcceptWrite, Answered
    <3>3. CASE DeclineWrite(r) \/ CancelWrite(r)
      BY <3>3 DEF DeclineWrite, CancelWrite, Answered
    <3>4. CASE RoleWrite(r) \/ RemoveWrite(r) \/ DeleteWrite(r) \/ RestoreWrite(r)
      BY <3>4 DEF RoleWrite, RemoveWrite, DeleteWrite, RestoreWrite
    <3> QED BY <1>4, <3>1, <3>2, <3>3, <3>4 DEF Writes
  <2> QED BY <2>2, <2>3, <2>4, InvitesFrame
<1>5. ASSUME NEW i \in Invitation, InvitationExpires(i)
      PROVE  InvitesFound' /\ OnePendingInvitation'
  <2> DEFINE n == [invitations[i] EXCEPT !.expired = TRUE]
  <2>1. UNCHANGED <<orgCalls, overlapped>> /\ invitations' = [invitations EXCEPT ![i] = n]
    BY <1>5 DEF InvitationExpires
  <2>2. n.expired
    BY <1>0, <1>5, ExistingRow DEF InvitationExpires, Pending, Unanswered, InvitationRow
  <2> HIDE DEF n
  <2>3. \A j \in Invitation : Pending(j)' => Pending(j) /\ invitations'[j].to = invitations[j].to
    BY <1>0, <2>1, <2>2 DEF OrgTypeOK, Pending, Unanswered, Exists
  <2> QED BY <2>1, <2>3, InvitesFrame
<1>6. CASE GraceEnds \/ UNCHANGED orgVars
  BY <1>1, <1>6, InvitesFrame DEF GraceEnds, orgVars
<1> QED BY <1>2, <1>3, <1>4, <1>5, <1>6, InviteWriteStep DEF OrgNext, OrgHandle, Finds, Writes

-----------------------------------------------------------------------------
\* Nobody transfers to himself: what arrives is kept.
LEMMA ApartStep ==
  ASSUME OrgInv, [OrgNext]_orgVars PROVE TransfersApart'
<1>0. OrgTypeOK /\ TransfersApart
  BY DEF OrgInv
<1>1. ASSUME NEW r \in Req, OrgRequest(r) \/ AnswerFind(r) PROVE TransfersApart'
  BY <1>0, <1>1, Starts DEF TransfersApart
<1>2. ASSUME NEW r \in Req, Finds(r) PROVE TransfersApart'
  <2>1. /\ \A d \in Req \ {r} : orgCalls'[d] = orgCalls[d]
        /\ Found(r)
    BY <1>0, <1>2, FindsFound
  <2>2. orgCalls'[r].op = "transfer" => orgCalls'[r].by # orgCalls'[r].who
    BY <1>0, <2>1 DEF TransfersApart, Found, Idle
  <2> QED BY <1>0, <2>1, <2>2 DEF TransfersApart
<1>3. ASSUME NEW r \in Req, Writes(r) PROVE TransfersApart'
  BY <1>0, <1>3, WritesLeave DEF TransfersApart, Idle
<1>4. CASE UNCHANGED orgCalls
  BY <1>0, <1>4 DEF TransfersApart
<1>5. CASE GraceEnds \/ (\E i \in Invitation : InvitationExpires(i)) \/ UNCHANGED orgVars
  BY <1>4, <1>5 DEF GraceEnds, InvitationExpires, orgVars
<1> QED BY <1>1, <1>2, <1>3, <1>5 DEF OrgNext, OrgHandle, Finds, Writes

LEMMA OrgStepInv == OrgInv /\ [OrgNext]_orgVars => OrgInv'
<1> SUFFICES ASSUME OrgInv, [OrgNext]_orgVars PROVE OrgInv'
  OBVIOUS
<1>1. OrgTypeOK'
  BY OrgTypeStep DEF OrgInv
<1> QED BY <1>1, ApartStep, OwnersStep, AnswersStep, InvitesStep DEF OrgInv

-----------------------------------------------------------------------------
\* The invariant, from which the promises follow.
THEOREM OrgInductive == OrgSpec => []OrgInv
BY OrgInitInv, OrgStepInv, PTL DEF OrgSpec

\* The types.
THEOREM OrgTypeCorrect == OrgSpec => []OrgTypeOK
<1>1. OrgInv => OrgTypeOK
  BY DEF OrgInv
<1> QED BY <1>1, OrgInductive, PTL

\* The transfer of ownership, changes of role and removals, each decided on
\* rows read earlier, leave exactly one owner, but for the named overlap.
THEOREM OneOwner == OrgSpec => []SingleOwner
<1>1. OrgInv => SingleOwner
  BY DEF OrgInv
<1> QED BY <1>1, OrgInductive, PTL

\* An invitation lets one person in, once, or is declined or cancelled, and
\* everybody else's membership goes back to one, but for the named overlap.
THEOREM SettledOnce == OrgSpec => []InvitationsSettleOnce
<1>1. OrgInv => InvitationsSettleOnce
  BY DEF OrgInv
<1> QED BY <1>1, OrgInductive, PTL

\* No address has two pending invitations, but for the named overlap.
THEOREM OnePending == OrgSpec => []OnePendingInvitation
<1>1. OrgInv => OnePendingInvitation
  BY DEF OrgInv
<1> QED BY <1>1, OrgInductive, PTL

-----------------------------------------------------------------------------
\* What has more than one element has two.
LEMMA MoreThanOne ==
  ASSUME NEW S, Cardinality(S) > 1, NEW a
  PROVE  S # {a} /\ S # {}
<1>1. Cardinality({a}) = 1 /\ Cardinality({}) = 0
  BY FS_Singleton, FS_EmptySet
<1> QED BY <1>1

-----------------------------------------------------------------------------
(***************************************************************************)
(* Administrators: rows, and what becomes of the requests                  *)
(***************************************************************************)
\* A row is never taken for the absence of one.
LEMMA AdminsAreThere == NoAdmin \notin AdminRow /\ NoAdmin \notin AdminInvRow
<1>1. DOMAIN NoAdmin = {"role"}
  BY DEF NoAdmin
<1>2. \A row \in AdminRow : "deleted" \in DOMAIN row
  BY DEF AdminRow
<1>3. \A row \in AdminInvRow : "expired" \in DOMAIN row
  BY DEF AdminInvRow
<1> QED BY <1>1, <1>2, <1>3

LEMMA AdminFields ==
  ASSUME AdminTypeOK, NEW a \in Admin, admins[a] # NoAdmin
  PROVE  /\ admins[a] \in AdminRow /\ admins[a].role \in AdminRole /\ admins[a].deleted \in BOOLEAN
<1>1. admins[a] \in AdminRow
  BY DEF AdminTypeOK
<1> QED BY <1>1 DEF AdminRow

LEMMA AdminInvFields ==
  ASSUME AdminTypeOK, NEW i \in AdminInvitation, adminInv[i] # NoAdmin
  PROVE  /\ adminInv[i] \in AdminInvRow /\ adminInv[i].to \in Admin
         /\ adminInv[i].role \in AdminRole
<1>1. adminInv[i] \in AdminInvRow
  BY DEF AdminTypeOK
<1> QED BY <1>1 DEF AdminInvRow

LEMMA AdminCallFields ==
  ASSUME AdminTypeOK, NEW r \in Req
  PROVE  /\ adminCalls[r].op = "update" =>
              adminCalls[r] \in [op : {"update"}, at : {"find", "write", "invalidate"}, by : Admin,
                                 who : Admin, role : AdminRole]
         /\ adminCalls[r].op = "remove" =>
              adminCalls[r] \in [op : {"remove"}, at : {"find", "write", "invalidate"}, who : Admin]
         /\ adminCalls[r].op = "invite" =>
              adminCalls[r] \in [op : {"invite"}, at : {"find", "write"}, who : Admin, role : AdminRole]
         /\ adminCalls[r].op = "accept" =>
              adminCalls[r] \in [op : {"accept"}, at : {"lookup", "update", "create", "mark"},
                                 inv : AdminInvitation]
         /\ adminCalls[r].op = "view" =>
              adminCalls[r] \in [op : {"view"}, at : {"fill"}, who : Admin, row : AdminRow]
<1>1. adminCalls[r] \in AdminCall
  BY DEF AdminTypeOK
<1> QED BY <1>1 DEF AdminCall, Idle

LEMMA AdminIdle == Idle \in AdminCall /\ Idle.op = "idle"
BY DEF AdminCall, Idle

LEMMA AdminLeaves ==
  ASSUME AdminTypeOK, NEW r \in Req, AdminLeave(r)
  PROVE  /\ adminCalls' \in [Req -> AdminCall] /\ adminCalls'[r] = Idle
         /\ \A d \in Req \ {r} : adminCalls'[d] = adminCalls[d]
BY AdminIdle DEF AdminTypeOK, AdminLeave, End

\* One that goes on is the same request, further on.
LEMMA AdminMoves ==
  ASSUME AdminTypeOK, NEW r \in Req, NEW at, AdminTo(r, at),
         \/ adminCalls[r].op \in {"update", "remove"} /\ at \in {"write", "invalidate"}
         \/ adminCalls[r].op = "invite" /\ at = "write"
         \/ adminCalls[r].op = "accept" /\ at \in {"update", "create", "mark"}
  PROVE  /\ adminCalls' \in [Req -> AdminCall]
         /\ \A d \in Req \ {r} : adminCalls'[d] = adminCalls[d]
         /\ adminCalls'[r].op = adminCalls[r].op /\ adminCalls'[r].at = at
         /\ adminCalls[r].op \in {"update", "remove", "invite"} =>
              adminCalls'[r].who = adminCalls[r].who
         /\ adminCalls[r].op = "update" => adminCalls'[r].role = adminCalls[r].role
         /\ adminCalls[r].op = "accept" => adminCalls'[r].inv = adminCalls[r].inv
<1> DEFINE c == adminCalls[r]
           n == [c EXCEPT !.at = at]
<1>1. /\ n \in AdminCall /\ n.op = c.op /\ n.at = at
      /\ c.op \in {"update", "remove", "invite"} => n.who = c.who
      /\ c.op = "update" => n.role = c.role
      /\ c.op = "accept" => n.inv = c.inv
  <2>1. CASE c.op = "update"
    <3>1. /\ n \in [op : {"update"}, at : {"find", "write", "invalidate"}, by : Admin,
                    who : Admin, role : AdminRole]
          /\ n.op = c.op /\ n.at = at /\ n.who = c.who /\ n.role = c.role
      BY <2>1, AdminCallFields
    <3> HIDE DEF n
    <3> QED BY <2>1, <3>1 DEF AdminCall
  <2>2. CASE c.op = "remove"
    <3>1. /\ n \in [op : {"remove"}, at : {"find", "write", "invalidate"}, who : Admin]
          /\ n.op = c.op /\ n.at = at /\ n.who = c.who
      BY <2>2, AdminCallFields
    <3> HIDE DEF n
    <3> QED BY <2>2, <3>1 DEF AdminCall
  <2>3. CASE c.op = "invite"
    <3>1. /\ n \in [op : {"invite"}, at : {"find", "write"}, who : Admin, role : AdminRole]
          /\ n.op = c.op /\ n.at = at /\ n.who = c.who
      BY <2>3, AdminCallFields
    <3> HIDE DEF n
    <3> QED BY <2>3, <3>1 DEF AdminCall
  <2>4. CASE c.op = "accept"
    <3>1. /\ n \in [op : {"accept"}, at : {"lookup", "update", "create", "mark"},
                    inv : AdminInvitation]
          /\ n.op = c.op /\ n.at = at /\ n.inv = c.inv
      BY <2>4, AdminCallFields
    <3> HIDE DEF n
    <3> QED BY <2>4, <3>1 DEF AdminCall
  <2> QED BY <2>1, <2>2, <2>3, <2>4
<1>2. adminCalls' = [adminCalls EXCEPT ![r] = n] /\ adminCalls \in [Req -> AdminCall]
  BY DEF AdminTo, AdminTypeOK
<1> HIDE DEF n
<1> QED BY <1>1, <1>2

LEMMA AdminInitInv == AdminInit => AdminInv
<1> SUFFICES ASSUME AdminInit PROVE AdminInv
  OBVIOUS
<1>1. AdminTypeOK
  BY AdminIdle DEF AdminInit, AdminTypeOK
<1>2. \A r \in Req : adminCalls[r] = Idle /\ adminCalls[r].op = "idle"
  BY AdminIdle DEF AdminInit
<1>3. Founded /\ RowsFound
  BY <1>2 DEF AdminInit, Founded, RowsFound
<1>4. RanksCounted /\ CopiesCurrent
  BY <1>2 DEF AdminInit, RanksCounted, CopiesCurrent, Demotes, AdminAt
<1> QED BY <1>1, <1>3, <1>4 DEF AdminInv

-----------------------------------------------------------------------------
(***************************************************************************)
(* Administrators: the steps                                               *)
(***************************************************************************)
\* A request begins or goes on without writing: what it relies on holds.
LEMMA AdminCallInv ==
  ASSUME AdminInv, NEW r \in Req, UNCHANGED <<admins, adminInv, detail, adminOverlap>>,
         adminCalls' \in [Req -> AdminCall],
         \A d \in Req \ {r} : adminCalls'[d] = adminCalls[d],
         \E a \in Admin : admins[a] # NoAdmin,
         adminCalls[r] = Idle \/ adminCalls[r].at # "invalidate",
         /\ adminCalls'[r].op \in {"update", "remove"} /\ adminCalls'[r].at # "find"
              => admins[adminCalls'[r].who] # NoAdmin
         /\ adminCalls'[r].op = "accept" => adminInv[adminCalls'[r].inv] # NoAdmin
         /\ Demotes(r)' => SuperAdmins # {adminCalls'[r].who}
         /\ adminCalls'[r].op = "view" => adminCalls'[r].row = admins[adminCalls'[r].who]
  PROVE  AdminInv'
<1>1. AdminTypeOK' /\ Founded'
  BY DEF AdminInv, AdminTypeOK, Founded
<1>2. RowsFound'
  BY DEF AdminInv, RowsFound
<1>3. SuperAdmins' = SuperAdmins
  BY DEF SuperAdmins, Super, Active
<1>4. ASSUME RanksCounted PROVE RanksCounted'
  <2>1. \A d \in Req \ {r} : Demotes(d)' => Demotes(d)
    BY DEF Demotes, AdminAt
  <2> QED BY <1>3, <1>4, <2>1 DEF RanksCounted
<1>5. ASSUME CopiesCurrent PROVE CopiesCurrent'
  <2>1. \A d \in Req : adminCalls[d] # Idle /\ adminCalls[d].at = "invalidate"
                         => adminCalls'[d] = adminCalls[d]
    OBVIOUS
  <2> QED BY <1>5, <2>1 DEF CopiesCurrent
<1> QED BY <1>1, <1>2, <1>4, <1>5 DEF AdminInv

LEMMA AdminStartInv ==
  ASSUME AdminInv, NEW r \in Req, AdminRequest(r) \/ AcceptFind(r) \/ ViewRead(r)
  PROVE  AdminInv'
<1>1. AdminTypeOK
  BY DEF AdminInv
<1>2. UNCHANGED <<admins, adminInv, detail, adminOverlap>> /\ adminCalls[r] = Idle
  BY DEF AdminRequest, AcceptFind, ViewRead, AdminStart
<1>3. \E a \in Admin : admins[a] # NoAdmin
  BY DEF AdminRequest, AcceptFind, ViewRead, SuperAdmins, Super, Active, Acceptable, AdminInv, Founded
<1>4. PICK call \in AdminCall : /\ adminCalls' = [adminCalls EXCEPT ![r] = call]
        /\ \/ call.op \in {"update", "invite", "remove"} /\ call.at = "find"
           \/ call.op = "accept" /\ call.at = "lookup" /\ adminInv[call.inv] # NoAdmin
           \/ call.op = "view" /\ call.row = admins[call.who]
  <2>1. CASE AdminRequest(r)
    <3>1. \A b, a \in Admin, g \in AdminRole :
            /\ [op |-> "update", at |-> "find", by |-> b, who |-> a, role |-> g] \in AdminCall
            /\ [op |-> "invite", at |-> "find", who |-> a, role |-> g] \in AdminCall
      BY DEF AdminCall
    <3>2. PICK b \in Admin, a \in Admin :
            \/ \E g \in AdminRole :
                 \/ AdminStart(r, [op |-> "update", at |-> "find", by |-> b, who |-> a, role |-> g])
                 \/ AdminStart(r, [op |-> "invite", at |-> "find", who |-> a, role |-> g])
            \/ AdminStart(r, [op |-> "remove", at |-> "find", who |-> a])
      BY <2>1 DEF AdminRequest, SuperAdmins
    <3>3. CASE AdminStart(r, [op |-> "remove", at |-> "find", who |-> a])
      <4>1. [op |-> "remove", at |-> "find", who |-> a] \in AdminCall
        BY DEF AdminCall
      <4> QED BY <3>3, <4>1 DEF AdminStart
    <3>4. ASSUME NEW g \in AdminRole,
                 AdminStart(r, [op |-> "update", at |-> "find", by |-> b, who |-> a, role |-> g])
          PROVE  \E call \in AdminCall : /\ adminCalls' = [adminCalls EXCEPT ![r] = call]
                                         /\ call.op = "update" /\ call.at = "find"
      BY <3>1, <3>4 DEF AdminStart
    <3>5. ASSUME NEW g \in AdminRole,
                 AdminStart(r, [op |-> "invite", at |-> "find", who |-> a, role |-> g])
          PROVE  \E call \in AdminCall : /\ adminCalls' = [adminCalls EXCEPT ![r] = call]
                                         /\ call.op = "invite" /\ call.at = "find"
      BY <3>1, <3>5 DEF AdminStart
    <3> QED BY <3>2, <3>3, <3>4, <3>5
  <2>2. CASE AcceptFind(r)
    <3>1. \A i \in AdminInvitation : [op |-> "accept", at |-> "lookup", inv |-> i] \in AdminCall
      BY DEF AdminCall
    <3> QED BY <2>2, <3>1 DEF AcceptFind, AdminStart, Acceptable
  <2>3. CASE ViewRead(r)
    <3>1. \A a \in Admin, row \in AdminRow :
            [op |-> "view", at |-> "fill", who |-> a, row |-> row] \in AdminCall
      BY DEF AdminCall
    <3> QED BY <1>1, <2>3, <3>1, AdminFields DEF ViewRead, AdminStart
  <2> QED BY <2>1, <2>2, <2>3
<1>5. /\ adminCalls' \in [Req -> AdminCall] /\ adminCalls'[r] = call
      /\ \A d \in Req \ {r} : adminCalls'[d] = adminCalls[d]
  BY <1>1, <1>4 DEF AdminTypeOK
<1>6. ~Demotes(r)'
  BY <1>4, <1>5 DEF Demotes, AdminAt
<1> QED BY <1>2, <1>3, <1>4, <1>5, <1>6, AdminCallInv

\* A check: who goes on has found the row and, to take a rank, another one
\* with it.
LEMMA AdminCheckInv ==
  ASSUME AdminInv, NEW r \in Req,
         UpdateFind(r) \/ RemoveAdminFind(r) \/ InviteAdminFind(r) \/ AcceptLookup(r)
  PROVE  AdminInv'
<1>1. AdminTypeOK
  BY DEF AdminInv
<1>2. UNCHANGED <<admins, adminInv, detail, adminOverlap>>
  BY DEF UpdateFind, RemoveAdminFind, InviteAdminFind, AcceptLookup, AdminCheck
<1>3. /\ adminCalls[r].op \in {"update", "remove", "invite", "accept"}
      /\ adminCalls[r].at # "invalidate" /\ adminCalls[r] # Idle
  BY AdminIdle DEF UpdateFind, RemoveAdminFind, InviteAdminFind, AcceptLookup, AdminAt
<1>4. \E a \in Admin : admins[a] # NoAdmin
  BY <1>3 DEF AdminInv, Founded
<1>5. CASE AdminLeave(r)
  <2>1. /\ adminCalls' \in [Req -> AdminCall] /\ adminCalls'[r].op = "idle"
        /\ \A d \in Req \ {r} : adminCalls'[d] = adminCalls[d]
    BY <1>1, <1>5, AdminLeaves, AdminIdle
  <2>2. ~Demotes(r)'
    BY <2>1 DEF Demotes, AdminAt
  <2> QED BY <1>2, <1>3, <1>4, <2>1, <2>2, AdminCallInv
<1>6. CASE UpdateFind(r) /\ ~AdminLeave(r)
  <2> DEFINE c == adminCalls[r]
  <2>1. /\ c.op = "update" /\ AdminTo(r, "write") /\ Active(c.who)
        /\ c.role # admins[c.who].role /\ Super(c.who) => Cardinality(SuperAdmins) > 1
    BY <1>6 DEF UpdateFind, AdminCheck, AdminAt
  <2>2. /\ adminCalls' \in [Req -> AdminCall] /\ adminCalls'[r].op = "update"
        /\ adminCalls'[r].who = c.who /\ adminCalls'[r].role = c.role
        /\ \A d \in Req \ {r} : adminCalls'[d] = adminCalls[d]
    BY <1>1, <2>1, AdminMoves
  <2>3. Demotes(r)' => SuperAdmins # {c.who}
    <3>1. Demotes(r)' => c.role = "ADMIN"
      BY <2>2 DEF Demotes, AdminAt
    <3>2. ASSUME c.role = "ADMIN", SuperAdmins = {c.who} PROVE FALSE
      <4>1. Super(c.who)
        BY <3>2 DEF SuperAdmins
      <4>2. c.role # admins[c.who].role
        BY <3>2, <4>1 DEF Super
      <4>3. Cardinality(SuperAdmins) > 1
        BY <2>1, <4>1, <4>2
      <4> QED BY <3>2, <4>3, MoreThanOne
    <3> QED BY <3>1, <3>2
  <2>4. admins[c.who] # NoAdmin
    BY <2>1 DEF Active
  <2> QED BY <1>2, <1>3, <1>4, <2>2, <2>3, <2>4, AdminCallInv
<1>7. CASE RemoveAdminFind(r) /\ ~AdminLeave(r)
  <2> DEFINE c == adminCalls[r]
  <2>1. /\ c.op = "remove" /\ AdminTo(r, "write") /\ Active(c.who)
        /\ Super(c.who) => Cardinality(SuperAdmins) > 1
    BY <1>7 DEF RemoveAdminFind, AdminCheck, AdminAt
  <2>2. /\ adminCalls' \in [Req -> AdminCall] /\ adminCalls'[r].op = "remove"
        /\ adminCalls'[r].who = c.who
        /\ \A d \in Req \ {r} : adminCalls'[d] = adminCalls[d]
    BY <1>1, <2>1, AdminMoves
  <2>3. SuperAdmins # {c.who}
    <3> SUFFICES ASSUME SuperAdmins = {c.who} PROVE FALSE
      OBVIOUS
    <3>1. Super(c.who)
      BY DEF SuperAdmins
    <3> QED BY <2>1, <3>1, MoreThanOne
  <2>4. admins[c.who] # NoAdmin
    BY <2>1 DEF Active
  <2> QED BY <1>2, <1>3, <1>4, <2>2, <2>3, <2>4, AdminCallInv
<1>8. CASE InviteAdminFind(r) /\ ~AdminLeave(r)
  <2>1. adminCalls[r].op = "invite" /\ AdminTo(r, "write")
    BY <1>8 DEF InviteAdminFind, AdminCheck, AdminAt
  <2>2. /\ adminCalls' \in [Req -> AdminCall] /\ adminCalls'[r].op = "invite"
        /\ \A d \in Req \ {r} : adminCalls'[d] = adminCalls[d]
    BY <1>1, <2>1, AdminMoves
  <2>3. ~Demotes(r)'
    BY <2>2 DEF Demotes, AdminAt
  <2> QED BY <1>2, <1>3, <1>4, <2>2, <2>3, AdminCallInv
<1>9. CASE AcceptLookup(r)
  <2>1. PICK at \in {"update", "create"} : AdminTo(r, at)
    BY <1>9 DEF AcceptLookup
  <2>2. adminCalls[r].op = "accept" /\ adminInv[adminCalls[r].inv] # NoAdmin
    BY <1>9 DEF AcceptLookup, AdminAt, AdminInv, RowsFound
  <2>3. /\ adminCalls' \in [Req -> AdminCall] /\ adminCalls'[r].op = "accept"
        /\ adminCalls'[r].inv = adminCalls[r].inv
        /\ \A d \in Req \ {r} : adminCalls'[d] = adminCalls[d]
    BY <1>1, <2>1, <2>2, AdminMoves
  <2>4. ~Demotes(r)'
    BY <2>3 DEF Demotes, AdminAt
  <2> QED BY <1>2, <1>3, <1>4, <2>2, <2>3, <2>4, AdminCallInv
<1> QED BY <1>5, <1>6, <1>7, <1>8, <1>9

\* Requests only end: none of those that are to invalidate a copy.
AdminQuits == /\ adminCalls' \in [Req -> AdminCall]
              /\ \A d \in Req : \/ adminCalls'[d] = adminCalls[d]
                                \/ adminCalls'[d] = Idle /\ adminCalls[d].at # "invalidate"

LEMMA QuitsKeep ==
  ASSUME AdminQuits
  PROVE  /\ \A d \in Req : Demotes(d)' => Demotes(d) /\ adminCalls'[d] = adminCalls[d]
         /\ \A d \in Req : adminCalls'[d] # Idle => adminCalls'[d] = adminCalls[d]
         /\ \A d \in Req : adminCalls'[d].op # "idle" => adminCalls'[d] = adminCalls[d]
         /\ \A d \in Req : adminCalls[d].at = "invalidate" => adminCalls'[d] = adminCalls[d]
BY AdminIdle DEF AdminQuits, Demotes, AdminAt

LEMMA LeaverQuits ==
  ASSUME AdminTypeOK, NEW r \in Req, AdminLeave(r), adminCalls[r].at # "invalidate"
  PROVE  AdminQuits
BY AdminLeaves DEF AdminQuits

\* An invitation is written.
LEMMA AdminInvWriteInv ==
  ASSUME AdminInv, AdminQuits, NEW i \in AdminInvitation, NEW row \in AdminInvRow,
         adminInv' = [adminInv EXCEPT ![i] = row], UNCHANGED <<admins, detail, adminOverlap>>,
         \E a \in Admin : admins[a] # NoAdmin
  PROVE  AdminInv'
<1>1. AdminTypeOK' /\ Founded'
  BY DEF AdminInv, AdminTypeOK, AdminQuits, Founded
<1>2. \A j \in AdminInvitation : adminInv[j] # NoAdmin => adminInv'[j] # NoAdmin
  BY AdminsAreThere DEF AdminInv, AdminTypeOK
<1>3. RowsFound'
  <2> SUFFICES ASSUME NEW r \in Req, adminCalls'[r].op # "idle"
               PROVE  LET c == adminCalls'[r]
                      IN /\ c.op \in {"update", "remove"} /\ c.at # "find" => admins'[c.who] # NoAdmin
                         /\ c.op = "accept" => adminInv'[c.inv] # NoAdmin
    BY DEF RowsFound
  <2>1. adminCalls'[r] = adminCalls[r]
    BY QuitsKeep
  <2>2. adminCalls[r].op = "accept" => adminCalls[r].inv \in AdminInvitation
    BY AdminCallFields DEF AdminInv
  <2> QED BY <1>2, <2>1, <2>2 DEF AdminInv, RowsFound
<1>4. SuperAdmins' = SuperAdmins
  BY DEF SuperAdmins, Super, Active
<1>5. ASSUME RanksCounted PROVE RanksCounted'
  BY <1>4, <1>5, QuitsKeep DEF RanksCounted
<1>6. ASSUME CopiesCurrent PROVE CopiesCurrent'
  <2>1. \A r \in Req : adminCalls'[r].op = "view" => adminCalls'[r] = adminCalls[r]
    BY QuitsKeep
  <2> QED BY <1>6, <2>1, QuitsKeep DEF CopiesCurrent
<1> QED BY <1>1, <1>3, <1>5, <1>6 DEF AdminInv

LEMMA AdminInvitationInv ==
  ASSUME AdminInv,
         \/ \E r \in Req : InviteAdminWrite(r) \/ AcceptMark(r)
         \/ \E i \in AdminInvitation : AdminInvExpires(i)
  PROVE  AdminInv'
<1>1. AdminTypeOK
  BY DEF AdminInv
<1>2. ASSUME NEW r \in Req, InviteAdminWrite(r) PROVE AdminInv'
  <2> DEFINE row == [to |-> adminCalls[r].who, role |-> adminCalls[r].role, accepted |-> FALSE,
                     expired |-> FALSE]
  <2>1. PICK i \in AdminInvitation : adminInv' = [adminInv EXCEPT ![i] = row]
    BY <1>2 DEF InviteAdminWrite
  <2>2. /\ adminCalls[r].op = "invite" /\ adminCalls[r].at = "write" /\ AdminLeave(r)
        /\ UNCHANGED <<admins, detail, adminOverlap>>
    BY <1>2 DEF InviteAdminWrite, AdminAt
  <2>3. row \in AdminInvRow
    BY <1>1, <2>2, AdminCallFields DEF AdminInvRow
  <2>4. adminCalls[r] # Idle
    BY <2>2, AdminIdle
  <2>5. \E a \in Admin : admins[a] # NoAdmin
    BY <2>4 DEF AdminInv, Founded
  <2> HIDE DEF row
  <2> QED BY <1>1, <2>1, <2>2, <2>3, <2>5, LeaverQuits, AdminInvWriteInv
<1>3. ASSUME NEW r \in Req, AcceptMark(r) PROVE AdminInv'
  <2> DEFINE i == adminCalls[r].inv
             row == [adminInv[i] EXCEPT !.accepted = TRUE]
  <2>1. /\ adminCalls[r].op = "accept" /\ adminCalls[r].at = "mark" /\ AdminLeave(r)
        /\ adminInv' = [adminInv EXCEPT ![i] = row] /\ UNCHANGED <<admins, detail, adminOverlap>>
    BY <1>3 DEF AcceptMark, AdminAt
  <2>2. i \in AdminInvitation /\ adminInv[i] # NoAdmin
    BY <1>1, <2>1, AdminCallFields DEF AdminInv, RowsFound
  <2>3. row \in AdminInvRow
    BY <1>1, <2>2, AdminInvFields DEF AdminInvRow
  <2>4. \E a \in Admin : admins[a] # NoAdmin
    BY <2>2 DEF AdminInv, Founded
  <2> HIDE DEF row, i
  <2> QED BY <1>1, <2>1, <2>2, <2>3, <2>4, LeaverQuits, AdminInvWriteInv
<1>4. ASSUME NEW i \in AdminInvitation, AdminInvExpires(i) PROVE AdminInv'
  <2> DEFINE row == [adminInv[i] EXCEPT !.expired = TRUE]
  <2>1. /\ adminInv[i] # NoAdmin /\ adminInv' = [adminInv EXCEPT ![i] = row]
        /\ UNCHANGED <<admins, detail, adminCalls, adminOverlap>>
    BY <1>4 DEF AdminInvExpires, Acceptable
  <2>2. row \in AdminInvRow
    BY <1>1, <2>1, AdminInvFields DEF AdminInvRow
  <2>3. \E a \in Admin : admins[a] # NoAdmin
    BY <2>1 DEF AdminInv, Founded
  <2>4. AdminQuits
    BY <1>1, <2>1 DEF AdminQuits, AdminTypeOK
  <2> HIDE DEF row
  <2> QED BY <2>1, <2>2, <2>3, <2>4, AdminInvWriteInv
<1> QED BY <1>2, <1>3, <1>4

\* The copy of a row is cached, or dropped.
LEMMA DetailInv ==
  ASSUME AdminInv,
         \/ \E r \in Req : ViewFill(r) \/ Invalidate(r)
         \/ \E a \in Admin : DetailExpires(a)
  PROVE  AdminInv'
<1>1. AdminTypeOK
  BY DEF AdminInv
<1>2. UNCHANGED <<admins, adminInv, adminOverlap>>
  BY DEF ViewFill, Invalidate, DetailExpires
<1>3. PICK a \in Admin, copy \in AdminRow \cup {NoAdmin} :
        /\ detail' = [detail EXCEPT ![a] = copy]
        /\ adminCalls' \in [Req -> AdminCall]
        /\ \A d \in Req : \/ adminCalls'[d] = adminCalls[d]
                          \/ /\ adminCalls'[d] = Idle
                             /\ adminCalls[d].at = "invalidate" => adminCalls[d].who = a
        /\ CopiesCurrent => copy \in {NoAdmin, admins[a]}
  <2>1. ASSUME NEW r \in Req, ViewFill(r)
        PROVE  /\ detail' = [detail EXCEPT ![adminCalls[r].who] = adminCalls[r].row]
               /\ adminCalls[r].who \in Admin /\ adminCalls[r].row \in AdminRow
               /\ adminCalls[r].at = "fill" /\ adminCalls[r].op = "view" /\ AdminLeave(r)
    BY <1>1, <2>1, AdminCallFields DEF ViewFill, AdminAt
  <2>2. ASSUME NEW r \in Req, Invalidate(r)
        PROVE  /\ detail' = [detail EXCEPT ![adminCalls[r].who] = NoAdmin]
               /\ adminCalls[r].who \in Admin /\ AdminLeave(r)
    BY <1>1, <2>2, AdminCallFields DEF Invalidate, AdminAt
  <2>3. ASSUME NEW r \in Req, ViewFill(r)
        PROVE  CopiesCurrent => adminCalls[r].row = admins[adminCalls[r].who]
    BY <2>1, <2>3 DEF CopiesCurrent
  <2>4. ASSUME NEW r \in Req, AdminLeave(r)
        PROVE  /\ adminCalls' \in [Req -> AdminCall]
               /\ adminCalls'[r] = Idle /\ \A d \in Req \ {r} : adminCalls'[d] = adminCalls[d]
    BY <1>1, <2>4, AdminLeaves
  <2>5. CASE \E r \in Req : ViewFill(r)
    <3>1. PICK r \in Req : ViewFill(r)
      BY <2>5
    <3> QED BY <2>1, <2>3, <2>4, <3>1
  <2>6. CASE \E r \in Req : Invalidate(r)
    <3>1. PICK r \in Req : Invalidate(r)
      BY <2>6
    <3> QED BY <2>2, <2>4, <3>1
  <2>7. CASE \E a \in Admin : DetailExpires(a)
    BY <1>1, <2>7 DEF DetailExpires, AdminTypeOK
  <2> QED BY <2>5, <2>6, <2>7
<1>4. /\ detail' \in [Admin -> AdminRow \cup {NoAdmin}] /\ detail'[a] = copy
      /\ \A b \in Admin \ {a} : detail'[b] = detail[b]
  BY <1>1, <1>3 DEF AdminTypeOK
<1>5. AdminTypeOK'
  BY <1>1, <1>2, <1>3, <1>4 DEF AdminTypeOK
<1>6. Founded' /\ RowsFound'
  BY <1>2, <1>3, AdminIdle DEF AdminInv, Founded, RowsFound
<1>7. ASSUME RanksCounted PROVE RanksCounted'
  <2>1. SuperAdmins' = SuperAdmins
    BY <1>2 DEF SuperAdmins, Super, Active
  <2>2. \A d \in Req : Demotes(d)' => Demotes(d) /\ adminCalls'[d] = adminCalls[d]
    BY <1>3, AdminIdle DEF Demotes, AdminAt
  <2> QED BY <1>2, <1>7, <2>1, <2>2 DEF RanksCounted
<1>8. ASSUME CopiesCurrent PROVE CopiesCurrent'
  <2>1. \A d \in Req : adminCalls'[d].op = "view" => adminCalls'[d] = adminCalls[d]
    BY <1>3, AdminIdle
  <2>2. detail'[a] \in {NoAdmin, admins'[a]}
    BY <1>2, <1>3, <1>4, <1>8
  <2>3. ASSUME NEW b \in Admin \ {a}
        PROVE  detail'[b] \in {NoAdmin, admins'[b]} \/
          \E d \in Req : adminCalls'[d] # Idle /\ adminCalls'[d].at = "invalidate"
                         /\ adminCalls'[d].who = b
    BY <1>2, <1>3, <1>4, <1>8 DEF CopiesCurrent
  <2> QED BY <1>2, <1>8, <2>1, <2>2, <2>3 DEF CopiesCurrent
<1> QED BY <1>2, <1>5, <1>6, <1>7, <1>8 DEF AdminInv

\* A row is written: its copy is missing, or about to be dropped.
LEMMA SetRowCopies ==
  ASSUME AdminInv, NEW a \in Admin, NEW row, NEW kinds, SetRow(a, row, kinds), detail' = detail,
         {"fill", "activation", "crash"} \cap adminOverlap' = {},
         \A d \in Req : adminCalls'[d].op = "view" => adminCalls'[d] = adminCalls[d],
         \A d \in Req : adminCalls[d].at = "invalidate" => adminCalls'[d] = adminCalls[d],
         CopiesCurrent =>
           \/ detail[a] = NoAdmin
           \/ \E d \in Req : /\ adminCalls'[d] # Idle /\ adminCalls'[d].at = "invalidate"
                             /\ adminCalls'[d].who = a
  PROVE  CopiesCurrent'
<1>1. /\ admins' = [admins EXCEPT ![a] = row]
      /\ adminOverlap' = adminOverlap \cup kinds \cup {"fill" : d \in Filling(a)}
  BY DEF SetRow
<1>2. {"fill", "activation", "crash"} \cap adminOverlap = {} /\ Filling(a) = {}
  BY <1>1
<1>3. CopiesCurrent /\ AdminTypeOK
  BY <1>2 DEF AdminInv
<1>4. \A b \in Admin \ {a} : admins'[b] = admins[b]
  BY <1>1, <1>3 DEF AdminTypeOK
<1>5. \A d \in Req : adminCalls'[d].op = "view" => adminCalls'[d].row = admins'[adminCalls'[d].who]
  <2> SUFFICES ASSUME NEW d \in Req, adminCalls'[d].op = "view"
               PROVE  adminCalls'[d].row = admins'[adminCalls'[d].who]
    OBVIOUS
  <2>1. adminCalls'[d] = adminCalls[d] /\ adminCalls[d].op = "view"
    OBVIOUS
  <2>2. adminCalls[d].who \in Admin \ {a}
    BY <1>2, <1>3, <2>1, AdminCallFields DEF Filling
  <2> QED BY <1>3, <1>4, <2>1, <2>2 DEF CopiesCurrent
<1>6. ASSUME NEW b \in Admin \ {a}
      PROVE  detail'[b] \in {NoAdmin, admins'[b]} \/
        \E d \in Req : /\ adminCalls'[d] # Idle /\ adminCalls'[d].at = "invalidate"
                       /\ adminCalls'[d].who = b
  BY <1>3, <1>4 DEF CopiesCurrent
<1>7. detail'[a] \in {NoAdmin, admins'[a]} \/
        \E d \in Req : /\ adminCalls'[d] # Idle /\ adminCalls'[d].at = "invalidate"
                       /\ adminCalls'[d].who = a
  BY <1>3
<1> QED BY <1>5, <1>6, <1>7 DEF CopiesCurrent

LEMMA SetRowRows ==
  ASSUME AdminTypeOK, NEW a \in Admin, NEW row \in AdminRow, NEW kinds, SetRow(a, row, kinds),
         kinds \subseteq {"demotion", "activation"}
  PROVE  /\ admins' \in [Admin -> AdminRow \cup {NoAdmin}]
         /\ admins'[a] = row /\ \A b \in Admin \ {a} : admins'[b] = admins[b]
         /\ \A b \in Admin : admins[b] # NoAdmin => admins'[b] # NoAdmin
         /\ \E b \in Admin : admins'[b] # NoAdmin
         /\ adminOverlap' \subseteq {"demotion", "activation", "fill", "crash"}
         /\ kinds \subseteq adminOverlap' /\ adminOverlap \subseteq adminOverlap'
         /\ SuperAdmins' = {b \in SuperAdmins : b # a}
                             \cup {b \in {a} : row.role = "SUPER_ADMIN" /\ ~row.deleted}
<1>1. /\ admins' = [admins EXCEPT ![a] = row]
      /\ adminOverlap' = adminOverlap \cup kinds \cup {"fill" : d \in Filling(a)}
  BY DEF SetRow
<1>2. /\ admins' \in [Admin -> AdminRow \cup {NoAdmin}]
      /\ admins'[a] = row /\ \A b \in Admin \ {a} : admins'[b] = admins[b]
  BY <1>1 DEF AdminTypeOK
<1>3. row # NoAdmin
  BY AdminsAreThere
<1>4. SuperAdmins' = {b \in SuperAdmins : b # a}
                       \cup {b \in {a} : row.role = "SUPER_ADMIN" /\ ~row.deleted}
  BY <1>2, <1>3 DEF SuperAdmins, Super, Active
<1> QED BY <1>1, <1>2, <1>3, <1>4 DEF AdminTypeOK

\* A rank is taken by the only one about to take one, or none is.
LEMMA SetRowRanks ==
  ASSUME RanksCounted, NEW a \in Admin, \E b \in Admin : admins[b] # NoAdmin,
         \A d \in Req : Demotes(d)' => Demotes(d) /\ adminCalls'[d].who = adminCalls[d].who,
         \/ SuperAdmins \subseteq SuperAdmins'
         \/ /\ SuperAdmins \ {a} \subseteq SuperAdmins' /\ SuperAdmins # {a}
            /\ \A d \in Req : ~Demotes(d)'
  PROVE  RanksCounted'
<1>1. SuperAdmins # {}
  BY DEF RanksCounted
<1>2. CASE SuperAdmins \subseteq SuperAdmins'
  BY <1>1, <1>2 DEF RanksCounted
<1>3. CASE /\ SuperAdmins \ {a} \subseteq SuperAdmins' /\ SuperAdmins # {a}
           /\ \A d \in Req : ~Demotes(d)'
  BY <1>1, <1>3 DEF RanksCounted
<1> QED BY <1>2, <1>3

LEMMA AdminWriteInv ==
  ASSUME AdminInv, NEW r \in Req, UpdateWrite(r) \/ RemoveAdminWrite(r)
  PROVE  AdminInv'
<1> DEFINE c == adminCalls[r]
           a == c.who
<1>1. AdminTypeOK
  BY DEF AdminInv
<1>2. /\ c.op \in {"update", "remove"} /\ c.at = "write" /\ AdminTo(r, "invalidate")
      /\ UNCHANGED <<adminInv, detail>>
  BY DEF UpdateWrite, RemoveAdminWrite, AdminAt
<1>3. a \in Admin /\ admins[a] # NoAdmin /\ admins[a] \in AdminRow
  BY <1>1, <1>2, AdminCallFields, AdminFields DEF AdminInv, RowsFound
<1>4. /\ adminCalls' \in [Req -> AdminCall]
      /\ \A d \in Req \ {r} : adminCalls'[d] = adminCalls[d]
      /\ adminCalls'[r].op = c.op /\ adminCalls'[r].at = "invalidate" /\ adminCalls'[r].who = a
  BY <1>1, <1>2, AdminMoves
<1>5. PICK row \in AdminRow, kinds \in SUBSET {"demotion", "activation"} :
        /\ SetRow(a, row, kinds)
        /\ \/ /\ Super(a) => row.role = "SUPER_ADMIN" /\ ~row.deleted
           \/ Demotes(r) /\ ("demotion" \notin kinds => Demoting(r) = {})
  <2>1. CASE UpdateWrite(r)
    <3> DEFINE n == [admins[a] EXCEPT !.role = c.role]
               k == {"demotion" : d \in {d \in Demoting(r) : c.role = "ADMIN"}}
    <3>1. /\ n \in AdminRow /\ n.role = c.role /\ n.deleted = admins[a].deleted
          /\ c.role \in AdminRole /\ c.op = "update"
      BY <1>1, <1>3, <2>1, AdminCallFields, AdminFields DEF AdminRow, UpdateWrite, AdminAt
    <3>2. SetRow(a, n, k)
      BY <2>1 DEF UpdateWrite
    <3> HIDE DEF n
    <3>3. CASE c.role = "SUPER_ADMIN"
      BY <3>1, <3>2, <3>3 DEF Super, Active
    <3>4. CASE c.role = "ADMIN"
      <4>1. Demotes(r) /\ ("demotion" \notin k => Demoting(r) = {})
        BY <1>2, <3>1, <3>4 DEF Demotes, AdminAt
      <4> QED BY <3>1, <3>2, <4>1
    <3> QED BY <3>1, <3>3, <3>4 DEF AdminRole
  <2>2. CASE RemoveAdminWrite(r)
    <3> DEFINE n == [admins[a] EXCEPT !.deleted = TRUE]
               k == {"demotion" : d \in Demoting(r)}
    <3>1. n \in AdminRow /\ SetRow(a, n, k)
      BY <1>3, <2>2 DEF RemoveAdminWrite, AdminRow
    <3>2. Demotes(r) /\ ("demotion" \notin k => Demoting(r) = {})
      BY <2>2 DEF RemoveAdminWrite, Demotes
    <3> HIDE DEF n
    <3> QED BY <3>1, <3>2
  <2> QED BY <2>1, <2>2
<1>6. /\ admins' \in [Admin -> AdminRow \cup {NoAdmin}]
      /\ \A b \in Admin : admins[b] # NoAdmin => admins'[b] # NoAdmin
      /\ \E b \in Admin : admins'[b] # NoAdmin
      /\ adminOverlap' \subseteq {"demotion", "activation", "fill", "crash"}
      /\ kinds \subseteq adminOverlap' /\ adminOverlap \subseteq adminOverlap'
      /\ SuperAdmins' = {b \in SuperAdmins : b # a}
                          \cup {b \in {a} : row.role = "SUPER_ADMIN" /\ ~row.deleted}
  BY <1>1, <1>3, <1>5, SetRowRows
<1>7. AdminTypeOK'
  BY <1>1, <1>2, <1>4, <1>6 DEF AdminTypeOK
<1>8. Founded'
  BY <1>6 DEF Founded
<1>9. RowsFound'
  <2>1. \A d \in Req : adminCalls[d].op \in {"update", "remove"} => adminCalls[d].who \in Admin
    BY <1>1, AdminCallFields
  <2> QED BY <1>2, <1>3, <1>4, <1>6, <2>1 DEF AdminInv, RowsFound
<1>10. ASSUME {"demotion", "activation"} \cap adminOverlap' = {} PROVE RanksCounted'
  <2>1. RanksCounted /\ "demotion" \notin kinds
    BY <1>6, <1>10 DEF AdminInv
  <2>2. \A d \in Req : Demotes(d)' => Demotes(d) /\ d # r /\ adminCalls'[d].who = adminCalls[d].who
    BY <1>4 DEF Demotes, AdminAt
  <2>3. CASE Super(a) => row.role = "SUPER_ADMIN" /\ ~row.deleted
    <3>1. SuperAdmins \subseteq SuperAdmins'
      BY <1>3, <1>6, <2>3 DEF SuperAdmins
    <3> QED BY <1>3, <2>1, <2>2, <3>1, SetRowRanks
  <2>4. CASE Demotes(r) /\ Demoting(r) = {}
    <3>1. SuperAdmins \ {a} \subseteq SuperAdmins' /\ SuperAdmins # {a}
      BY <1>6, <2>1, <2>4 DEF RanksCounted
    <3>2. \A d \in Req : ~Demotes(d)'
      BY <2>2, <2>4 DEF Demoting
    <3> QED BY <1>3, <2>1, <2>2, <3>1, <3>2, SetRowRanks
  <2> QED BY <1>5, <2>1, <2>3, <2>4
<1>11. ASSUME {"fill", "activation", "crash"} \cap adminOverlap' = {} PROVE CopiesCurrent'
  <2>1. \A d \in Req : /\ adminCalls'[d].op = "view" => adminCalls'[d] = adminCalls[d]
                       /\ adminCalls[d].at = "invalidate" => adminCalls'[d] = adminCalls[d]
    BY <1>2, <1>4
  <2>2. adminCalls'[r] # Idle
    BY <1>2, <1>4, AdminIdle
  <2> QED BY <1>2, <1>3, <1>4, <1>5, <1>11, <2>1, <2>2, SetRowCopies
<1> QED BY <1>7, <1>8, <1>9, <1>10, <1>11 DEF AdminInv

\* An invitation is accepted: a row that nobody has is made, or restored.
LEMMA AcceptInv ==
  ASSUME AdminInv, NEW r \in Req, AcceptUpdate(r) \/ AcceptCreate(r)
  PROVE  AdminInv'
<1> DEFINE i == adminCalls[r].inv
           a == adminInv[i].to
           row == [role |-> adminInv[i].role, deleted |-> FALSE]
<1>1. AdminTypeOK
  BY DEF AdminInv
<1>2. adminCalls[r].op = "accept" /\ adminCalls[r].at \in {"update", "create"}
  BY DEF AcceptUpdate, AcceptCreate, AdminAt
<1>3. /\ i \in AdminInvitation /\ adminInv[i] # NoAdmin /\ adminInv[i] \in AdminInvRow
      /\ a \in Admin /\ row \in AdminRow /\ ~row.deleted
  <2>1. i \in AdminInvitation /\ adminInv[i] # NoAdmin
    BY <1>1, <1>2, AdminCallFields DEF AdminInv, RowsFound
  <2> QED BY <1>1, <2>1, AdminInvFields DEF AdminRow
<1>4. detail' = detail
  BY DEF AcceptUpdate, AcceptCreate
<1>5. \E b \in Admin : admins[b] # NoAdmin
  BY <1>3 DEF AdminInv, Founded
<1>6. CASE AcceptCreate(r) /\ admins[a] # NoAdmin
  <2>1. AdminLeave(r) /\ UNCHANGED <<admins, adminInv, detail, adminOverlap>>
    BY <1>6 DEF AcceptCreate
  <2>2. /\ adminCalls' \in [Req -> AdminCall] /\ adminCalls'[r].op = "idle"
        /\ \A d \in Req \ {r} : adminCalls'[d] = adminCalls[d]
    BY <1>1, <2>1, AdminLeaves, AdminIdle
  <2>3. ~Demotes(r)'
    BY <2>2 DEF Demotes, AdminAt
  <2> QED BY <1>2, <1>5, <2>1, <2>2, <2>3, AdminCallInv
<1>7. CASE ~(AcceptCreate(r) /\ admins[a] # NoAdmin)
  <2>1. PICK kinds \in SUBSET {"demotion", "activation"} :
          /\ SetRow(a, row, kinds)
          /\ "activation" \notin kinds =>
               ~Super(a) /\ (CopiesCurrent => detail[a] = NoAdmin)
    <3>1. CASE AcceptUpdate(r)
      <4> DEFINE k == IF Active(a) \/ detail[a] # NoAdmin THEN {"activation"} ELSE {}
      <4>1. SetRow(a, row, k) /\ k \in SUBSET {"demotion", "activation"}
        BY <3>1 DEF AcceptUpdate
      <4>2. "activation" \notin k => ~Super(a) /\ detail[a] = NoAdmin
        BY DEF Super
      <4> HIDE DEF k, row, a
      <4> QED BY <4>1, <4>2
    <3>2. CASE AcceptCreate(r)
      <4>1. SetRow(a, row, {}) /\ admins[a] = NoAdmin
        BY <1>7, <3>2 DEF AcceptCreate
      <4>2. ~Super(a)
        BY <4>1 DEF Super, Active
      <4>3. CopiesCurrent => detail[a] = NoAdmin
        <5> SUFFICES ASSUME CopiesCurrent, detail[a] # NoAdmin PROVE FALSE
          OBVIOUS
        <5>1. PICK d \in Req : /\ adminCalls[d] # Idle /\ adminCalls[d].at = "invalidate"
                               /\ adminCalls[d].who = a
          BY <1>3, <4>1 DEF CopiesCurrent
        <5>2. adminCalls[d].op \in {"update", "remove"}
          BY <1>1, <5>1 DEF AdminTypeOK, AdminCall
        <5> QED BY <4>1, <5>1, <5>2 DEF AdminInv, RowsFound
      <4> QED BY <4>1, <4>2, <4>3
    <3> QED BY <3>1, <3>2
  <2>2. /\ adminCalls' \in [Req -> AdminCall]
        /\ \A d \in Req \ {r} : adminCalls'[d] = adminCalls[d]
        /\ \/ adminCalls'[r].op = "idle"
           \/ adminCalls'[r].op = "accept" /\ adminCalls'[r].inv = i
    <3>1. AdminLeave(r) \/ AdminTo(r, "mark")
      BY DEF AcceptUpdate, AcceptCreate
    <3>2. CASE AdminTo(r, "mark")
      BY <1>1, <1>2, <3>2, AdminMoves
    <3>3. CASE AdminLeave(r)
      BY <1>1, <3>3, AdminLeaves, AdminIdle
    <3> QED BY <3>1, <3>2, <3>3
  <2>3. /\ adminInv' \in [AdminInvitation -> AdminInvRow \cup {NoAdmin}]
        /\ \A j \in AdminInvitation : adminInv[j] # NoAdmin => adminInv'[j] # NoAdmin
    <3>1. CASE AcceptUpdate(r)
      <4> DEFINE n == [adminInv[i] EXCEPT !.accepted = TRUE]
      <4>1. n \in AdminInvRow
        BY <1>3 DEF AdminInvRow
      <4>2. adminInv' = [adminInv EXCEPT ![i] = n]
        BY <3>1 DEF AcceptUpdate
      <4> HIDE DEF n
      <4> QED BY <1>1, <1>3, <4>1, <4>2, AdminsAreThere DEF AdminTypeOK
    <3>2. CASE AcceptCreate(r)
      BY <1>1, <3>2 DEF AcceptCreate, AdminTypeOK
    <3> QED BY <3>1, <3>2
  <2> HIDE DEF row, a
  <2>4. /\ admins' \in [Admin -> AdminRow \cup {NoAdmin}]
        /\ \A b \in Admin : admins[b] # NoAdmin => admins'[b] # NoAdmin
        /\ \E b \in Admin : admins'[b] # NoAdmin
        /\ adminOverlap' \subseteq {"demotion", "activation", "fill", "crash"}
        /\ kinds \subseteq adminOverlap' /\ adminOverlap \subseteq adminOverlap'
        /\ SuperAdmins' = {b \in SuperAdmins : b # a}
                            \cup {b \in {a} : row.role = "SUPER_ADMIN" /\ ~row.deleted}
    BY <1>1, <1>3, <2>1, SetRowRows
  <2>5. AdminTypeOK'
    BY <1>1, <1>4, <2>2, <2>3, <2>4 DEF AdminTypeOK
  <2>6. Founded'
    BY <2>4 DEF Founded
  <2>7. RowsFound'
    <3>1. \A d \in Req : /\ adminCalls[d].op \in {"update", "remove"} => adminCalls[d].who \in Admin
                         /\ adminCalls[d].op = "accept" => adminCalls[d].inv \in AdminInvitation
      BY <1>1, AdminCallFields
    <3> QED BY <1>3, <2>2, <2>3, <2>4, <3>1 DEF AdminInv, RowsFound
  <2>8. ASSUME {"demotion", "activation"} \cap adminOverlap' = {} PROVE RanksCounted'
    <3>1. RanksCounted /\ ~Super(a)
      BY <2>1, <2>4, <2>8 DEF AdminInv
    <3>2. \A d \in Req : Demotes(d)' => Demotes(d) /\ adminCalls'[d].who = adminCalls[d].who
      BY <2>2 DEF Demotes, AdminAt
    <3>3. SuperAdmins \subseteq SuperAdmins'
      BY <2>4, <3>1 DEF SuperAdmins
    <3> QED BY <1>3, <1>5, <3>1, <3>2, <3>3, SetRowRanks
  <2>9. ASSUME {"fill", "activation", "crash"} \cap adminOverlap' = {} PROVE CopiesCurrent'
    <3>1. CopiesCurrent => detail[a] = NoAdmin
      BY <2>1, <2>4, <2>9
    <3>2. \A d \in Req : /\ adminCalls'[d].op = "view" => adminCalls'[d] = adminCalls[d]
                         /\ adminCalls[d].at = "invalidate" => adminCalls'[d] = adminCalls[d]
      BY <1>2, <2>2
    <3> QED BY <1>3, <1>4, <2>1, <2>9, <3>1, <3>2, SetRowCopies
  <2> QED BY <2>5, <2>6, <2>7, <2>8, <2>9 DEF AdminInv
<1> QED BY <1>6, <1>7

\* The first administrator.
LEMMA SetupInv ==
  ASSUME AdminInv, NEW a \in Admin, Setup(a)
  PROVE  AdminInv'
<1> DEFINE row == [role |-> "SUPER_ADMIN", deleted |-> FALSE]
<1>1. AdminTypeOK
  BY DEF AdminInv
<1>2. /\ \A b \in Admin : ~Active(b)
      /\ admins[a] = NoAdmin /\ SetRow(a, row, {}) /\ UNCHANGED <<adminInv, detail, adminCalls>>
  BY DEF Setup
<1>3. row \in AdminRow /\ row.role = "SUPER_ADMIN" /\ ~row.deleted
  BY DEF AdminRow, AdminRole
<1> HIDE DEF row
<1>4. /\ admins' \in [Admin -> AdminRow \cup {NoAdmin}]
      /\ \A b \in Admin : admins[b] # NoAdmin => admins'[b] # NoAdmin
      /\ \E b \in Admin : admins'[b] # NoAdmin
      /\ adminOverlap' \subseteq {"demotion", "activation", "fill", "crash"}
      /\ adminOverlap \subseteq adminOverlap'
      /\ SuperAdmins' = {b \in SuperAdmins : b # a}
                          \cup {b \in {a} : row.role = "SUPER_ADMIN" /\ ~row.deleted}
  BY <1>1, <1>2, <1>3, SetRowRows
<1>5. AdminTypeOK' /\ Founded'
  BY <1>1, <1>2, <1>4 DEF AdminTypeOK, Founded
<1>6. RowsFound'
  <2>1. \A d \in Req : adminCalls[d].op \in {"update", "remove"} => adminCalls[d].who \in Admin
    BY <1>1, AdminCallFields
  <2> QED BY <1>2, <1>4, <2>1 DEF AdminInv, RowsFound
<1>7. ASSUME {"demotion", "activation"} \cap adminOverlap' = {} PROVE RanksCounted'
  <2>1. RanksCounted
    BY <1>4, <1>7 DEF AdminInv
  <2>2. SuperAdmins = {}
    BY <1>2 DEF SuperAdmins, Super
  <2>3. ~\E b \in Admin : admins[b] # NoAdmin
    BY <2>1, <2>2 DEF RanksCounted
  <2>4. \A d \in Req : adminCalls[d] = Idle
    BY <2>3 DEF AdminInv, Founded
  <2>5. \A d \in Req : ~Demotes(d)'
    BY <1>2, <2>4, AdminIdle DEF Demotes, AdminAt
  <2>6. a \in SuperAdmins'
    BY <1>3, <1>4
  <2> QED BY <2>5, <2>6 DEF RanksCounted
<1>8. ASSUME {"fill", "activation", "crash"} \cap adminOverlap' = {} PROVE CopiesCurrent'
  <2>1. CopiesCurrent => detail[a] = NoAdmin
    <3> SUFFICES ASSUME CopiesCurrent, detail[a] # NoAdmin PROVE FALSE
      OBVIOUS
    <3>1. PICK d \in Req : /\ adminCalls[d] # Idle /\ adminCalls[d].at = "invalidate"
                           /\ adminCalls[d].who = a
      BY <1>2 DEF CopiesCurrent
    <3>2. adminCalls[d].op \in {"update", "remove"}
      BY <1>1, <3>1 DEF AdminTypeOK, AdminCall
    <3> QED BY <1>2, <3>1, <3>2 DEF AdminInv, RowsFound
  <2> QED BY <1>2, <1>8, <2>1, SetRowCopies
<1> QED BY <1>5, <1>6, <1>7, <1>8 DEF AdminInv

\* A request that fails: a copy that it was to drop stays.
LEMMA AdminAbortInv ==
  ASSUME AdminInv, NEW r \in Req, AdminAbort(r)
  PROVE  AdminInv'
<1>1. AdminTypeOK
  BY DEF AdminInv
<1>2. /\ adminOverlap' = adminOverlap
           \cup {"crash" : d \in {d \in {r} : adminCalls[d].at = "invalidate"}}
      /\ AdminLeave(r) /\ UNCHANGED <<admins, adminInv, detail>>
  BY DEF AdminAbort
<1>3. /\ adminCalls' \in [Req -> AdminCall] /\ adminCalls'[r] = Idle
      /\ \A d \in Req \ {r} : adminCalls'[d] = adminCalls[d]
  BY <1>1, <1>2, AdminLeaves
<1>4. AdminTypeOK' /\ Founded' /\ RowsFound'
  BY <1>1, <1>2, <1>3, AdminIdle DEF AdminInv, AdminTypeOK, Founded, RowsFound
<1>5. ASSUME {"demotion", "activation"} \cap adminOverlap' = {} PROVE RanksCounted'
  <2>1. RanksCounted /\ SuperAdmins' = SuperAdmins
    BY <1>2, <1>5 DEF AdminInv, SuperAdmins, Super, Active
  <2>2. \A d \in Req : Demotes(d)' => Demotes(d) /\ adminCalls'[d] = adminCalls[d]
    BY <1>3, AdminIdle DEF Demotes, AdminAt
  <2> QED BY <1>2, <2>1, <2>2 DEF RanksCounted
<1>6. ASSUME {"fill", "activation", "crash"} \cap adminOverlap' = {} PROVE CopiesCurrent'
  <2>1. CopiesCurrent /\ adminCalls[r].at # "invalidate"
    BY <1>2, <1>6 DEF AdminInv
  <2>2. \A d \in Req : /\ adminCalls'[d].op = "view" => adminCalls'[d] = adminCalls[d]
                       /\ adminCalls[d].at = "invalidate" => adminCalls'[d] = adminCalls[d]
    BY <1>3, <2>1, AdminIdle
  <2> QED BY <1>2, <2>1, <2>2 DEF CopiesCurrent
<1> QED BY <1>4, <1>5, <1>6 DEF AdminInv

LEMMA AdminStepInv == AdminInv /\ [AdminNext]_adminVars => AdminInv'
<1> SUFFICES ASSUME AdminInv, [AdminNext]_adminVars PROVE AdminInv'
  OBVIOUS
<1>1. ASSUME NEW r \in Req, AdminHandle(r) PROVE AdminInv'
  BY <1>1, AdminStartInv, AdminCheckInv, AdminInvitationInv, DetailInv, AdminWriteInv, AcceptInv,
     AdminAbortInv DEF AdminHandle
<1>2. CASE \/ \E a \in Admin : Setup(a) \/ DetailExpires(a)
           \/ \E i \in AdminInvitation : AdminInvExpires(i)
  BY <1>2, SetupInv, DetailInv, AdminInvitationInv
<1>3. CASE UNCHANGED adminVars
  BY <1>3 DEF adminVars, AdminInv, AdminTypeOK, Founded, RowsFound, RanksCounted, CopiesCurrent,
              Demotes, SuperAdmins, Super, Active, AdminAt
<1> QED BY <1>1, <1>2, <1>3 DEF AdminNext

\* The invariant.
THEOREM AdminInductive == AdminSpec => []AdminInv
BY AdminInitInv, AdminStepInv, PTL DEF AdminSpec

\* For any number of administrators and requests: once set up, the system
\* keeps a super administrator, unless two requests had both counted another
\* one, or an invitation was accepted for an active row (updateAdminUser,
\* deleteAdminUser, acceptInvitation).
THEOREM SomeSuperAdmin == AdminSpec => []SuperAdminRemains
<1>1. AdminInv => SuperAdminRemains
  BY DEF AdminInv, RanksCounted, SuperAdminRemains
<1> QED BY <1>1, AdminInductive, PTL

\* For any number of viewers: Redis shows the row, or its change is about to
\* be invalidated, but for the overlaps DetailIsCurrent names
\* (findAdminUserById).
THEOREM CopiesAreCurrent == AdminSpec => []DetailIsCurrent
<1>1. AdminInv => DetailIsCurrent
  BY DEF AdminInv, CopiesCurrent, DetailIsCurrent
<1> QED BY <1>1, AdminInductive, PTL

-----------------------------------------------------------------------------
(***************************************************************************)
(* Users' accounts: rows, and what becomes of the requests                 *)
(***************************************************************************)
\* A row is never taken for the absence of one.
LEMMA AccountsAreThere == NoUser \notin UserRow /\ NoMail \notin MailRow
<1>1. DOMAIN NoUser = {"deleted"} /\ DOMAIN NoMail = {"to"}
  BY DEF NoUser, NoMail
<1>2. \A row \in UserRow : "verified" \in DOMAIN row
  BY DEF UserRow
<1>3. \A row \in MailRow : "open" \in DOMAIN row
  BY DEF MailRow
<1> QED BY <1>1, <1>2, <1>3

LEMMA UserFields ==
  ASSUME AccountTypeOK, NEW e \in Email
  PROVE  /\ Registered(e) => /\ users[e] \in UserRow /\ users[e].password \in BOOLEAN
                             /\ users[e].verified \in BOOLEAN /\ users[e].deleted \in BOOLEAN
         /\ LiveUser(e) => Registered(e)
<1>1. users[e] \in UserRow \cup {NoUser} /\ NoUser.deleted = TRUE
  BY DEF AccountTypeOK, NoUser
<1> QED BY <1>1 DEF Registered, LiveUser, UserRow

LEMMA MailFields ==
  ASSUME AccountTypeOK, NEW t \in Mail, mails[t] # NoMail
  PROVE  /\ mails[t] \in MailRow /\ mails[t].to \in Email /\ mails[t].kind \in Kind
         /\ mails[t].open \in BOOLEAN /\ mails[t].uses \in Nat
<1>1. mails[t] \in MailRow
  BY DEF AccountTypeOK
<1> QED BY <1>1 DEF MailRow

LEMMA AccountCallFields ==
  ASSUME AccountTypeOK, NEW r \in Req
  PROVE  /\ accountCalls[r].op \in {"register", "password"} => accountCalls[r].user \in Email
         /\ accountCalls[r].op = "callback" => accountCalls[r] \in
              [op : {"callback"}, at : {"user", "create", "verify", "link", "check", "add"},
               id : Identity, by : Email \cup {"nobody"}, free : BOOLEAN]
         /\ accountCalls[r].op = "callback" => /\ accountCalls[r].id \in Identity
                                               /\ accountCalls[r].id.email \in Email
         /\ accountCalls[r].op = "unlink" => accountCalls[r] \in
              [op : {"unlink"}, at : {"count", "delete"}, user : Email, id : Identity, there : BOOLEAN]
         /\ accountCalls[r].op = "ask" => accountCalls[r] \in
              [op : {"ask"}, at : {"write"}, user : Email, kind : Kind]
         /\ accountCalls[r].op = "use" => accountCalls[r] = [op |-> "use", at |-> "write",
                                                             mail |-> accountCalls[r].mail]
                                          /\ accountCalls[r].mail \in Mail
<1>1. accountCalls[r] \in AccountCall
  BY DEF AccountTypeOK
<1>2. \A i \in Identity : i.email \in Email
  BY DEF Identity
<1> QED BY <1>1, <1>2 DEF AccountCall, Idle

LEMMA AccountIdle == Idle \in AccountCall /\ Idle.op = "idle"
BY DEF AccountCall, Idle

LEMMA AccountLeaves ==
  ASSUME AccountTypeOK, NEW r \in Req, AccountLeave(r)
  PROVE  /\ accountCalls' \in [Req -> AccountCall]
         /\ accountCalls'[r] = Idle /\ accountCalls'[r].op = "idle"
         /\ \A d \in Req \ {r} : accountCalls'[d] = accountCalls[d]
BY AccountIdle DEF AccountTypeOK, AccountLeave, End

\* A callback or an unlinking that goes on is the same one, further on.
LEMMA AccountMoves ==
  ASSUME AccountTypeOK, NEW r \in Req, NEW at, AccountTo(r, at),
         \/ accountCalls[r].op = "callback" /\ at \in {"create", "verify", "link", "check", "add"}
         \/ accountCalls[r].op = "unlink" /\ at = "delete"
  PROVE  /\ accountCalls' \in [Req -> AccountCall]
         /\ \A d \in Req \ {r} : accountCalls'[d] = accountCalls[d]
         /\ accountCalls'[r].op = accountCalls[r].op /\ accountCalls'[r].at = at
         /\ accountCalls'[r].id = accountCalls[r].id
         /\ accountCalls[r].op = "unlink" => /\ accountCalls'[r].user = accountCalls[r].user
                                             /\ accountCalls'[r].there = accountCalls[r].there
<1> DEFINE c == accountCalls[r]
           n == [c EXCEPT !.at = at]
<1>1. /\ n \in AccountCall /\ n.op = c.op /\ n.at = at /\ n.id = c.id
      /\ c.op = "unlink" => n.user = c.user /\ n.there = c.there
  <2>1. CASE c.op = "callback"
    <3>1. /\ n \in [op : {"callback"}, at : {"user", "create", "verify", "link", "check", "add"},
                    id : Identity, by : Email \cup {"nobody"}, free : BOOLEAN]
          /\ n.op = c.op /\ n.at = at /\ n.id = c.id
      BY <2>1, AccountCallFields
    <3> HIDE DEF n
    <3> QED BY <2>1, <3>1 DEF AccountCall
  <2>2. CASE c.op = "unlink"
    <3>1. /\ n \in [op : {"unlink"}, at : {"count", "delete"}, user : Email, id : Identity,
                    there : BOOLEAN]
          /\ n.op = c.op /\ n.at = at /\ n.id = c.id /\ n.user = c.user /\ n.there = c.there
      BY <2>2, AccountCallFields
    <3> HIDE DEF n
    <3> QED BY <2>2, <3>1 DEF AccountCall
  <2> QED BY <2>1, <2>2
<1>2. accountCalls' = [accountCalls EXCEPT ![r] = n] /\ accountCalls \in [Req -> AccountCall]
  BY DEF AccountTo, AccountTypeOK
<1> HIDE DEF n
<1> QED BY <1>1, <1>2

-----------------------------------------------------------------------------
(***************************************************************************)
(* Users' accounts: what keeps each part of the invariant                  *)
(***************************************************************************)

\* An account that has no way in had none before, and its callback goes on.
LEMMA FirstLinkKept ==
  ASSUME FirstLinkUnderWay,
         \A e \in Email : Bare(e)' =>
           /\ Bare(e)
           /\ \A i \in Identity : i.email = e /\ owner[i] = "nobody" => owner'[i] = "nobody"
           /\ \A r \in Req : AccountAt(r, "callback", "link") /\ accountCalls[r].id.email = e
                               => accountCalls'[r] = accountCalls[r]
           /\ \A r \in Req : /\ accountCalls'[r].op = "callback" /\ accountCalls'[r].id.email = e
                             /\ accountCalls'[r].at \in {"check", "add"}
                => /\ accountCalls[r].op = "callback" /\ accountCalls[r].id.email = e
                   /\ accountCalls[r].at \in {"check", "add"}
  PROVE  FirstLinkUnderWay'
<1> SUFFICES ASSUME NEW e \in Email, Bare(e)'
             PROVE  /\ \E r \in Req : /\ accountCalls'[r].op = "callback" /\ accountCalls'[r].at = "link"
                                      /\ accountCalls'[r].id.email = e
                    /\ \A i \in Identity : i.email = e => owner'[i] = "nobody"
                    /\ \A r \in Req :
                         accountCalls'[r].op = "callback" /\ accountCalls'[r].id.email = e
                           => accountCalls'[r].at \notin {"check", "add"}
  BY DEF FirstLinkUnderWay, AccountAt
<1>1. /\ Bare(e)
      /\ \A i \in Identity : i.email = e /\ owner[i] = "nobody" => owner'[i] = "nobody"
      /\ \A r \in Req : AccountAt(r, "callback", "link") /\ accountCalls[r].id.email = e
                          => accountCalls'[r] = accountCalls[r]
      /\ \A r \in Req : /\ accountCalls'[r].op = "callback" /\ accountCalls'[r].id.email = e
                        /\ accountCalls'[r].at \in {"check", "add"}
           => /\ accountCalls[r].op = "callback" /\ accountCalls[r].id.email = e
              /\ accountCalls[r].at \in {"check", "add"}
  OBVIOUS
<1>2. /\ \E r \in Req : AccountAt(r, "callback", "link") /\ accountCalls[r].id.email = e
      /\ \A i \in Identity : i.email = e => owner[i] = "nobody"
      /\ \A r \in Req : accountCalls[r].op = "callback" /\ accountCalls[r].id.email = e
                          => accountCalls[r].at \notin {"check", "add"}
  BY <1>1 DEF FirstLinkUnderWay
<1> QED BY <1>1, <1>2 DEF AccountAt

\* Rows stay, owners too, and who has counted another link still has one.
LEMMA AccountKept ==
  ASSUME AccountInv, AccountTypeOK',
         \A e \in Email : Registered(e) => Registered(e)',
         \A i \in Identity : owner[i] # "nobody" => owner'[i] = owner[i],
         \A t \in Mail : mails[t] # NoMail => mails'[t] # NoMail,
         \A i \in Identity : owner'[i] # "nobody" => owner'[i] = owner[i] \/ Registered(i.email)',
         \A t \in Mail : \/ mails'[t] = mails[t]
                         \/ Registered(mails[t].to)' /\ (mails'[t].open => mails'[t].uses = 0),
         \A r \in Req : accountCalls'[r] = accountCalls[r] \/ Known(accountCalls[r])',
         \A r \in Req : \/ accountCalls'[r] = accountCalls[r]
                        \/ ~(AccountAt(r, "unlink", "delete")' /\ accountCalls'[r].there)
                        \/ \E i \in Identity : i # accountCalls'[r].id
                                               /\ owner[i] = accountCalls'[r].user,
         accountOverlap \subseteq accountOverlap',
         {"unlink", "callback"} \cap accountOverlap' = {} => FirstLinkUnderWay',
         "use" \notin accountOverlap' => UsedAtMostOnce',
         "ask" \notin accountOverlap' => OneOpen'
  PROVE  AccountInv'
<1>1. AccountTypeOK /\ AccountRows /\ CallsKnown
  BY DEF AccountInv
<1>2. \A i \in Identity : i.email \in Email
  BY DEF Identity
<1>3. AccountRows'
  <2>1. \A i \in Identity : owner'[i] # "nobody" => Registered(i.email)'
    BY <1>1, <1>2 DEF AccountRows
  <2>2. ASSUME NEW t \in Mail, mails'[t] # NoMail
        PROVE  Registered(mails[t].to)' /\ (mails'[t].open => mails'[t].uses = 0)
    <3>1. CASE mails'[t] = mails[t]
      <4>1. mails[t].to \in Email /\ Registered(mails[t].to) /\ (mails[t].open => mails[t].uses = 0)
        BY <1>1, <2>2, <3>1, MailFields DEF AccountRows
      <4>2. \A e \in Email : users[e] # NoUser => users'[e] # NoUser
        BY DEF Registered
      <4> QED BY <3>1, <4>1, <4>2 DEF Registered
    <3>2. CASE mails'[t] # mails[t]
      BY <3>2
    <3> QED BY <3>1, <3>2
  <2> QED BY <2>1, <2>2 DEF AccountRows
<1>4. CallsKnown'
  <2> SUFFICES ASSUME NEW r \in Req PROVE Known(accountCalls[r])'
    BY DEF CallsKnown
  <2>1. CASE accountCalls'[r] = accountCalls[r]
    <3> DEFINE c == accountCalls[r]
    <3>1. Known(c)
      BY <1>1 DEF CallsKnown
    <3>2. /\ c.op \in {"password", "ask"} => c.user \in Email
          /\ c.op = "callback" => c.id.email \in Email
          /\ c.op = "unlink" => c.user \in Email /\ c.id \in Identity
          /\ c.op = "use" => c.mail \in Mail
      BY <1>1, AccountCallFields
    <3>3. c.op = "unlink" => c.user # "nobody"
      BY <3>2, AccountAssumption
    <3>4. \A e \in Email : users[e] # NoUser => users'[e] # NoUser
      BY DEF Registered
    <3> QED BY <2>1, <3>1, <3>2, <3>3, <3>4 DEF Known, Registered
  <2> QED BY <2>1
<1>5. ASSUME "unlink" \notin accountOverlap' PROVE UnlinksCounted'
  <2> SUFFICES ASSUME NEW r \in Req, AccountAt(r, "unlink", "delete")', accountCalls'[r].there
               PROVE  \E i \in Identity : i # accountCalls'[r].id /\ owner'[i] = accountCalls'[r].user
    BY DEF UnlinksCounted, Links
  <2> DEFINE c == accountCalls'[r]
  <2>1. c.user \in Email /\ c.user # "nobody"
    <3>1. c \in AccountCall /\ c.op = "unlink"
      BY DEF AccountAt, AccountTypeOK
    <3> QED BY <3>1, AccountAssumption DEF AccountCall, Idle
  <2>2. \E i \in Identity : i # c.id /\ owner[i] = c.user
    <3>1. CASE c = accountCalls[r]
      <4>1. AccountAt(r, "unlink", "delete") /\ accountCalls[r].there
        BY <3>1 DEF AccountAt
      <4>2. /\ Links(accountCalls[r].user) # {accountCalls[r].id}
            /\ owner[accountCalls[r].id] = accountCalls[r].user /\ accountCalls[r].id \in Identity
        BY <1>1, <1>5, <4>1, AccountCallFields DEF AccountInv, UnlinksCounted, CallsKnown, Known, AccountAt
      <4> QED BY <3>1, <4>2 DEF Links
    <3> QED BY <3>1
  <2> QED BY <2>1, <2>2
<1> QED BY <1>3, <1>4, <1>5 DEF AccountInv

\* A request begins, goes on or ends without writing.
LEMMA AccountCallInv ==
  ASSUME AccountInv, NEW r \in Req, UNCHANGED <<users, owner, mails, accountOverlap>>,
         strayed' \in BOOLEAN, accountCalls' \in [Req -> AccountCall],
         \A d \in Req \ {r} : accountCalls'[d] = accountCalls[d],
         ~AccountAt(r, "callback", "link"),
         Known(accountCalls[r])',
         \/ ~(AccountAt(r, "unlink", "delete")' /\ accountCalls'[r].there)
         \/ \E i \in Identity : i # accountCalls'[r].id /\ owner[i] = accountCalls'[r].user,
         accountCalls'[r].op = "callback" /\ accountCalls'[r].at \in {"check", "add"}
           => \/ owner[accountCalls'[r].id] # "nobody"
              \/ /\ accountCalls[r].op = "callback" /\ accountCalls[r].at \in {"check", "add"}
                 /\ accountCalls'[r].id = accountCalls[r].id,
         accountCalls'[r].op = "use" => mails[accountCalls'[r].mail].open
  PROVE  AccountInv'
<1>1. AccountTypeOK'
  BY DEF AccountInv, AccountTypeOK
<1>2. \A e : Registered(e)' = Registered(e) /\ Bare(e)' = Bare(e)
  BY DEF Registered, Bare, LiveUser, Links
<1>3. ASSUME {"unlink", "callback"} \cap accountOverlap = {} PROVE FirstLinkUnderWay'
  <2>1. FirstLinkUnderWay
    BY <1>3 DEF AccountInv
  <2>2. accountCalls'[r].op = "callback" => accountCalls'[r].id \in Identity
    <3>1. accountCalls'[r] \in AccountCall
      OBVIOUS
    <3> QED BY <3>1 DEF AccountCall, Idle
  <2>3. ASSUME NEW e \in Email, Bare(e), accountCalls'[r].op = "callback",
               accountCalls'[r].id.email = e, accountCalls'[r].at \in {"check", "add"}
        PROVE  /\ accountCalls[r].op = "callback" /\ accountCalls[r].id.email = e
               /\ accountCalls[r].at \in {"check", "add"}
    <3>1. owner[accountCalls'[r].id] = "nobody"
      BY <2>1, <2>2, <2>3 DEF FirstLinkUnderWay
    <3> QED BY <2>3, <3>1
  <2> QED BY <1>2, <2>1, <2>3, FirstLinkKept
<1>4. ASSUME "use" \notin accountOverlap PROVE UsedAtMostOnce'
  <2>1. UsedAtMostOnce /\ AccountRows
    BY <1>4 DEF AccountInv
  <2>2. accountCalls'[r].op = "use" => mails[accountCalls'[r].mail].uses = 0
    <3> SUFFICES ASSUME accountCalls'[r].op = "use" PROVE mails[accountCalls'[r].mail].uses = 0
      OBVIOUS
    <3>1. accountCalls'[r] \in AccountCall
      OBVIOUS
    <3>2. accountCalls'[r].mail \in Mail
      BY <3>1 DEF AccountCall, Idle
    <3>3. mails[accountCalls'[r].mail] # NoMail
      BY DEF Known
    <3> QED BY <2>1, <3>2, <3>3 DEF AccountRows
  <2> QED BY <2>1, <2>2 DEF UsedAtMostOnce
<1>5. ASSUME "ask" \notin accountOverlap PROVE OneOpen'
  BY <1>5 DEF AccountInv, OneOpen, Usable
<1> QED BY <1>1, <1>2, <1>3, <1>4, <1>5, AccountKept

LEMMA AccountRequestInv ==
  ASSUME AccountInv, NEW r \in Req, AccountRequest(r)
  PROVE  AccountInv'
<1>1. AccountTypeOK /\ AccountRows
  BY DEF AccountInv
<1>2. UNCHANGED <<users, owner, mails, accountOverlap, strayed>> /\ accountCalls[r] = Idle
  BY DEF AccountRequest, RegisterFind, PasswordFind, CallbackFind, UnlinkFind, AskFind, UseFind,
         AccountStart
<1>3. PICK call \in AccountCall : /\ accountCalls' = [accountCalls EXCEPT ![r] = call]
        /\ \/ call.op \in {"idle", "register"}
           \/ call.op \in {"password", "ask"} /\ Registered(call.user)
           \/ call.op = "callback" /\ call.at = "user"
           \/ /\ call.op = "callback" /\ call.at = "check"
              /\ owner[call.id] # "nobody" /\ Registered(call.id.email)
           \/ call.op = "unlink" /\ call.at = "count" /\ owner[call.id] = call.user
           \/ call.op = "use" /\ mails[call.mail] # NoMail /\ mails[call.mail].open
  <2>1. ASSUME NEW e \in Email, RegisterFind(r, e) \/ PasswordFind(r, e)
        PROVE  \E call \in AccountCall : /\ accountCalls' = [accountCalls EXCEPT ![r] = call]
                 /\ \/ call.op = "register"
                    \/ call.op = "password" /\ Registered(call.user)
    <3>1. \A op \in {"register", "password"} : [op |-> op, at |-> "write", user |-> e] \in AccountCall
      BY DEF AccountCall
    <3> QED BY <1>1, <2>1, <3>1, UserFields DEF RegisterFind, PasswordFind, AccountStart, LoggedIn
  <2>2. ASSUME NEW e \in Email, NEW kind \in Kind, AskFind(r, e, kind)
        PROVE  \E call \in AccountCall : /\ accountCalls' = [accountCalls EXCEPT ![r] = call]
                                         /\ call.op = "ask" /\ Registered(call.user)
    <3>1. [op |-> "ask", at |-> "write", user |-> e, kind |-> kind] \in AccountCall
      BY DEF AccountCall
    <3> QED BY <1>1, <2>2, <3>1, UserFields DEF AskFind, AccountStart
  <2>3. ASSUME NEW i \in Identity, NEW by \in Email \cup {"nobody"}, CallbackFind(r, i, by)
        PROVE  \E call \in AccountCall : /\ accountCalls' = [accountCalls EXCEPT ![r] = call]
                 /\ \/ call.op = "idle"
                    \/ call.op = "callback" /\ call.at = "user"
                    \/ /\ call.op = "callback" /\ call.at = "check"
                       /\ owner[call.id] # "nobody" /\ Registered(call.id.email)
    <3>1. PICK free \in BOOLEAN : AccountStart(r,
            IF owner[i] = "nobody"
            THEN [op |-> "callback", at |-> "user", id |-> i, by |-> by, free |-> free]
            ELSE IF by = "nobody" THEN Idle
                 ELSE [op |-> "callback", at |-> "check", id |-> i, by |-> by, free |-> free])
      BY <2>3 DEF CallbackFind
    <3>2. \A at \in {"user", "check"} :
            [op |-> "callback", at |-> at, id |-> i, by |-> by, free |-> free] \in AccountCall
      BY DEF AccountCall
    <3>3. CASE owner[i] = "nobody"
      BY <3>1, <3>2, <3>3 DEF AccountStart
    <3>4. CASE owner[i] # "nobody" /\ by = "nobody"
      BY <3>1, <3>4, AccountIdle DEF AccountStart
    <3>5. CASE owner[i] # "nobody" /\ by # "nobody"
      <4>1. Registered(i.email)
        BY <1>1, <3>5 DEF AccountRows
      <4> QED BY <3>1, <3>2, <3>5, <4>1 DEF AccountStart
    <3> QED BY <3>3, <3>4, <3>5
  <2>4. ASSUME NEW i \in Identity, UnlinkFind(r, i)
        PROVE  \E call \in AccountCall : /\ accountCalls' = [accountCalls EXCEPT ![r] = call]
                 /\ call.op = "unlink" /\ call.at = "count" /\ owner[call.id] = call.user
    <3>1. owner[i] \in Email
      BY <1>1, <2>4 DEF UnlinkFind, AccountTypeOK
    <3>2. [op |-> "unlink", at |-> "count", user |-> owner[i], id |-> i, there |-> TRUE]
            \in AccountCall
      BY <3>1 DEF AccountCall
    <3> QED BY <2>4, <3>2 DEF UnlinkFind, AccountStart
  <2>5. ASSUME NEW t \in Mail, UseFind(r, t)
        PROVE  \E call \in AccountCall : /\ accountCalls' = [accountCalls EXCEPT ![r] = call]
                 /\ call.op = "use" /\ mails[call.mail] # NoMail /\ mails[call.mail].open
    <3>1. [op |-> "use", at |-> "write", mail |-> t] \in AccountCall
      BY DEF AccountCall
    <3> QED BY <2>5, <3>1 DEF UseFind, AccountStart, Usable
  <2>6. CASE \E e \in Email : RegisterFind(r, e) \/ PasswordFind(r, e)
    BY <2>1, <2>6
  <2>7. CASE \E i \in Identity, by \in Email \cup {"nobody"} : CallbackFind(r, i, by)
    BY <2>3, <2>7
  <2>8. CASE \E i \in Identity : UnlinkFind(r, i)
    BY <2>4, <2>8
  <2>9. CASE \/ \E e \in Email, kind \in Kind : AskFind(r, e, kind)
             \/ \E t \in Mail : UseFind(r, t)
    BY <2>2, <2>5, <2>9
  <2> QED BY <2>6, <2>7, <2>8, <2>9 DEF AccountRequest
<1>4. /\ accountCalls' \in [Req -> AccountCall] /\ accountCalls'[r] = call
      /\ \A d \in Req \ {r} : accountCalls'[d] = accountCalls[d]
  BY <1>1, <1>3 DEF AccountTypeOK
<1>5. Known(accountCalls[r])'
  BY <1>2, <1>3, <1>4 DEF Known, Registered
<1>6. ~AccountAt(r, "callback", "link") /\ ~AccountAt(r, "unlink", "delete")'
  BY <1>2, <1>3, <1>4, AccountIdle DEF AccountAt
<1>7. strayed' \in BOOLEAN
  BY <1>1, <1>2 DEF AccountTypeOK
<1> QED BY <1>2, <1>3, <1>4, <1>5, <1>6, <1>7, AccountCallInv

\* Checks, and the writes that find nothing to do.
LEMMA AccountCheckInv ==
  ASSUME AccountInv, NEW r \in Req,
         \/ CallbackUser(r) \/ LinkCheck(r) \/ UnlinkCount(r)
         \/ (RegisterWrite(r) \/ CallbackCreate(r)) /\ UNCHANGED users
  PROVE  AccountInv'
<1>1. AccountTypeOK /\ AccountRows /\ CallsKnown
  BY DEF AccountInv
<1>2. /\ UNCHANGED <<users, owner, mails, accountOverlap>> /\ ~AccountAt(r, "callback", "link")
      /\ \/ CallbackUser(r) \/ LinkCheck(r) \/ UnlinkCount(r)
         \/ AccountLeave(r) /\ UNCHANGED strayed
  <2>1. CASE CallbackUser(r) \/ LinkCheck(r) \/ UnlinkCount(r)
    BY <2>1 DEF CallbackUser, LinkCheck, UnlinkCount, AccountAt
  <2>2. CASE RegisterWrite(r) /\ UNCHANGED users
    <3>1. accountCalls[r].op = "register" /\ accountCalls[r].user \in Email
      BY <1>1, <2>2, AccountCallFields DEF RegisterWrite, AccountAt
    <3>2. users \in [Email -> UserRow \cup {NoUser}]
      BY <1>1 DEF AccountTypeOK
    <3>3. ~(~Registered(accountCalls[r].user) /\ users' =
              [users EXCEPT ![accountCalls[r].user] = [password |-> TRUE, verified |-> FALSE,
                                                       deleted |-> FALSE]])
      <4>1. [password |-> TRUE, verified |-> FALSE, deleted |-> FALSE] \in UserRow
        BY DEF UserRow
      <4> QED BY <2>2, <3>1, <3>2, <4>1, AccountsAreThere DEF Registered
    <3> QED BY <2>2, <3>1, <3>3 DEF RegisterWrite, AccountAt
  <2>3. CASE CallbackCreate(r) /\ UNCHANGED users
    <3>1. accountCalls[r].id.email \in Email
      BY <1>1, <2>3, AccountCallFields DEF CallbackCreate, AccountAt
    <3>2. users \in [Email -> UserRow \cup {NoUser}]
      BY <1>1 DEF AccountTypeOK
    <3>3. ~(~Registered(accountCalls[r].id.email) /\ users' =
              [users EXCEPT ![accountCalls[r].id.email] = [password |-> FALSE, verified |-> TRUE,
                                                           deleted |-> FALSE]])
      <4>1. [password |-> FALSE, verified |-> TRUE, deleted |-> FALSE] \in UserRow
        BY DEF UserRow
      <4> QED BY <2>3, <3>1, <3>2, <4>1, AccountsAreThere DEF Registered
    <3> QED BY <2>3, <3>3 DEF CallbackCreate, AccountAt
  <2> QED BY <2>1, <2>2, <2>3
<1>3. strayed' \in BOOLEAN
  <2>1. CASE LinkCheck(r)
    <3>1. accountCalls[r].free \in BOOLEAN
      BY <1>1, <2>1, AccountCallFields DEF LinkCheck, AccountAt
    <3> QED BY <1>1, <2>1, <3>1 DEF LinkCheck, LinkAnswer, AccountTypeOK
  <2>2. CASE strayed' = strayed
    BY <1>1, <2>2 DEF AccountTypeOK
  <2> QED BY <1>2, <2>1, <2>2 DEF CallbackUser, UnlinkCount
<1>4. CASE AccountLeave(r)
  <2>1. /\ accountCalls' \in [Req -> AccountCall] /\ accountCalls'[r].op = "idle"
        /\ \A d \in Req \ {r} : accountCalls'[d] = accountCalls[d]
    BY <1>1, <1>4, AccountLeaves
  <2>2. Known(accountCalls[r])' /\ ~AccountAt(r, "unlink", "delete")'
    BY <2>1 DEF Known, AccountAt
  <2> QED BY <1>2, <1>3, <2>1, <2>2, AccountCallInv
<1>5. CASE CallbackUser(r)
  <2> DEFINE e == accountCalls[r].id.email
  <2>1. PICK at \in {"create", "verify", "link"} : /\ AccountTo(r, at) /\ accountCalls[r].op = "callback"
                                                   /\ at # "create" => Registered(e)
    BY <1>5 DEF CallbackUser, AccountAt
  <2>2. /\ accountCalls' \in [Req -> AccountCall]
        /\ \A d \in Req \ {r} : accountCalls'[d] = accountCalls[d]
        /\ accountCalls'[r].op = "callback" /\ accountCalls'[r].at = at
        /\ accountCalls'[r].id = accountCalls[r].id
    BY <1>1, <2>1, AccountMoves
  <2>3. Known(accountCalls[r])' /\ ~AccountAt(r, "unlink", "delete")'
    BY <1>2, <2>1, <2>2 DEF Known, AccountAt, Registered
  <2> QED BY <1>2, <1>3, <2>1, <2>2, <2>3, AccountCallInv
<1>6. CASE LinkCheck(r) /\ ~AccountLeave(r)
  <2>1. AccountTo(r, "add") /\ accountCalls[r].op = "callback" /\ accountCalls[r].at = "check"
    BY <1>6 DEF LinkCheck, LinkAnswer, AccountAt
  <2>2. /\ accountCalls' \in [Req -> AccountCall]
        /\ \A d \in Req \ {r} : accountCalls'[d] = accountCalls[d]
        /\ accountCalls'[r].op = "callback" /\ accountCalls'[r].at = "add"
        /\ accountCalls'[r].id = accountCalls[r].id
    BY <1>1, <2>1, AccountMoves
  <2>3. Registered(accountCalls[r].id.email)
    BY <1>1, <2>1 DEF CallsKnown, Known
  <2>4. Known(accountCalls[r])' /\ ~AccountAt(r, "unlink", "delete")'
    BY <1>2, <2>2, <2>3 DEF Known, AccountAt, Registered
  <2> QED BY <1>2, <1>3, <2>1, <2>2, <2>4, AccountCallInv
<1>7. CASE UnlinkCount(r) /\ ~AccountLeave(r)
  <2> DEFINE c == accountCalls[r]
  <2>1. AccountTo(r, "delete") /\ c.op = "unlink" /\ Cardinality(Links(c.user)) > 1
    BY <1>7 DEF UnlinkCount, AccountAt
  <2>2. /\ accountCalls' \in [Req -> AccountCall]
        /\ \A d \in Req \ {r} : accountCalls'[d] = accountCalls[d]
        /\ accountCalls'[r].op = "unlink" /\ accountCalls'[r].id = c.id
        /\ accountCalls'[r].user = c.user /\ accountCalls'[r].there = c.there
    BY <1>1, <2>1, AccountMoves
  <2>3. Known(accountCalls[r])'
    BY <1>1, <1>2, <2>1, <2>2 DEF CallsKnown, Known
  <2>4. \E i \in Identity : i # c.id /\ owner[i] = c.user
    <3>1. Links(c.user) # {c.id} /\ Links(c.user) # {}
      BY <2>1, MoreThanOne
    <3> QED BY <3>1 DEF Links
  <2> QED BY <1>2, <1>3, <2>2, <2>3, <2>4, AccountCallInv
<1> QED BY <1>2, <1>4, <1>5, <1>6, <1>7

\* Links and requests stay as they are, but for some that end or are about to
\* make the first link.
LEMMA FirstLinkStays ==
  ASSUME FirstLinkUnderWay, owner' = owner, \A e \in Email : Bare(e)' => Bare(e),
         \A r \in Req : \/ accountCalls'[r] = accountCalls[r]
                        \/ /\ ~AccountAt(r, "callback", "link")
                           /\ ~(accountCalls'[r].op = "callback" /\ accountCalls'[r].at \in {"check", "add"})
  PROVE  FirstLinkUnderWay'
BY FirstLinkKept

LEMMA MailsStay ==
  ASSUME AccountInv, mails' = mails, accountOverlap \subseteq accountOverlap',
         \A r \in Req : accountCalls'[r] = accountCalls[r] \/ accountCalls'[r].op # "use"
  PROVE  /\ "use" \notin accountOverlap' => UsedAtMostOnce'
         /\ "ask" \notin accountOverlap' => OneOpen'
<1>1. UsedAtMostOnce => UsedAtMostOnce'
  BY DEF UsedAtMostOnce
<1>2. OneOpen => OneOpen'
  BY DEF OneOpen, Usable
<1> QED BY <1>1, <1>2 DEF AccountInv

\* The row of a user is written, and no way in is lost.
LEMMA UserWritten ==
  ASSUME AccountTypeOK, owner' = owner, NEW e \in Email, NEW row \in UserRow,
         users' = [users EXCEPT ![e] = row],
         row.deleted \/ row.password \/ (LiveUser(e) /\ ~users[e].password)
  PROVE  /\ users' \in [Email -> UserRow \cup {NoUser}]
         /\ \A f \in Email : Registered(f) => Registered(f)'
         /\ Registered(e)'
         /\ \A f \in Email : Bare(f)' => Bare(f)
<1>1. users \in [Email -> UserRow \cup {NoUser}]
  BY DEF AccountTypeOK
<1>2. /\ users' \in [Email -> UserRow \cup {NoUser}]
      /\ users'[e] = row /\ \A f \in Email \ {e} : users'[f] = users[f]
  BY <1>1
<1>3. \A f \in Email : Links(f)' = Links(f)
  BY DEF Links
<1>4. \A f \in Email : Bare(f)' => Bare(f)
  BY <1>2, <1>3 DEF Bare, LiveUser
<1> QED BY <1>2, <1>4, AccountsAreThere DEF Registered

\* setPassword, deleting the account, and the abort of a request.
LEMMA UserWriteInv ==
  ASSUME AccountInv, \/ \E r \in Req : PasswordWrite(r)
                     \/ \E e \in Email : DeleteAccount(e)
  PROVE  AccountInv'
<1>1. AccountTypeOK /\ CallsKnown
  BY DEF AccountInv
<1>2. UNCHANGED <<owner, mails, accountOverlap, strayed>>
  BY DEF PasswordWrite, DeleteAccount
<1>3. PICK e \in Email, row \in UserRow :
        /\ users' = [users EXCEPT ![e] = row]
        /\ row.deleted \/ row.password
        /\ accountCalls' \in [Req -> AccountCall]
        /\ \A r \in Req : accountCalls'[r] = accountCalls[r]
                          \/ (accountCalls'[r].op = "idle" /\ accountCalls[r].op = "password")
  <2>1. CASE \E r \in Req : PasswordWrite(r)
    <3>1. PICK r \in Req : PasswordWrite(r)
      BY <2>1
    <3> DEFINE e == accountCalls[r].user
               row == [users[e] EXCEPT !.password = TRUE]
    <3>2. accountCalls[r].op = "password" /\ e \in Email /\ Registered(e)
      BY <1>1, <3>1, AccountCallFields DEF PasswordWrite, AccountAt, CallsKnown, Known
    <3>3. row \in UserRow /\ row.password /\ users' = [users EXCEPT ![e] = row]
      BY <1>1, <3>1, <3>2, UserFields DEF UserRow, PasswordWrite
    <3>4. /\ accountCalls' \in [Req -> AccountCall] /\ accountCalls'[r].op = "idle"
          /\ \A d \in Req \ {r} : accountCalls'[d] = accountCalls[d]
      BY <1>1, <3>1, AccountLeaves DEF PasswordWrite
    <3> HIDE DEF row
    <3> QED BY <3>2, <3>3, <3>4
  <2>2. CASE \E e \in Email : DeleteAccount(e)
    <3>1. PICK e \in Email : DeleteAccount(e)
      BY <2>2
    <3> DEFINE row == [users[e] EXCEPT !.deleted = TRUE]
    <3>2. row \in UserRow /\ row.deleted /\ users' = [users EXCEPT ![e] = row]
      BY <1>1, <3>1, UserFields DEF UserRow, DeleteAccount, LoggedIn
    <3>3. accountCalls' = accountCalls
      BY <3>1 DEF DeleteAccount
    <3> HIDE DEF row
    <3> QED BY <1>1, <3>2, <3>3 DEF AccountTypeOK
  <2> QED BY <2>1, <2>2
<1>4. /\ users' \in [Email -> UserRow \cup {NoUser}]
      /\ \A f \in Email : Registered(f) => Registered(f)'
      /\ \A f \in Email : Bare(f)' => Bare(f)
  BY <1>1, <1>2, <1>3, UserWritten
<1>5. AccountTypeOK'
  BY <1>1, <1>2, <1>3, <1>4 DEF AccountTypeOK
<1>6. \A r \in Req : accountCalls'[r] = accountCalls[r] \/ Known(accountCalls[r])'
  BY <1>3 DEF Known
<1>7. \A r \in Req : \/ accountCalls'[r] = accountCalls[r]
                     \/ ~(AccountAt(r, "unlink", "delete")' /\ accountCalls'[r].there)
  BY <1>3 DEF AccountAt
<1>8. ASSUME {"unlink", "callback"} \cap accountOverlap' = {} PROVE FirstLinkUnderWay'
  <2>1. FirstLinkUnderWay
    BY <1>2, <1>8 DEF AccountInv
  <2> QED BY <1>2, <1>3, <1>4, <2>1, FirstLinkStays DEF AccountAt
<1>9. /\ "use" \notin accountOverlap' => UsedAtMostOnce'
      /\ "ask" \notin accountOverlap' => OneOpen'
  BY <1>2, <1>3, MailsStay
<1> QED BY <1>2, <1>4, <1>5, <1>6, <1>7, <1>8, <1>9, AccountKept

LEMMA AccountAbortInv ==
  ASSUME AccountInv, NEW r \in Req, AccountAbort(r)
  PROVE  AccountInv'
<1>1. AccountTypeOK
  BY DEF AccountInv
<1>2. /\ UNCHANGED <<users, owner, mails, strayed>> /\ AccountLeave(r)
      /\ accountOverlap \subseteq accountOverlap' /\ accountOverlap' \subseteq accountOverlap \cup {"callback"}
      /\ AccountAt(r, "callback", "link") /\ Bare(accountCalls[r].id.email)
           => "callback" \in accountOverlap'
  BY DEF AccountAbort, Bare
<1>3. /\ accountCalls' \in [Req -> AccountCall] /\ accountCalls'[r].op = "idle"
      /\ \A d \in Req \ {r} : accountCalls'[d] = accountCalls[d]
  BY <1>1, <1>2, AccountLeaves
<1>4. AccountTypeOK'
  BY <1>1, <1>2, <1>3 DEF AccountTypeOK
<1>5. \A e : Registered(e)' = Registered(e) /\ Bare(e)' = Bare(e)
  BY <1>2 DEF Registered, Bare, LiveUser, Links
<1>6. Known(accountCalls[r])' /\ ~AccountAt(r, "unlink", "delete")'
  BY <1>3 DEF Known, AccountAt
<1>7. ASSUME {"unlink", "callback"} \cap accountOverlap' = {} PROVE FirstLinkUnderWay'
  <2>1. FirstLinkUnderWay
    BY <1>2, <1>7 DEF AccountInv
  <2>2. ASSUME NEW e \in Email, Bare(e) PROVE ~(AccountAt(r, "callback", "link") /\ accountCalls[r].id.email = e)
    BY <1>2, <1>7, <2>2
  <2> QED BY <1>2, <1>3, <1>5, <2>1, <2>2, FirstLinkKept
<1>8. /\ "use" \notin accountOverlap' => UsedAtMostOnce'
      /\ "ask" \notin accountOverlap' => OneOpen'
  BY <1>2, <1>3, MailsStay
<1> QED BY <1>2, <1>3, <1>4, <1>5, <1>6, <1>7, <1>8, AccountKept

\* The callback makes the user: no identity with the address was linked yet.
LEMMA CallbackCreateInv ==
  ASSUME AccountInv, NEW r \in Req, CallbackCreate(r)
  PROVE  AccountInv'
<1> DEFINE e == accountCalls[r].id.email
           row == [password |-> FALSE, verified |-> TRUE, deleted |-> FALSE]
<1>1. AccountTypeOK /\ AccountRows /\ CallsKnown
  BY DEF AccountInv
<1>2. UNCHANGED <<owner, mails, accountOverlap, strayed>> /\ AccountAt(r, "callback", "create")
  BY DEF CallbackCreate
<1>3. accountCalls[r].op = "callback" /\ e \in Email /\ accountCalls[r].id \in Identity
  BY <1>1, <1>2, AccountCallFields DEF AccountAt
<1>4. CASE Registered(e)
  <2>1. UNCHANGED users
    BY <1>4 DEF CallbackCreate
  <2> QED BY <2>1, AccountCheckInv
<1>5. CASE ~Registered(e)
  <2>1. users' = [users EXCEPT ![e] = row] /\ AccountTo(r, "link")
    BY <1>5 DEF CallbackCreate
  <2>2. row \in UserRow
    BY DEF UserRow
  <2>3. /\ users' \in [Email -> UserRow \cup {NoUser}] /\ users'[e] = row
        /\ \A f \in Email \ {e} : users'[f] = users[f]
    BY <1>1, <1>3, <2>1, <2>2 DEF AccountTypeOK
  <2>4. \A f \in Email : Registered(f) => Registered(f)'
    BY <1>5, <2>3 DEF Registered
  <2>5. users'[e] # NoUser
    BY <2>2, <2>3, AccountsAreThere
  <2>6. /\ accountCalls' \in [Req -> AccountCall]
        /\ \A d \in Req \ {r} : accountCalls'[d] = accountCalls[d]
        /\ accountCalls'[r].op = "callback" /\ accountCalls'[r].at = "link"
        /\ accountCalls'[r].id = accountCalls[r].id
    BY <1>1, <1>3, <2>1, AccountMoves
  <2> HIDE DEF row
  <2>7. AccountTypeOK'
    BY <1>1, <1>2, <2>3, <2>6 DEF AccountTypeOK
  <2>8. Known(accountCalls[r])' /\ ~AccountAt(r, "unlink", "delete")'
    BY <2>5, <2>6 DEF Known, AccountAt, Registered
  <2>9. ASSUME {"unlink", "callback"} \cap accountOverlap' = {} PROVE FirstLinkUnderWay'
    <3>1. FirstLinkUnderWay
      BY <1>2, <2>9 DEF AccountInv
    <3>2. \A i \in Identity : i.email = e => owner'[i] = "nobody"
      BY <1>1, <1>2, <1>5 DEF AccountRows
    <3>3. \A d \in Req : accountCalls'[d].op = "callback" /\ accountCalls'[d].id.email = e
                           => accountCalls'[d].at \notin {"check", "add"}
      BY <1>1, <1>5, <2>6 DEF CallsKnown, Known
    <3>4. \E d \in Req : AccountAt(d, "callback", "link")' /\ accountCalls'[d].id.email = e
      BY <2>6 DEF AccountAt
    <3>5. ASSUME NEW f \in Email \ {e}, Bare(f)'
          PROVE  /\ \E d \in Req : AccountAt(d, "callback", "link")' /\ accountCalls'[d].id.email = f
                 /\ \A i \in Identity : i.email = f => owner'[i] = "nobody"
                 /\ \A d \in Req : accountCalls'[d].op = "callback" /\ accountCalls'[d].id.email = f
                                     => accountCalls'[d].at \notin {"check", "add"}
      <4>1. Bare(f)
        BY <1>2, <2>3, <3>5 DEF Bare, LiveUser, Links
      <4>2. PICK d \in Req : AccountAt(d, "callback", "link") /\ accountCalls[d].id.email = f
        BY <3>1, <4>1 DEF FirstLinkUnderWay
      <4>3. AccountAt(d, "callback", "link")' /\ accountCalls'[d].id.email = f
        BY <2>6, <4>2 DEF AccountAt
      <4>4. \A i \in Identity : i.email = f => owner'[i] = "nobody"
        BY <1>2, <3>1, <4>1 DEF FirstLinkUnderWay
      <4>5. \A q \in Req : accountCalls'[q].op = "callback" /\ accountCalls'[q].id.email = f
                             => accountCalls'[q].at \notin {"check", "add"}
        BY <2>6, <3>1, <4>1 DEF FirstLinkUnderWay
      <4> QED BY <4>3, <4>4, <4>5
    <3> QED BY <3>2, <3>3, <3>4, <3>5 DEF FirstLinkUnderWay
  <2>10. /\ "use" \notin accountOverlap' => UsedAtMostOnce'
         /\ "ask" \notin accountOverlap' => OneOpen'
    BY <1>2, <2>6, MailsStay
  <2> QED BY <1>2, <2>4, <2>6, <2>7, <2>8, <2>9, <2>10, AccountKept
<1> QED BY <1>4, <1>5

-----------------------------------------------------------------------------
(***************************************************************************)
(* Users' accounts: mailed tokens                                          *)
(***************************************************************************)
\* The table, where tokens may have become unusable.
Shut(seen) ==
  /\ seen \in [Mail -> MailRow \cup {NoMail}]
  /\ \A t \in Mail : \/ seen[t] = mails[t]
                     \/ /\ mails[t] # NoMail /\ seen[t] # NoMail /\ ~seen[t].open
                        /\ seen[t].to = mails[t].to /\ seen[t].kind = mails[t].kind
                        /\ seen[t].uses = mails[t].uses

\* Using up the tokens of a kind leaves none of them open.
LEMMA SupersededShut ==
  ASSUME AccountTypeOK, NEW e \in Email, NEW kind \in Kind
  PROVE  /\ Shut(Superseded(e, kind))
         /\ \A t \in Mail : LET row == Superseded(e, kind)[t]
                            IN row # NoMail /\ row.open /\ row.to = e => row.kind # kind
<1> DEFINE seen == Superseded(e, kind)
<1>1. \A t \in Mail : seen[t] = IF mails[t] # NoMail /\ mails[t].to = e /\ mails[t].kind = kind
                                THEN [mails[t] EXCEPT !.open = FALSE] ELSE mails[t]
  BY DEF Superseded
<1>2. ASSUME NEW t \in Mail, mails[t] # NoMail
      PROVE  LET row == [mails[t] EXCEPT !.open = FALSE]
             IN /\ row \in MailRow /\ row # NoMail /\ ~row.open /\ row.to = mails[t].to
                /\ row.kind = mails[t].kind /\ row.uses = mails[t].uses
  <2> DEFINE row == [mails[t] EXCEPT !.open = FALSE]
  <2>1. /\ row \in MailRow /\ ~row.open /\ row.to = mails[t].to
        /\ row.kind = mails[t].kind /\ row.uses = mails[t].uses
    BY <1>2, MailFields DEF MailRow
  <2> HIDE DEF row
  <2>2. row # NoMail
    BY <2>1, AccountsAreThere
  <2> QED BY <2>1, <2>2 DEF row
<1>3. seen \in [Mail -> MailRow \cup {NoMail}]
  <2>1. \A t \in Mail : seen[t] \in MailRow \cup {NoMail}
    BY <1>1, <1>2 DEF AccountTypeOK
  <2> QED BY <2>1 DEF Superseded
<1> HIDE DEF seen
<1>4. Shut(seen)
  BY <1>1, <1>2, <1>3 DEF Shut
<1>5. \A t \in Mail : seen[t] # NoMail /\ seen[t].open /\ seen[t].to = e => seen[t].kind # kind
  BY <1>1, <1>2
<1> QED BY <1>4, <1>5 DEF seen

\* What AccountKept asks of the tokens.
MailsGoOn == /\ \A t \in Mail : mails[t] # NoMail => mails'[t] # NoMail
             /\ \A t \in Mail : \/ mails'[t] = mails[t]
                                \/ Registered(mails[t].to)' /\ (mails'[t].open => mails'[t].uses = 0)
             /\ "use" \notin accountOverlap' => UsedAtMostOnce'
             /\ "ask" \notin accountOverlap' => OneOpen'

\* Tokens become unusable, and perhaps one is new.
LEMMA MailsWritten ==
  ASSUME AccountInv, NEW seen, Shut(seen), NEW new \in SUBSET Mail, NEW e \in Email, NEW kind \in Kind,
         \A t \in new : mails'[t] = NewMail(e, kind),
         \A t \in Mail \ new : mails'[t] = seen[t],
         \A s, t \in new : s = t,
         new # {} => users'[e] # NoUser,
         \A f \in Email : users[f] # NoUser => users'[f] # NoUser,
         \A r \in Req : accountCalls'[r] = accountCalls[r] \/ accountCalls'[r].op # "use",
         \A r \in Req : accountCalls[r].op = "use" => accountCalls[r].mail \notin new,
         accountOverlap \subseteq accountOverlap',
         "ask" \notin accountOverlap' /\ new # {} =>
           \A t \in Mail \ new : seen[t] # NoMail /\ seen[t].open /\ seen[t].to = e
                                   => seen[t].kind # kind
  PROVE  MailsGoOn
<1>1. AccountTypeOK /\ AccountRows
  BY DEF AccountInv
<1>2. /\ NewMail(e, kind) \in MailRow /\ NewMail(e, kind) # NoMail
      /\ NewMail(e, kind).to = e /\ NewMail(e, kind).kind = kind /\ NewMail(e, kind).uses = 0
  <2>1. NewMail(e, kind) \in MailRow
    BY DEF NewMail, MailRow
  <2> QED BY <2>1, AccountsAreThere DEF NewMail
<1>3. /\ \A t \in new : mails'[t] = NewMail(e, kind)
      /\ \A t \in Mail \ new : mails'[t] = seen[t]
  OBVIOUS
<1>5. \A t \in Mail : mails[t] # NoMail => mails'[t] # NoMail
  BY <1>2, <1>3 DEF Shut
<1>6. ASSUME NEW t \in Mail, mails'[t] # mails[t]
      PROVE  users'[mails'[t].to] # NoUser /\ (mails'[t].open => mails'[t].uses = 0)
  <2>1. CASE t \in new
    BY <1>2, <1>3, <2>1
  <2>2. CASE t \notin new
    <3>1. mails[t] # NoMail /\ mails'[t].to = mails[t].to /\ ~mails'[t].open
      BY <1>3, <1>6, <2>2 DEF Shut
    <3>2. mails[t].to \in Email /\ users[mails[t].to] # NoUser
      BY <1>1, <3>1, MailFields DEF AccountRows, Registered
    <3> QED BY <3>1, <3>2
  <2> QED BY <2>1, <2>2
<1>7. ASSUME "use" \notin accountOverlap' PROVE UsedAtMostOnce'
  <2>1. UsedAtMostOnce
    BY <1>7 DEF AccountInv
  <2>2. \A t \in Mail : mails'[t] # NoMail => mails'[t].uses <= 1
    BY <1>2, <1>3, <2>1 DEF UsedAtMostOnce, Shut
  <2>3. ASSUME NEW r \in Req, accountCalls'[r].op = "use"
        PROVE  mails'[accountCalls'[r].mail].uses = 0
    <3>1. accountCalls'[r] = accountCalls[r] /\ accountCalls[r].mail \in Mail \ new
      BY <1>1, <2>3, AccountCallFields
    <3>2. mails[accountCalls[r].mail].uses = 0
      BY <2>1, <2>3, <3>1 DEF UsedAtMostOnce
    <3> QED BY <1>3, <3>1, <3>2 DEF Shut
  <2> QED BY <2>2, <2>3 DEF UsedAtMostOnce
<1>8. ASSUME "ask" \notin accountOverlap' PROVE OneOpen'
  <2>1. OneOpen
    BY <1>8 DEF AccountInv
  <2>2. \A t \in Mail \ new : mails'[t] # NoMail /\ mails'[t].open
          => /\ mails[t] # NoMail /\ mails[t].open
             /\ mails'[t].to = mails[t].to /\ mails'[t].kind = mails[t].kind
    BY <1>3 DEF Shut
  <2>3. ASSUME NEW s \in Mail, NEW t \in Mail, s # t, mails'[s] # NoMail, mails'[s].open,
               mails'[t] # NoMail, mails'[t].open, mails'[s].to = mails'[t].to,
               mails'[s].kind = mails'[t].kind
        PROVE  FALSE
    <3>1. CASE s \notin new /\ t \notin new
      BY <2>1, <2>2, <2>3, <3>1 DEF OneOpen, Usable
    <3>2. CASE s \in new \/ t \in new
      BY <1>2, <1>3, <1>8, <2>3, <3>2
    <3> QED BY <3>1, <3>2
  <2> QED BY <2>3 DEF OneOpen, Usable
<1> QED BY <1>5, <1>6, <1>7, <1>8 DEF Registered, MailsGoOn

\* Tokens become unusable, and none is new.
LEMMA MailsClose ==
  ASSUME AccountInv, Shut(mails'), NEW e \in Email, NEW kind \in Kind,
         \A f \in Email : users[f] # NoUser => users'[f] # NoUser,
         \A r \in Req : accountCalls'[r] = accountCalls[r] \/ accountCalls'[r].op # "use",
         accountOverlap \subseteq accountOverlap'
  PROVE  mails' \in [Mail -> MailRow \cup {NoMail}] /\ MailsGoOn
<1>1. mails' \in [Mail -> MailRow \cup {NoMail}]
  BY DEF Shut
<1>2. PICK seen \in [Mail -> MailRow \cup {NoMail}], new \in SUBSET Mail : seen = mails' /\ new = {}
  BY <1>1
<1>3. Shut(seen)
  BY <1>2
<1>4. /\ \A t \in new : mails'[t] = NewMail(e, kind)
      /\ \A t \in Mail \ new : mails'[t] = seen[t]
      /\ \A t, q \in new : t = q
      /\ new # {} => users'[e] # NoUser
      /\ \A f \in Email : users[f] # NoUser => users'[f] # NoUser
      /\ \A r \in Req : accountCalls'[r] = accountCalls[r] \/ accountCalls'[r].op # "use"
      /\ \A r \in Req : accountCalls[r].op = "use" => accountCalls[r].mail \notin new
      /\ accountOverlap \subseteq accountOverlap'
      /\ "ask" \notin accountOverlap' /\ new # {} =>
           \A t \in Mail \ new : seen[t] # NoMail /\ seen[t].open /\ seen[t].to = e
                                   => seen[t].kind # kind
  BY <1>2
<1>5. MailsGoOn
  BY ONLY AccountInv, <1>3, <1>4, MailsWritten
<1> QED BY <1>1, <1>5

\* Tokens become unusable, and one is new.
LEMMA NewMailWritten ==
  ASSUME AccountInv, NEW seen, Shut(seen), NEW t \in Mail, NEW e \in Email, NEW kind \in Kind,
         mails' = [seen EXCEPT ![t] = NewMail(e, kind)], users'[e] # NoUser,
         \A f \in Email : users[f] # NoUser => users'[f] # NoUser,
         \A r \in Req : accountCalls'[r] = accountCalls[r] \/ accountCalls'[r].op # "use",
         \A r \in Req : accountCalls[r].op = "use" => accountCalls[r].mail # t,
         accountOverlap \subseteq accountOverlap',
         "ask" \notin accountOverlap' =>
           \A s \in Mail \ {t} : seen[s] # NoMail /\ seen[s].open /\ seen[s].to = e
                                   => seen[s].kind # kind
  PROVE  mails' \in [Mail -> MailRow \cup {NoMail}] /\ MailsGoOn
<1>1. NewMail(e, kind) \in MailRow
  BY DEF NewMail, MailRow
<1>2. /\ mails' \in [Mail -> MailRow \cup {NoMail}] /\ mails'[t] = NewMail(e, kind)
      /\ \A s \in Mail \ {t} : mails'[s] = seen[s]
  BY <1>1 DEF Shut
<1>3. PICK new \in SUBSET Mail : new = {t}
  OBVIOUS
<1>4. /\ \A s \in new : mails'[s] = NewMail(e, kind)
      /\ \A s \in Mail \ new : mails'[s] = seen[s]
      /\ \A s, q \in new : s = q
      /\ new # {} => users'[e] # NoUser
      /\ \A f \in Email : users[f] # NoUser => users'[f] # NoUser
      /\ \A r \in Req : accountCalls'[r] = accountCalls[r] \/ accountCalls'[r].op # "use"
      /\ \A r \in Req : accountCalls[r].op = "use" => accountCalls[r].mail \notin new
      /\ accountOverlap \subseteq accountOverlap'
      /\ "ask" \notin accountOverlap' /\ new # {} =>
           \A s \in Mail \ new : seen[s] # NoMail /\ seen[s].open /\ seen[s].to = e
                                   => seen[s].kind # kind
  BY <1>2, <1>3
<1>5. MailsGoOn
  BY ONLY AccountInv, Shut(seen), <1>4, MailsWritten
<1> QED BY <1>2, <1>5

\* A token expires.
LEMMA MailExpiresInv ==
  ASSUME AccountInv, NEW t \in Mail, MailExpires(t)
  PROVE  AccountInv'
<1> DEFINE row == [mails[t] EXCEPT !.open = FALSE]
<1>1. AccountTypeOK
  BY DEF AccountInv
<1>2. /\ UNCHANGED <<users, owner, accountCalls, accountOverlap, strayed>>
      /\ mails' = [mails EXCEPT ![t] = row] /\ mails[t] # NoMail
  BY DEF MailExpires, Usable
<1>3. /\ row \in MailRow /\ ~row.open /\ row.to = mails[t].to
      /\ row.kind = mails[t].kind /\ row.uses = mails[t].uses
  BY <1>1, <1>2, MailFields DEF MailRow
<1> HIDE DEF row
<1>4. row # NoMail
  BY <1>3, AccountsAreThere
<1>5. Shut(mails')
  BY <1>1, <1>2, <1>3, <1>4 DEF Shut, AccountTypeOK
<1>7. mails[t].to \in Email /\ mails[t].kind \in Kind
  BY <1>1, <1>2, MailFields
<1>8. mails' \in [Mail -> MailRow \cup {NoMail}] /\ MailsGoOn
  BY <1>2, <1>5, <1>7, MailsClose
<1>9. AccountTypeOK'
  BY <1>1, <1>2, <1>8 DEF AccountTypeOK
<1>10. ASSUME {"unlink", "callback"} \cap accountOverlap' = {} PROVE FirstLinkUnderWay'
  <2>1. FirstLinkUnderWay
    BY <1>2, <1>10 DEF AccountInv
  <2> QED BY <1>2, <2>1 DEF FirstLinkUnderWay, Bare, LiveUser, Links, AccountAt
<1>11. \A f \in Email : Registered(f) => Registered(f)'
  BY <1>2 DEF Registered
<1> QED BY <1>2, <1>8, <1>9, <1>10, <1>11, AccountKept DEF MailsGoOn

LEMMA AskWriteInv ==
  ASSUME AccountInv, NEW r \in Req, AskWrite(r)
  PROVE  AccountInv'
<1> DEFINE c == accountCalls[r]
<1>1. AccountTypeOK /\ CallsKnown
  BY DEF AccountInv
<1>2. UNCHANGED <<users, owner, strayed>> /\ AccountLeave(r) /\ accountCalls[r].op = "ask"
  BY DEF AskWrite, AccountAt
<1>3. c.user \in Email /\ c.kind \in Kind /\ Registered(c.user)
  BY <1>1, <1>2, AccountCallFields DEF CallsKnown, Known
<1>4. /\ accountOverlap \subseteq accountOverlap' /\ accountOverlap' \subseteq accountOverlap \cup {"ask"}
      /\ accountOverlap' \subseteq {"unlink", "callback", "use", "ask"}
  BY <1>1 DEF AskWrite, AccountTypeOK
<1>5. /\ accountCalls' \in [Req -> AccountCall] /\ accountCalls'[r].op = "idle"
      /\ \A d \in Req \ {r} : accountCalls'[d] = accountCalls[d]
  BY <1>1, <1>2, AccountLeaves
<1>6. PICK t \in Mail, seen \in {Superseded(c.user, c.kind)} \cup {mails : o \in {"ask"} \cap accountOverlap} :
        /\ \A d \in Req : accountCalls[d].op = "use" => accountCalls[d].mail # t
        /\ mails' = [seen EXCEPT ![t] = NewMail(c.user, c.kind)]
  BY DEF AskWrite
<1>7. PICK e \in Email, kind \in Kind : e = c.user /\ kind = c.kind
  BY <1>3
<1>8. /\ Shut(seen)
      /\ "ask" \notin accountOverlap' =>
           \A s \in Mail \ {t} : seen[s] # NoMail /\ seen[s].open /\ seen[s].to = e
                                   => seen[s].kind # kind
  <2>1. CASE seen = Superseded(e, kind)
    BY <1>1, <2>1, SupersededShut
  <2>2. CASE seen = mails /\ "ask" \in accountOverlap
    BY <1>1, <1>4, <2>2 DEF Shut, AccountTypeOK
  <2> QED BY <1>6, <1>7, <2>1, <2>2
<1>9. mails' = [seen EXCEPT ![t] = NewMail(e, kind)] /\ users'[e] # NoUser
      /\ \A f \in Email : users[f] # NoUser => users'[f] # NoUser
  BY <1>2, <1>3, <1>6, <1>7 DEF Registered
<1>10. \A d \in Req : accountCalls'[d] = accountCalls[d] \/ accountCalls'[d].op # "use"
  BY <1>5
<1>11. mails' \in [Mail -> MailRow \cup {NoMail}] /\ MailsGoOn
  BY <1>4, <1>6, <1>8, <1>9, <1>10, NewMailWritten
<1>12. AccountTypeOK'
  BY <1>1, <1>2, <1>4, <1>5, <1>11 DEF AccountTypeOK
<1>13. ASSUME {"unlink", "callback"} \cap accountOverlap' = {} PROVE FirstLinkUnderWay'
  <2>1. FirstLinkUnderWay
    BY <1>4, <1>13 DEF AccountInv
  <2>2. \A f \in Email : Bare(f)' => Bare(f)
    BY <1>2 DEF Bare, LiveUser, Links
  <2> QED BY <1>2, <1>5, <2>1, <2>2, FirstLinkStays DEF AccountAt
<1>14. Known(accountCalls[r])' /\ ~AccountAt(r, "unlink", "delete")'
  BY <1>5 DEF Known, AccountAt
<1>15. \A f \in Email : Registered(f) => Registered(f)'
  BY <1>9 DEF Registered
<1> QED BY <1>2, <1>4, <1>5, <1>11, <1>12, <1>13, <1>14, <1>15, AccountKept DEF MailsGoOn

\* Nobody has been mailed at an address that is just registered.
LEMMA RegisterWriteInv ==
  ASSUME AccountInv, NEW r \in Req, RegisterWrite(r)
  PROVE  AccountInv'
<1> DEFINE row == [password |-> TRUE, verified |-> FALSE, deleted |-> FALSE]
<1>1. AccountTypeOK /\ AccountRows
  BY DEF AccountInv
<1>2. UNCHANGED <<owner, accountOverlap, strayed>> /\ AccountLeave(r) /\ accountCalls[r].op = "register"
  BY DEF RegisterWrite, AccountAt
<1>3. PICK e \in Email : e = accountCalls[r].user
  BY <1>1, <1>2, AccountCallFields
<1>4. CASE UNCHANGED users
  BY <1>4, AccountCheckInv
<1>5. CASE ~UNCHANGED users
  <2>1. /\ users' = [users EXCEPT ![e] = row] /\ users[e] = NoUser
        /\ \E t \in Mail : Spare(t) /\ mails' = [mails EXCEPT ![t] = NewMail(e, "confirm")]
    BY <1>3, <1>5 DEF RegisterWrite, Registered
  <2>2. PICK t \in Mail : Spare(t) /\ mails' = [mails EXCEPT ![t] = NewMail(e, "confirm")]
    BY <2>1
  <2>3. row \in UserRow /\ row.password
    BY DEF UserRow
  <2> HIDE DEF row
  <2>4. /\ users' \in [Email -> UserRow \cup {NoUser}]
        /\ \A f \in Email : Registered(f) => Registered(f)'
        /\ Registered(e)'
        /\ \A f \in Email : Bare(f)' => Bare(f)
    BY <1>1, <1>2, <2>1, <2>3, UserWritten
  <2>5. /\ accountCalls' \in [Req -> AccountCall] /\ accountCalls'[r].op = "idle"
        /\ \A d \in Req \ {r} : accountCalls'[d] = accountCalls[d]
    BY <1>1, <1>2, AccountLeaves
  <2>6. PICK seen \in [Mail -> MailRow \cup {NoMail}], kind \in Kind : seen = mails /\ kind = "confirm"
    BY <1>1 DEF AccountTypeOK, Kind
  <2>7. Shut(seen) /\ mails' = [seen EXCEPT ![t] = NewMail(e, kind)]
    BY <2>2, <2>6 DEF Shut
  <2>8. \A s \in Mail : seen[s] # NoMail => seen[s].to # e
    BY <1>1, <2>1, <2>6 DEF AccountRows, Registered
  <2>9. /\ \A d \in Req : accountCalls[d].op = "use" => accountCalls[d].mail # t
        /\ \A d \in Req : accountCalls'[d] = accountCalls[d] \/ accountCalls'[d].op # "use"
        /\ users'[e] # NoUser /\ \A f \in Email : users[f] # NoUser => users'[f] # NoUser
    BY <2>2, <2>4, <2>5 DEF Spare, Registered
  <2>10. mails' \in [Mail -> MailRow \cup {NoMail}] /\ MailsGoOn
    BY <1>2, <2>7, <2>8, <2>9, NewMailWritten
  <2>11. AccountTypeOK'
    BY <1>1, <1>2, <2>4, <2>5, <2>10 DEF AccountTypeOK
  <2>12. ASSUME {"unlink", "callback"} \cap accountOverlap' = {} PROVE FirstLinkUnderWay'
    <3>1. FirstLinkUnderWay
      BY <1>2, <2>12 DEF AccountInv
    <3> QED BY <1>2, <2>4, <2>5, <3>1, FirstLinkStays DEF AccountAt
  <2>13. Known(accountCalls[r])' /\ ~AccountAt(r, "unlink", "delete")'
    BY <2>5 DEF Known, AccountAt
  <2> QED BY <1>2, <2>4, <2>5, <2>10, <2>11, <2>12, <2>13, AccountKept DEF MailsGoOn
<1> QED BY <1>4, <1>5

LEMMA CallbackVerifyInv ==
  ASSUME AccountInv, NEW r \in Req, CallbackVerify(r)
  PROVE  AccountInv'
<1>1. AccountTypeOK /\ CallsKnown
  BY DEF AccountInv
<1>2. /\ UNCHANGED <<owner, accountOverlap, strayed>> /\ AccountTo(r, "link")
      /\ accountCalls[r].op = "callback" /\ accountCalls[r].at = "verify"
  BY DEF CallbackVerify, AccountAt
<1>3. PICK e \in Email, kind \in Kind : e = accountCalls[r].id.email /\ kind = "confirm"
  BY <1>1, <1>2, AccountCallFields DEF Kind
<1>4. users[e] # NoUser
  BY <1>1, <1>2, <1>3 DEF CallsKnown, Known, Registered
<1> DEFINE row == [users[e] EXCEPT !.verified = TRUE]
<1>5. /\ users' = [users EXCEPT ![e] = row] /\ row \in UserRow
      /\ row.deleted \/ row.password \/ (LiveUser(e) /\ ~users[e].password)
  BY <1>1, <1>3, <1>4, UserFields DEF UserRow, CallbackVerify, Registered, LiveUser
<1> HIDE DEF row
<1>6. /\ users' \in [Email -> UserRow \cup {NoUser}]
      /\ \A f \in Email : Registered(f) => Registered(f)'
      /\ Registered(e)'
      /\ \A f \in Email : Bare(f)' => Bare(f)
  BY <1>1, <1>2, <1>5, UserWritten
<1>7. /\ accountCalls' \in [Req -> AccountCall]
      /\ \A d \in Req \ {r} : accountCalls'[d] = accountCalls[d]
      /\ accountCalls'[r].op = "callback" /\ accountCalls'[r].at = "link"
      /\ accountCalls'[r].id = accountCalls[r].id
  BY <1>1, <1>2, AccountMoves
<1>8. Shut(mails')
  <2>1. mails' = Superseded(e, kind)
    BY <1>3 DEF CallbackVerify
  <2> QED BY <1>1, <2>1, SupersededShut
<1>9. /\ \A f \in Email : users[f] # NoUser => users'[f] # NoUser
      /\ \A d \in Req : accountCalls'[d] = accountCalls[d] \/ accountCalls'[d].op # "use"
  BY <1>6, <1>7 DEF Registered
<1>10. mails' \in [Mail -> MailRow \cup {NoMail}] /\ MailsGoOn
  BY <1>2, <1>8, <1>9, MailsClose
<1>11. AccountTypeOK'
  BY <1>1, <1>2, <1>6, <1>7, <1>10 DEF AccountTypeOK
<1>12. ASSUME {"unlink", "callback"} \cap accountOverlap' = {} PROVE FirstLinkUnderWay'
  <2>1. FirstLinkUnderWay
    BY <1>2, <1>12 DEF AccountInv
  <2> QED BY <1>2, <1>6, <1>7, <2>1, FirstLinkStays DEF AccountAt
<1>13. Known(accountCalls[r])' /\ ~AccountAt(r, "unlink", "delete")'
  <2>1. users'[e] # NoUser
    BY <1>6 DEF Registered
  <2> QED BY <1>3, <1>7, <2>1 DEF Known, AccountAt, Registered
<1> QED BY <1>2, <1>6, <1>7, <1>10, <1>11, <1>12, <1>13, AccountKept DEF MailsGoOn

\* Who also holds the token that is used would have been an overlap.
LEMMA MailUsed ==
  ASSUME AccountInv, NEW r \in Req, UseWrite(r), NEW t \in Mail, t = accountCalls[r].mail,
         NEW row \in MailRow, mails' = [mails EXCEPT ![t] = row],
         ~row.open, row.uses = mails[t].uses + 1, row.to = mails[t].to, row.kind = mails[t].kind,
         mails[t] # NoMail, users'[mails[t].to] # NoUser
  PROVE  mails' \in [Mail -> MailRow \cup {NoMail}] /\ MailsGoOn
<1>1. AccountTypeOK
  BY DEF AccountInv
<1>2. accountCalls[r] = [op |-> "use", at |-> "write", mail |-> t]
  BY <1>1, AccountCallFields DEF UseWrite, AccountAt
<1>3. /\ accountCalls' \in [Req -> AccountCall] /\ accountCalls'[r].op = "idle"
      /\ \A d \in Req \ {r} : accountCalls'[d] = accountCalls[d]
  BY <1>1, AccountLeaves DEF UseWrite
<1>4. /\ mails' \in [Mail -> MailRow \cup {NoMail}] /\ mails'[t] = row /\ row # NoMail
      /\ \A s \in Mail \ {t} : mails'[s] = mails[s]
  BY <1>1, AccountsAreThere DEF AccountTypeOK
<1>5. /\ accountOverlap' = accountOverlap \cup
           {"use" : d \in {d \in Req \ {r} : accountCalls[d] = accountCalls[r]}}
  BY DEF UseWrite
<1>6. ASSUME "use" \notin accountOverlap' PROVE UsedAtMostOnce'
  <2>1. UsedAtMostOnce
    BY <1>5, <1>6 DEF AccountInv
  <2>2. mails[t].uses = 0
    <3>1. accountCalls[r].op = "use"
      BY DEF UseWrite, AccountAt
    <3> QED BY ONLY t = accountCalls[r].mail, r \in Req, <2>1, <3>1 DEF UsedAtMostOnce
  <2>3. \A s \in Mail : mails'[s] # NoMail => mails'[s].uses <= 1
    BY <1>4, <2>1, <2>2 DEF UsedAtMostOnce
  <2>4. ASSUME NEW d \in Req, accountCalls'[d].op = "use"
        PROVE  mails'[accountCalls'[d].mail].uses = 0
    <3>1. d # r /\ accountCalls'[d] = accountCalls[d]
      BY <1>3, <2>4
    <3>2. accountCalls[d] # accountCalls[r]
      BY <1>5, <1>6, <3>1
    <3>3. /\ accountCalls[d] = [op |-> "use", at |-> "write", mail |-> accountCalls[d].mail]
          /\ accountCalls[d].mail \in Mail
      BY <1>1, <2>4, <3>1, AccountCallFields
    <3>4. accountCalls[d].mail # t
      BY <1>2, <3>2, <3>3
    <3>5. mails[accountCalls[d].mail].uses = 0
      BY <2>1, <2>4, <3>1 DEF UsedAtMostOnce
    <3> QED BY <1>4, <3>1, <3>3, <3>4, <3>5
  <2> QED BY <2>3, <2>4 DEF UsedAtMostOnce
<1>7. OneOpen => OneOpen'
  BY <1>4 DEF OneOpen, Usable
<1>8. "ask" \notin accountOverlap' => OneOpen'
  BY <1>5, <1>7 DEF AccountInv
<1> QED BY <1>4, <1>6, <1>8 DEF MailsGoOn, Registered

LEMMA UseWriteInv ==
  ASSUME AccountInv, NEW r \in Req, UseWrite(r)
  PROVE  AccountInv'
<1>1. AccountTypeOK /\ AccountRows /\ CallsKnown
  BY DEF AccountInv
<1>2. UNCHANGED <<owner, strayed>> /\ AccountLeave(r) /\ accountCalls[r].op = "use"
  BY DEF UseWrite, AccountAt
<1>3. PICK t \in Mail : t = accountCalls[r].mail
  BY <1>1, <1>2, AccountCallFields
<1>4. mails[t] # NoMail
  BY <1>1, <1>2, <1>3 DEF CallsKnown, Known
<1>5. PICK e \in Email : e = mails[t].to
  BY <1>1, <1>4, MailFields
<1>6. Registered(e)
  BY <1>1, <1>4, <1>5 DEF AccountRows
<1> DEFINE mail == [mails[t] EXCEPT !.open = FALSE, !.uses = @ + 1]
           row == IF mails[t].kind = "reset" THEN [users[e] EXCEPT !.password = TRUE]
                  ELSE [users[e] EXCEPT !.verified = TRUE]
<1>7. /\ mails' = [mails EXCEPT ![t] = mail] /\ mail \in MailRow /\ ~mail.open
      /\ mail.uses = mails[t].uses + 1 /\ mail.to = mails[t].to /\ mail.kind = mails[t].kind
  <2>1. mails' = [mails EXCEPT ![t] = mail]
    BY <1>1, <1>3 DEF UseWrite, AccountTypeOK
  <2>2. /\ mails[t] \in [to : Email, kind : Kind, open : BOOLEAN, uses : Nat]
        /\ mails[t].uses + 1 \in Nat
    BY <1>1, <1>4, MailFields DEF MailRow
  <2>3. mail = [mails[t] EXCEPT !.open = FALSE, !.uses = mails[t].uses + 1]
    BY <2>2
  <2>4. /\ mail \in [to : Email, kind : Kind, open : BOOLEAN, uses : Nat] /\ ~mail.open
        /\ mail.uses = mails[t].uses + 1 /\ mail.to = mails[t].to /\ mail.kind = mails[t].kind
    BY <2>2, <2>3
  <2> QED BY <2>1, <2>4 DEF MailRow
<1>8. /\ users' = [users EXCEPT ![e] = row] /\ row \in UserRow
      /\ row.deleted \/ row.password \/ (LiveUser(e) /\ ~users[e].password)
  <2>1. users' = [users EXCEPT ![e] = row]
    BY <1>3, <1>5 DEF UseWrite
  <2> QED BY <1>1, <1>6, <2>1, UserFields DEF UserRow, LiveUser
<1> HIDE DEF mail, row
<1>9. /\ users' \in [Email -> UserRow \cup {NoUser}]
      /\ \A f \in Email : Registered(f) => Registered(f)'
      /\ Registered(e)'
      /\ \A f \in Email : Bare(f)' => Bare(f)
  BY <1>1, <1>2, <1>8, UserWritten
<1>10. mails' \in [Mail -> MailRow \cup {NoMail}] /\ MailsGoOn
  <2>1. users'[mails[t].to] # NoUser
    BY <1>5, <1>9 DEF Registered
  <2> QED BY <1>3, <1>4, <1>7, <2>1, MailUsed
<1>11. /\ accountCalls' \in [Req -> AccountCall] /\ accountCalls'[r].op = "idle"
       /\ \A d \in Req \ {r} : accountCalls'[d] = accountCalls[d]
  BY <1>1, <1>2, AccountLeaves
<1>12. /\ accountOverlap \subseteq accountOverlap' /\ accountOverlap' \subseteq accountOverlap \cup {"use"}
       /\ accountOverlap' \subseteq {"unlink", "callback", "use", "ask"}
  BY <1>1 DEF UseWrite, AccountTypeOK
<1>13. AccountTypeOK'
  BY <1>1, <1>2, <1>9, <1>10, <1>11, <1>12 DEF AccountTypeOK
<1>14. ASSUME {"unlink", "callback"} \cap accountOverlap' = {} PROVE FirstLinkUnderWay'
  <2>1. FirstLinkUnderWay
    BY <1>12, <1>14 DEF AccountInv
  <2> QED BY <1>2, <1>9, <1>11, <2>1, FirstLinkStays DEF AccountAt
<1>15. Known(accountCalls[r])' /\ ~AccountAt(r, "unlink", "delete")'
  BY <1>11 DEF Known, AccountAt
<1> QED BY <1>2, <1>9, <1>10, <1>11, <1>12, <1>13, <1>14, <1>15, AccountKept DEF MailsGoOn

-----------------------------------------------------------------------------
(***************************************************************************)
(* Users' accounts: links                                                  *)
(***************************************************************************)
\* A free identity gets an owner: nothing is lost, and the users it could be
\* the first link of are not those without one.
LEMMA LinkWrittenInv ==
  ASSUME AccountInv, NEW r \in Req, NEW i \in Identity, NEW e \in Email,
         UNCHANGED <<users, mails, accountOverlap>>, strayed' \in BOOLEAN,
         owner[i] = "nobody", owner' = [owner EXCEPT ![i] = e], Registered(i.email),
         accountCalls' \in [Req -> AccountCall],
         \A d \in Req \ {r} : accountCalls'[d] = accountCalls[d],
         accountCalls[r].op = "callback", accountCalls[r].id = i,
         \/ accountCalls[r].at = "link" /\ e = i.email
         \/ accountCalls[r].at = "add",
         \/ accountCalls'[r].op = "idle"
         \/ accountCalls'[r].op = "callback" /\ accountCalls'[r].at = "check" /\ accountCalls'[r].id = i
  PROVE  AccountInv'
<1>1. AccountTypeOK
  BY DEF AccountInv
<1>2. /\ owner' \in [Identity -> Email \cup {"nobody"}] /\ owner'[i] = e
      /\ \A j \in Identity \ {i} : owner'[j] = owner[j]
  BY <1>1 DEF AccountTypeOK
<1>3. AccountTypeOK'
  BY <1>1, <1>2 DEF AccountTypeOK
<1>4. \A f \in Email : Bare(f)' => Bare(f) /\ f # e
  <2> SUFFICES ASSUME NEW f \in Email, Bare(f)' PROVE Bare(f) /\ f # e
    OBVIOUS
  <2>1. \A j \in Identity : owner'[j] # f
    BY DEF Bare, Links
  <2>2. \A j \in Identity : owner[j] # f
    BY <1>2, <2>1, AccountAssumption
  <2> QED BY <1>2, <2>1, <2>2 DEF Bare, LiveUser, Links
<1>5. ASSUME {"unlink", "callback"} \cap accountOverlap' = {} PROVE FirstLinkUnderWay'
  <2>1. FirstLinkUnderWay
    BY <1>5 DEF AccountInv
  <2>2. ASSUME NEW f \in Email, Bare(f)'
        PROVE  Bare(f) /\ i.email # f
    <3>1. Bare(f) /\ f # e
      BY <1>4, <2>2
    <3>2. accountCalls[r].at = "add" => i.email # f
      BY <2>1, <3>1 DEF FirstLinkUnderWay
    <3> QED BY <3>1, <3>2
  <2> QED BY <1>2, <2>1, <2>2, FirstLinkKept DEF AccountAt
<1>6. /\ "use" \notin accountOverlap' => UsedAtMostOnce'
      /\ "ask" \notin accountOverlap' => OneOpen'
  <2>1. \A d \in Req : accountCalls'[d] = accountCalls[d] \/ accountCalls'[d].op # "use"
    OBVIOUS
  <2> QED BY <2>1, MailsStay
<1>7. Known(accountCalls[r])' /\ ~AccountAt(r, "unlink", "delete")'
  BY DEF Known, AccountAt, Registered
<1>8. \A j \in Identity : /\ owner[j] # "nobody" => owner'[j] = owner[j]
                          /\ owner'[j] # "nobody" => owner'[j] = owner[j] \/ Registered(j.email)'
  <2>1. users'[i.email] # NoUser
    BY DEF Registered
  <2> QED BY <1>2, <2>1 DEF Registered
<1>9. \A f \in Email : Registered(f) => Registered(f)'
  BY DEF Registered
<1> QED BY <1>3, <1>5, <1>6, <1>7, <1>8, <1>9, AccountKept

\* A callback that cannot link leaves no account without a way in.
LEMMA CallbackLinkInv ==
  ASSUME AccountInv, NEW r \in Req, CallbackLink(r)
  PROVE  AccountInv'
<1> DEFINE c == accountCalls[r]
<1>1. AccountTypeOK /\ CallsKnown
  BY DEF AccountInv
<1>2. /\ UNCHANGED <<users, mails, accountOverlap, strayed>>
      /\ accountCalls[r].op = "callback" /\ accountCalls[r].at = "link"
  BY DEF CallbackLink, AccountAt
<1>3. PICK i \in Identity : i = accountCalls[r].id
  BY <1>1, <1>2, AccountCallFields
<1>4. PICK e \in Email : e = i.email
  BY <1>1, <1>2, <1>3, AccountCallFields
<1>5. Registered(e)
  BY <1>1, <1>2, <1>3, <1>4 DEF CallsKnown, Known
<1>6. strayed' \in BOOLEAN
  BY <1>1, <1>2 DEF AccountTypeOK
<1>7. CASE CanLink(i, e)
  <2>1. /\ owner' = [owner EXCEPT ![i] = e] /\ owner[i] = "nobody"
        /\ AccountLeave(r) \/ AccountTo(r, "check")
    BY <1>3, <1>4, <1>7 DEF CallbackLink, CanLink
  <2>2. /\ accountCalls' \in [Req -> AccountCall]
        /\ \A d \in Req \ {r} : accountCalls'[d] = accountCalls[d]
        /\ \/ accountCalls'[r].op = "idle"
           \/ /\ accountCalls'[r].op = "callback" /\ accountCalls'[r].at = "check"
              /\ accountCalls'[r].id = i
    <3>1. CASE AccountLeave(r)
      BY <1>1, <3>1, AccountLeaves
    <3>2. CASE AccountTo(r, "check")
      BY <1>1, <1>2, <1>3, <3>2, AccountMoves
    <3> QED BY <2>1, <3>1, <3>2
  <2> QED BY <1>2, <1>3, <1>4, <1>5, <1>6, <2>1, <2>2, LinkWrittenInv
<1>8. CASE ~CanLink(i, e)
  <2>1. UNCHANGED owner /\ AccountLeave(r)
    BY <1>3, <1>4, <1>8 DEF CallbackLink
  <2>2. /\ accountCalls' \in [Req -> AccountCall] /\ accountCalls'[r].op = "idle"
        /\ \A d \in Req \ {r} : accountCalls'[d] = accountCalls[d]
    BY <1>1, <2>1, AccountLeaves
  <2>3. AccountTypeOK'
    BY <1>1, <1>2, <2>1, <2>2 DEF AccountTypeOK
  <2>4. \A f \in Email : /\ Registered(f) => Registered(f)'
                         /\ Bare(f)' => Bare(f)
    BY <1>2, <2>1 DEF Registered, Bare, LiveUser, Links
  <2>5. ASSUME {"unlink", "callback"} \cap accountOverlap' = {} PROVE FirstLinkUnderWay'
    <3>1. FirstLinkUnderWay
      BY <1>2, <2>5 DEF AccountInv
    <3>2. ~Bare(e)
      <4>1. Bare(e) => owner[i] = "nobody" /\ Links(e) = {}
        BY <1>4, <3>1 DEF FirstLinkUnderWay, Bare
      <4> QED BY <1>8, <4>1 DEF CanLink, LinkAt
    <3>3. \A f \in Email : Bare(f)' => ~(AccountAt(r, "callback", "link") /\ accountCalls[r].id.email = f)
      BY <1>3, <1>4, <2>4, <3>2
    <3> QED BY <1>2, <2>1, <2>2, <2>4, <3>1, <3>3, FirstLinkKept
  <2>6. /\ "use" \notin accountOverlap' => UsedAtMostOnce'
        /\ "ask" \notin accountOverlap' => OneOpen'
    BY <1>2, <2>2, MailsStay
  <2>7. Known(accountCalls[r])' /\ ~AccountAt(r, "unlink", "delete")'
    BY <2>2 DEF Known, AccountAt
  <2> QED BY <1>2, <2>1, <2>2, <2>3, <2>4, <2>5, <2>6, <2>7, AccountKept
<1> QED BY <1>7, <1>8

LEMMA LinkAddInv ==
  ASSUME AccountInv, NEW r \in Req, LinkAdd(r)
  PROVE  AccountInv'
<1>1. AccountTypeOK /\ CallsKnown
  BY DEF AccountInv
<1>2. /\ UNCHANGED <<users, mails, accountOverlap>> /\ AccountLeave(r)
      /\ accountCalls[r].op = "callback" /\ accountCalls[r].at = "add"
  BY DEF LinkAdd, LinkAnswer, AccountAt
<1>3. /\ accountCalls[r].id \in Identity /\ accountCalls[r].by \in Email \cup {"nobody"}
      /\ accountCalls[r].free \in BOOLEAN
  BY <1>1, <1>2, AccountCallFields
<1>4. PICK i \in Identity, e \in Email \cup {"nobody"} :
        i = accountCalls[r].id /\ e = accountCalls[r].by
  BY <1>3
<1>5. Registered(i.email)
  BY <1>1, <1>2, <1>4 DEF CallsKnown, Known
<1>6. strayed' \in BOOLEAN
  BY <1>1, <1>3 DEF AccountTypeOK, LinkAdd, LinkAnswer
<1>7. /\ accountCalls' \in [Req -> AccountCall] /\ accountCalls'[r].op = "idle"
      /\ \A d \in Req \ {r} : accountCalls'[d] = accountCalls[d]
  BY <1>1, <1>2, AccountLeaves
<1>8. CASE UNCHANGED owner
  <2>1. Known(accountCalls[r])' /\ ~AccountAt(r, "unlink", "delete")' /\ ~AccountAt(r, "callback", "link")
    BY <1>2, <1>7 DEF Known, AccountAt
  <2> QED BY <1>2, <1>6, <1>7, <1>8, <2>1, AccountCallInv
<1>9. CASE ~UNCHANGED owner
  <2>1. owner' = [owner EXCEPT ![i] = e] /\ owner[i] = "nobody"
    BY <1>4, <1>9 DEF LinkAdd, CanLink
  <2>2. e # "nobody"
    BY <1>1, <1>9, <2>1 DEF AccountTypeOK
  <2> QED BY <1>2, <1>4, <1>5, <1>6, <1>7, <2>1, <2>2, LinkWrittenInv
<1> QED BY <1>8, <1>9

\* Requests when a link is deleted: those to delete the same one lose it.
LEMMA UnlinkCalls ==
  ASSUME AccountTypeOK, NEW r \in Req, UnlinkDelete(r)
  PROVE  /\ accountCalls' \in [Req -> AccountCall] /\ accountCalls'[r] = Idle
         /\ \A d \in Req \ {r} :
              IF /\ accountCalls[d].op = "unlink" /\ accountCalls[d].user = accountCalls[r].user
                 /\ accountCalls[d].id = accountCalls[r].id
              THEN accountCalls'[d].op = "unlink" /\ ~accountCalls'[d].there
              ELSE accountCalls'[d] = accountCalls[d]
<1> DEFINE gone(d) == [accountCalls[d] EXCEPT !.there = FALSE]
<1>1. ASSUME NEW d \in Req, accountCalls[d].op = "unlink"
      PROVE  gone(d) \in AccountCall /\ gone(d).op = "unlink" /\ ~gone(d).there
  <2>1. /\ gone(d) \in [op : {"unlink"}, at : {"count", "delete"}, user : Email, id : Identity,
                        there : BOOLEAN]
        /\ gone(d).op = "unlink" /\ ~gone(d).there
    BY <1>1, AccountCallFields
  <2> HIDE DEF gone
  <2> QED BY <2>1 DEF AccountCall
<1>2. /\ accountCalls' = [d \in Req |-> accountCalls'[d]]
      /\ \A d \in Req : accountCalls'[d] =
           IF d = r THEN Idle
           ELSE IF /\ accountCalls[d].op = "unlink" /\ accountCalls[d].user = accountCalls[r].user
                   /\ accountCalls[d].id = accountCalls[r].id
                THEN gone(d) ELSE accountCalls[d]
  BY DEF UnlinkDelete
<1> HIDE DEF gone
<1>3. \A d \in Req : accountCalls'[d] \in AccountCall
  BY <1>1, <1>2, AccountIdle DEF AccountTypeOK
<1> QED BY <1>1, <1>2, <1>3

\* Whose link goes has another one, unless that is being deleted too: then
\* the two requests overlap.
LEMMA UnlinkDeleteInv ==
  ASSUME AccountInv, NEW r \in Req, UnlinkDelete(r)
  PROVE  AccountInv'
<1> DEFINE c == accountCalls[r]
<1>1. AccountTypeOK /\ AccountRows /\ CallsKnown
  BY DEF AccountInv
<1>2. /\ UNCHANGED <<users, mails, strayed>>
      /\ accountCalls[r].op = "unlink" /\ accountCalls[r].at = "delete"
  BY DEF UnlinkDelete, AccountAt
<1>3. c.user \in Email /\ c.id \in Identity /\ c.user # "nobody"
  BY <1>1, <1>2, AccountCallFields, AccountAssumption
<1>4. c.there => owner[c.id] = c.user
  BY <1>1, <1>2 DEF CallsKnown, Known
<1>5. /\ accountOverlap \subseteq accountOverlap' /\ accountOverlap' \subseteq accountOverlap \cup {"unlink"}
      /\ accountOverlap' \subseteq {"unlink", "callback", "use", "ask"}
  BY <1>1 DEF UnlinkDelete, AccountTypeOK
<1>6. /\ accountCalls' \in [Req -> AccountCall] /\ accountCalls'[r] = Idle
      /\ \A d \in Req \ {r} :
           IF accountCalls[d].op = "unlink" /\ accountCalls[d].user = c.user /\ accountCalls[d].id = c.id
           THEN accountCalls'[d].op = "unlink" /\ ~accountCalls'[d].there
           ELSE accountCalls'[d] = accountCalls[d]
  BY <1>1, UnlinkCalls
<1>7. /\ owner' \in [Identity -> Email \cup {"nobody"}]
      /\ \A i \in Identity \ {c.id} : owner'[i] = owner[i]
      /\ owner'[c.id] = IF c.there THEN "nobody" ELSE owner[c.id]
  BY <1>1, <1>3 DEF UnlinkDelete, AccountTypeOK
<1>8. AccountTypeOK'
  BY <1>1, <1>2, <1>5, <1>6, <1>7 DEF AccountTypeOK
<1>9. AccountRows'
  BY <1>1, <1>2, <1>7 DEF AccountRows, Registered
<1>10. CallsKnown'
  <2> SUFFICES ASSUME NEW d \in Req PROVE Known(accountCalls[d])'
    BY DEF CallsKnown
  <2>1. CASE accountCalls'[d] = accountCalls[d] /\ d # r
    <3>1. Known(accountCalls[d])
      BY <1>1 DEF CallsKnown
    <3>2. ASSUME accountCalls[d].op = "unlink", accountCalls[d].there
          PROVE  owner'[accountCalls[d].id] = accountCalls[d].user
      <4>1. accountCalls[d].id \in Identity /\ owner[accountCalls[d].id] = accountCalls[d].user
        BY <1>1, <3>1, <3>2, AccountCallFields DEF Known
      <4>2. accountCalls[d].id = c.id => ~c.there
        BY <1>4, <1>6, <2>1, <3>2, <4>1
      <4> QED BY <1>7, <4>1, <4>2
    <3> QED BY <1>2, <2>1, <3>1, <3>2 DEF Known, Registered
  <2>2. CASE accountCalls'[d].op = "unlink" /\ ~accountCalls'[d].there
    BY <2>2 DEF Known
  <2>3. CASE d = r
    BY <1>6, <2>3, AccountIdle DEF Known
  <2> QED BY <1>6, <2>1, <2>2, <2>3
<1>11. ASSUME "unlink" \notin accountOverlap'
       PROVE  UnlinksCounted' /\ \A f \in Email : Bare(f)' => Bare(f)
  <2>1. UnlinksCounted
    BY <1>5, <1>11 DEF AccountInv
  <2>2. ASSUME NEW d \in Req, AccountAt(d, "unlink", "delete")', accountCalls'[d].there
        PROVE  Links(accountCalls[d].user)' # {accountCalls'[d].id}
    <3>1. d # r
      BY <1>6, <2>2, AccountIdle DEF AccountAt
    <3>2. accountCalls'[d] = accountCalls[d] /\ AccountAt(d, "unlink", "delete") /\ accountCalls[d].there
      BY <1>6, <2>2, <3>1 DEF AccountAt
    <3>3. c.there => accountCalls[d].user # c.user
      <4> SUFFICES ASSUME c.there, accountCalls[d].user = c.user PROVE FALSE
        OBVIOUS
      <4>1. accountCalls[d].id # c.id
        BY <1>6, <2>2, <3>1, <3>2 DEF AccountAt
      <4>2. "unlink" \in accountOverlap'
        BY <3>1, <3>2, <4>1 DEF UnlinkDelete, AccountAt
      <4> QED BY <1>11, <4>2
    <3>4. accountCalls[d].user \in Email /\ accountCalls[d].user # "nobody"
      BY <1>1, <3>2, AccountCallFields, AccountAssumption DEF AccountAt
    <3>5. \A i \in Identity : owner'[i] = accountCalls[d].user <=> owner[i] = accountCalls[d].user
      BY <1>4, <1>7, <3>3, <3>4
    <3>6. Links(accountCalls[d].user) # {accountCalls[d].id}
      BY <2>1, <3>2 DEF UnlinksCounted
    <3> QED BY <3>2, <3>5, <3>6 DEF Links
  <2>3. ASSUME NEW f \in Email, Bare(f)' PROVE Bare(f)
    <3>1. \A i \in Identity : owner'[i] # f
      BY <2>3 DEF Bare, Links
    <3>2. c.there /\ f = c.user => FALSE
      <4> SUFFICES ASSUME c.there, f = c.user PROVE FALSE
        OBVIOUS
      <4>1. Links(c.user) # {c.id} /\ c.id \in Links(c.user)
        BY <1>2, <1>3, <1>4, <2>1 DEF UnlinksCounted, AccountAt, Links
      <4>2. PICK i \in Links(c.user) : i # c.id
        BY <4>1
      <4> QED BY <1>7, <3>1, <4>2 DEF Links
    <3>3. \A i \in Identity : owner[i] # f
      BY <1>4, <1>7, <3>1, <3>2
    <3> QED BY <1>2, <2>3, <3>3 DEF Bare, LiveUser, Links
  <2> QED BY <2>2, <2>3 DEF UnlinksCounted
<1>12. ASSUME {"unlink", "callback"} \cap accountOverlap' = {} PROVE FirstLinkUnderWay'
  <2>1. FirstLinkUnderWay
    BY <1>5, <1>12 DEF AccountInv
  <2>2. \A i \in Identity : owner[i] = "nobody" => owner'[i] = "nobody"
    BY <1>7
  <2>3. \A d \in Req : \/ accountCalls'[d] = accountCalls[d]
                       \/ /\ ~AccountAt(d, "callback", "link")
                          /\ accountCalls'[d].op # "callback"
    BY <1>2, <1>6, AccountIdle DEF AccountAt
  <2> QED BY <1>11, <1>12, <2>1, <2>2, <2>3, FirstLinkKept
<1>13. /\ "use" \notin accountOverlap' => UsedAtMostOnce'
       /\ "ask" \notin accountOverlap' => OneOpen'
  <2>1. \A d \in Req : accountCalls'[d] = accountCalls[d] \/ accountCalls'[d].op # "use"
    BY <1>6, AccountIdle
  <2> QED BY <1>2, <1>5, <2>1, MailsStay
<1> QED BY <1>8, <1>9, <1>10, <1>11, <1>12, <1>13 DEF AccountInv

-----------------------------------------------------------------------------
(***************************************************************************)
(* Users' accounts: the theorems                                           *)
(***************************************************************************)
LEMMA AccountInitInv == AccountInit => AccountInv
<1> SUFFICES ASSUME AccountInit PROVE AccountInv
  OBVIOUS
<1>1. /\ \A e \in Email : users[e] = NoUser
      /\ \A i \in Identity : owner[i] = "nobody"
      /\ \A t \in Mail : mails[t] = NoMail
      /\ \A r \in Req : accountCalls[r] = Idle
      /\ accountOverlap = {} /\ strayed = FALSE
  BY DEF AccountInit
<1>2. AccountTypeOK
  BY AccountIdle DEF AccountInit, AccountTypeOK
<1>3. AccountRows /\ CallsKnown /\ UnlinksCounted
  BY <1>1, AccountIdle DEF AccountRows, CallsKnown, Known, UnlinksCounted, AccountAt
<1>4. FirstLinkUnderWay
  <2>1. \A e \in Email : ~LiveUser(e)
    BY <1>1 DEF LiveUser, NoUser
  <2> QED BY <2>1 DEF FirstLinkUnderWay, Bare
<1>5. UsedAtMostOnce /\ OneOpen
  BY <1>1, AccountIdle DEF UsedAtMostOnce, OneOpen, Usable
<1> QED BY <1>2, <1>3, <1>4, <1>5 DEF AccountInv

LEMMA AccountStepInv == AccountInv /\ [AccountNext]_accountVars => AccountInv'
<1> SUFFICES ASSUME AccountInv, [AccountNext]_accountVars PROVE AccountInv'
  OBVIOUS
<1>1. ASSUME NEW r \in Req, AccountHandle(r) PROVE AccountInv'
  <2>1. CASE RegisterWrite(r) \/ PasswordWrite(r)
    BY <2>1, RegisterWriteInv, UserWriteInv
  <2>2. CASE CallbackUser(r) \/ LinkCheck(r) \/ UnlinkCount(r)
    BY <2>2, AccountCheckInv
  <2>3. CASE CallbackCreate(r) \/ CallbackVerify(r) \/ CallbackLink(r) \/ LinkAdd(r)
    BY <2>3, CallbackCreateInv, CallbackVerifyInv, CallbackLinkInv, LinkAddInv
  <2>4. CASE UnlinkDelete(r) \/ AskWrite(r) \/ UseWrite(r) \/ AccountAbort(r)
    BY <2>4, UnlinkDeleteInv, AskWriteInv, UseWriteInv, AccountAbortInv
  <2> QED BY <1>1, <2>1, <2>2, <2>3, <2>4 DEF AccountHandle
<1>2. CASE \E e \in Email : DeleteAccount(e)
  BY <1>2, UserWriteInv
<1>3. CASE UNCHANGED accountVars
  BY <1>3 DEF accountVars, AccountInv, AccountTypeOK, AccountRows, Registered, CallsKnown, Known,
              UnlinksCounted, AccountAt, Links, FirstLinkUnderWay, Bare, LiveUser, UsedAtMostOnce,
              OneOpen, Usable
<1> QED BY <1>1, <1>2, <1>3, AccountRequestInv, MailExpiresInv DEF AccountNext

\* The invariant of UserAccount is inductive: what has a link, a token or a
\* request under way finds its row, an account without a way in is one whose
\* first link nothing keeps from being made, and a token about to be used has
\* not been, as long as no two requests overlapped there.
THEOREM AccountInductive == AccountSpec => []AccountInv
<1> QED BY AccountInitInv, AccountStepInv, PTL DEF AccountSpec

\* Whoever has an account can get in, for every number of users, providers,
\* tokens and requests (unlinkAccount counts the links before it deletes one,
\* the callback of a provider makes the user before the link).
THEOREM AlwaysAWayIn == AccountSpec => []WayInRemains
<1>1. AccountInv => WayInRemains
  BY DEF AccountInv, WayInRemains, FirstLinkUnderWay, Bare
<1> QED BY <1>1, AccountInductive, PTL

\* A mailed token takes effect at most once and only the last one sent is
\* good, but for overlapping requests (resetPassword and verifyEmail look the
\* token up before the transaction that marks it used).
THEOREM TokensCountOnce == AccountSpec => []MailedOnce
<1>1. AccountInv => MailedOnce
  BY DEF AccountInv, MailedOnce, UsedAtMostOnce, OneOpen
<1> QED BY <1>1, AccountInductive, PTL
=============================================================================
