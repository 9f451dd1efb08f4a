------------------------------ MODULE Project -------------------------------
(***************************************************************************)
(* One project (apps/api project.service.ts): its deletion with thirty     *)
(* days to restore it, the job that then removes it for good (apps/jobs    *)
(* project-cleanup.ts), and its environments, of which one may be the      *)
(* default.  A request reads, decides and writes.                          *)
(***************************************************************************)
EXTENDS Requests

CONSTANTS Environment,  \* ids of environments: bounds the rows at any time
          LastOrder,    \* bound: the highest sortOrder
          MaxFailures   \* bound: deletions of the job that fail

ASSUME ProjectBounds == LastOrder \in Nat /\ MaxFailures \in Nat

VARIABLES project,        \* "live", for how long it is deleted, or "gone"
          found,          \* the cleanup job has the project in its batch
          failures,       \* deletions of the job that failed
          environments,   \* environments[e]: the row, or NoEnvironment
          projectCalls,   \* projectCalls[r]: the request in slot r
          projectOverlap  \* history: the kinds of requests that overlapped

projectVars == <<project, found, failures, environments, projectCalls, projectOverlap>>

-----------------------------------------------------------------------------
NoEnvironment == [order |-> -1]
EnvironmentRow == [order : 0 .. LastOrder, isDefault : BOOLEAN]
\* A list of environments, each mapped to its place.
Places == {f \in UNION {[some -> 0 .. LastOrder] : some \in SUBSET Environment} :
             \A n \in 0 .. Cardinality(DOMAIN f) - 1 : \E e \in DOMAIN f : f[e] = n}
ProjectCall == {Idle}
  \cup [op : {"delete", "restore"}, at : {"write"}]
  \cup [op : {"create"}, at : {"order"}, isDefault : BOOLEAN]
  \cup [op : {"create"}, at : {"write"}, isDefault : BOOLEAN, order : 0 .. LastOrder]
  \* `was`: isDefault of the row when it was read
  \cup [op : {"update"}, at : {"write"}, env : Environment, isDefault : BOOLEAN, was : BOOLEAN]
  \cup [op : {"drop"}, at : {"write"}, env : Environment, was : BOOLEAN]
  \cup [op : {"reorder"}, at : {"write"}, places : Places]

\* One type invariant for the component.
ProjectTypeOK == /\ project \in {"live", "fresh", "late", "over", "gone"}
                 /\ found \in BOOLEAN /\ failures \in 0 .. MaxFailures
                 /\ environments \in [Environment -> EnvironmentRow \cup {NoEnvironment}]
                 /\ projectCalls \in [Req -> ProjectCall]
                 /\ projectOverlap \subseteq {"cleanup", "default"}

ProjectInit == /\ project = "live" /\ found = FALSE /\ failures = 0
               /\ environments = [e \in Environment |-> NoEnvironment]
               /\ projectCalls = [r \in Req |-> Idle]
               /\ projectOverlap = {}

Present == {e \in Environment : environments[e] # NoEnvironment}
Defaults == {e \in Present : environments[e].isDefault}

ProjectAt(r, op, at) == projectCalls[r].op = op /\ projectCalls[r].at = at
ProjectLeave(r) == projectCalls' = End(projectCalls, r)
ProjectStart(r, call) == /\ projectCalls[r] = Idle
                         /\ projectCalls' = [projectCalls EXCEPT ![r] = call]
                         /\ UNCHANGED <<project, found, failures, environments, projectOverlap>>
Lifecycle == <<project, found, failures>>

-----------------------------------------------------------------------------
(***************************************************************************)
(* Deletion, restoring and the cleanup                                     *)
(***************************************************************************)
DeleteProject(r) == project = "live" /\ ProjectStart(r, [op |-> "delete", at |-> "write"])

\* On the thirty-first day both the restoring and the job are allowed.
RestoreProject(r) ==
  project \in {"fresh", "late"} /\ ProjectStart(r, [op |-> "restore", at |-> "write"])

\* A transaction, which fails when the row is gone.
LifecycleWrite(r, op, phase) ==
  /\ ProjectAt(r, op, "write")
  /\ project' = IF project = "gone" THEN "gone" ELSE phase
  /\ projectOverlap' = projectOverlap \cup {"cleanup" : b \in {b \in {found} : b}}
  /\ ProjectLeave(r)
  /\ UNCHANGED <<found, failures, environments>>
DeleteProjectWrite(r) == LifecycleWrite(r, "delete", "fresh")
RestoreProjectWrite(r) == LifecycleWrite(r, "restore", "live")

DaysPass == /\ \/ project = "fresh" /\ project' = "late"
               \/ project = "late" /\ project' = "over"
            /\ UNCHANGED <<found, failures, environments, projectCalls, projectOverlap>>

\* Mutant: every deleted project is due.
CleanupFindAll == /\ project \in {"live", "fresh", "late", "over"} /\ ~found
                  /\ found' = TRUE
                  /\ UNCHANGED <<project, failures, environments, projectCalls, projectOverlap>>

\* Mutant: only what was deleted that many days ago, and not longer.
CleanupFindSameDay == /\ project = "late" /\ ~found
                      /\ found' = TRUE
                      /\ UNCHANGED <<project, failures, environments, projectCalls, projectOverlap>>

\* The job reads a batch of projects deleted before the cutoff.
CleanupFind == /\ project \in {"late", "over"} /\ ~found
               /\ found' = TRUE
               /\ UNCHANGED <<project, failures, environments, projectCalls, projectOverlap>>

\* It deletes by id, and everything of the project with it; an error is
\* logged.
CleanupDelete == /\ found
                 /\ found' = FALSE
                 /\ \/ /\ project' = "gone"
                       /\ environments' = [e \in Environment |-> NoEnvironment]
                       /\ UNCHANGED failures
                    \/ /\ failures < MaxFailures
                       /\ failures' = failures + 1
                       /\ UNCHANGED <<project, environments>>
                 /\ UNCHANGED <<projectCalls, projectOverlap>>

-----------------------------------------------------------------------------
(***************************************************************************)
(* Environments                                                            *)
(***************************************************************************)
\* Requests that have read what they need to set or promote a default.
Defaulting(r) == {d \in Req \ {r} :
  \/ projectCalls[d].op = "create" /\ projectCalls[d].isDefault
  \/ projectCalls[d].op = "update" /\ projectCalls[d].isDefault
  \/ projectCalls[d].op = "drop" /\ projectCalls[d].was}

SetEnvironments(r, rows) ==
  /\ environments' = rows
  /\ projectOverlap' = projectOverlap \cup {"default" : d \in Defaulting(r)}

WithoutDefault == [e \in Environment |-> IF e \in Defaults
                                         THEN [environments[e] EXCEPT !.isDefault = FALSE]
                                         ELSE environments[e]]

\* createEnvironment: three statements, in no transaction.  The first takes
\* the mark from the default.
CreateStart(r) ==
  /\ project = "live" /\ projectCalls[r] = Idle
  /\ \E new \in BOOLEAN :
       /\ projectCalls' = [projectCalls EXCEPT ![r] =
                             [op |-> "create", at |-> "order", isDefault |-> new]]
       /\ IF new THEN SetEnvironments(r, WithoutDefault)
                 ELSE UNCHANGED <<environments, projectOverlap>>
  /\ UNCHANGED Lifecycle

CreateOrder(r) ==
  /\ ProjectAt(r, "create", "order")
  /\ \E n \in 0 .. LastOrder :
       /\ \A e \in Present : environments[e].order < n
       /\ n = 0 \/ \E e \in Present : environments[e].order = n - 1
       /\ projectCalls' = [projectCalls EXCEPT ![r] =
            [op |-> "create", at |-> "write", isDefault |-> projectCalls[r].isDefault, order |-> n]]
  /\ UNCHANGED <<project, found, failures, environments, projectOverlap>>

CreateWrite(r) ==
  /\ ProjectAt(r, "create", "write") /\ project # "gone"
  /\ \E e \in Environment \ Present :
       SetEnvironments(r, [environments EXCEPT ![e] =
         [order |-> projectCalls[r].order, isDefault |-> projectCalls[r].isDefault]])
  /\ ProjectLeave(r)
  /\ UNCHANGED Lifecycle

UpdateStart(r) == project = "live" /\ \E e \in Present, new \in BOOLEAN :
  ProjectStart(r, [op |-> "update", at |-> "write", env |-> e, isDefault |-> new,
                   was |-> environments[e].isDefault])

\* Mutant: the others keep their mark.
UpdateEnvironmentOnly(r) ==
  /\ ProjectAt(r, "update", "write")
  /\ LET c == projectCalls[r]
     IN IF c.env \in Present
        THEN SetEnvironments(r, [environments EXCEPT ![c.env].isDefault = c.isDefault])
        ELSE UNCHANGED <<environments, projectOverlap>>
  /\ ProjectLeave(r)
  /\ UNCHANGED Lifecycle

\* The transaction relies on the mark it read before; it fails when the row
\* is gone.
UpdateEnvironment(r) ==
  /\ ProjectAt(r, "update", "write")
  /\ LET c == projectCalls[r]
         rows == IF c.isDefault /\ ~c.was THEN WithoutDefault ELSE environments
     IN IF c.env \in Present
        THEN SetEnvironments(r, [rows EXCEPT ![c.env].isDefault = c.isDefault])
        ELSE UNCHANGED <<environments, projectOverlap>>
  /\ ProjectLeave(r)
  /\ UNCHANGED Lifecycle

DropStart(r) == project = "live" /\ \E e \in Present :
  ProjectStart(r, [op |-> "drop", at |-> "write", env |-> e, was |-> environments[e].isDefault])

\* The transaction promotes one of the first when the default goes.
DropEnvironment(r) ==
  /\ ProjectAt(r, "drop", "write")
  /\ LET c == projectCalls[r]
         rest == Present \ {c.env}
         rows == [environments EXCEPT ![c.env] = NoEnvironment]
     IN IF c.env \notin Present
        THEN UNCHANGED <<environments, projectOverlap>>
        ELSE IF ~c.was \/ rest = {}
        THEN SetEnvironments(r, rows)
        ELSE \E e \in rest :
               /\ \A d \in rest : environments[e].order <= environments[d].order
               /\ SetEnvironments(r, [rows EXCEPT ![e].isDefault = TRUE])
  /\ ProjectLeave(r)
  /\ UNCHANGED Lifecycle

\* reorderEnvironments numbers the ones it is given; the others keep theirs.
ReorderStart(r) == project = "live" /\ \E f \in Places :
  /\ DOMAIN f \subseteq Present
  /\ ProjectStart(r, [op |-> "reorder", at |-> "write", places |-> f])
ReorderBy(r, first) ==
  /\ ProjectAt(r, "reorder", "write")
  /\ LET f == projectCalls[r].places
     IN environments' = IF DOMAIN f \subseteq Present
                        THEN [e \in Environment |-> IF e \in DOMAIN f
                                THEN [environments[e] EXCEPT !.order = first + f[e]]
                                ELSE environments[e]]
                        ELSE environments
  /\ ProjectLeave(r)
  /\ UNCHANGED <<project, found, failures, projectOverlap>>

\* Mutant: numbered from one.
ReorderFromOne(r) == ReorderBy(r, 1)

Reorder(r) == ReorderBy(r, 0)

\* An error or a crash.
ProjectAbort(r) == /\ projectCalls[r] # Idle
                   /\ ProjectLeave(r)
                   /\ UNCHANGED <<project, found, failures, environments, projectOverlap>>

ProjectHandle(r) ==
  \/ DeleteProject(r) \/ DeleteProjectWrite(r) \/ RestoreProject(r) \/ RestoreProjectWrite(r)
  \/ CreateStart(r) \/ CreateOrder(r) \/ CreateWrite(r) \/ UpdateStart(r) \/ UpdateEnvironment(r)
  \/ DropStart(r) \/ DropEnvironment(r) \/ ReorderStart(r) \/ Reorder(r) \/ ProjectAbort(r)

ProjectNext == (\E r \in Req : ProjectHandle(r)) \/ DaysPass \/ CleanupFind \/ CleanupDelete

\* The job is scheduled every day, and works through its batch.
ProjectFairness == WF_projectVars(CleanupFind) /\ WF_projectVars(CleanupDelete)
                   /\ WF_projectVars(DaysPass)

ProjectSpec == ProjectInit /\ [][ProjectNext]_projectVars /\ ProjectFairness

-----------------------------------------------------------------------------
\* A project that is live is not removed by the job, although the job
\* deletes by the id it found: unless the project was deleted or restored
\* between the two.
LiveProjectStays ==
  [][project = "live" /\ "cleanup" \notin projectOverlap => project' # "gone"]_projectVars

\* A deleted project that nobody restores is removed in the end, also when
\* deletions fail.
DeletedProjectGoes == project = "over" ~> project \in {"gone", "live"}

\* One environment at most is the default, through creations, changes and
\* promotions: unless a request was under way that had read the default
\* before another one wrote it.
OneDefault == "default" \notin projectOverlap => Cardinality(Defaults) <= 1

-----------------------------------------------------------------------------
\* Why: what the job has in its batch stays deleted, as a restoring would have
\* been an overlap; and whoever read which environment is the default before
\* setting or promoting one finds it as it was, for the same reason.
BatchDeleted == found => project \in {"late", "over"}
DefaultsRead == \A r \in Req :
  LET c == projectCalls[r]
  IN /\ c.op = "create" /\ c.isDefault => Defaults = {}
     /\ c.op = "update" /\ c.isDefault /\ c.env \in Present
          => environments[c.env].isDefault = c.was
     /\ c.op = "drop" /\ c.was /\ c.env \in Present => environments[c.env].isDefault
AtMostOneDefault == \A d, e \in Defaults : d = e

ProjectInv == /\ ProjectTypeOK
              /\ "cleanup" \notin projectOverlap => BatchDeleted
              /\ "default" \notin projectOverlap => DefaultsRead /\ AtMostOneDefault
=============================================================================
