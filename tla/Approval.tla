------------------------------ MODULE Approval ------------------------------
(***************************************************************************)
(* The approval workflow of the API (api/kube-jit/internal/handlers): a    *)
(* request is submitted, the groups that own its namespaces decide on it,  *)
(* and the last approval creates the JitRequest the operator works on.     *)
(*                                                                         *)
(* Every HTTP request runs in a goroutine of its own and no handler opens  *)
(* a transaction: each statement sent to the database and each call to the *)
(* cluster is a step, and the handlers of several users interleave between *)
(* them.  A handler works on the rows it read, as the code does.           *)
(***************************************************************************)
EXTENDS Integers

CONSTANTS
  Requests,      \* the ids of table request_data
  Namespaces,
  Approvers,     \* the users that may approve
  Admins,        \* those whose session says isAdmin or isPlatformApprover
  Groups,
  GroupsOf,      \* GroupsOf[a]: the approverGroups of a's session
  OwnerOf,       \* OwnerOf[n]: the group of n in the JitGroupCache
  MaxDecisions,  \* bound: approve/reject calls
  MaxOverlaps,   \* bound: those that come while another one is served
  MaxEarly,      \* bound: those that come while the rows of a request are inserted
  MaxFailures    \* bound: statements and calls that fail, handlers that die

ASSUME ConstantsAssumption ==
  /\ Admins \subseteq Approvers
  /\ GroupsOf \in [Approvers -> SUBSET Groups]
  /\ OwnerOf \in [Namespaces -> Groups]
  /\ {MaxDecisions, MaxOverlaps, MaxEarly, MaxFailures} \subseteq Nat

VARIABLES
  requests,   \* table request_data
  rows,       \* table request_namespaces
  inserting,  \* inserting[r]: the namespaces SubmitRequest has still to insert
  expired,    \* the requests whose end date has passed
  shown,      \* shown[a]: the requests on a's pending tab, as of some refresh
  job,        \* job[a]: a's approve/reject call in progress
  object,     \* object[r]: the JitRequest jit-<r>
  calls,      \* the requests whose status callback is on its way
  made,       \* history: made[r]: the namespaces the JitRequest of r was created for
  consents,   \* history: <<r, a>> when a approved r
  spent       \* how much of each bound was used

vars == <<requests, rows, inserting, expired, shown, job, object, calls, made, consents, spent>>
-----------------------------------------------------------------------------
\* The status of a call is whatever text it carries; "Other" is any but these two.
Decisions == {"Approved", "Rejected", "Other"}

\* RequestData; status "None" where there is no row.
\* ApproverIDs, ApproverNames and FullyApproved are written and decide nothing.
Statuses == {"None", "Requested", "Approved", "Rejected", "Other", "Pending", "Succeeded"}
RequestData == [status : Statuses, namespaces : SUBSET Namespaces]
NoRow == [status |-> "None", namespaces |-> {}]

\* RequestNamespace; GroupID is OwnerOf[n].  ApproverID and ApproverName are what the
\* body of the call says, whoever sent it, and decide nothing either.
RequestNamespace == [exists : BOOLEAN, approved : BOOLEAN]
NoNamespaceRow == [exists |-> FALSE, approved |-> FALSE]
NoNamespaceRows == [n \in Namespaces |-> NoNamespaceRow]

\* The JitRequest; phase "none": there is none, "new": its status is empty.
Phases == {"none", "new", "Pending", "Succeeded", "Rejected"}
NoObject == [phase |-> "none", namespaces |-> {}]

PCs == {"idle", "next", "fetch", "save", "create", "first", "update"}
Jobs == [pc : PCs, batch : SUBSET Requests, status : Decisions,
         req : SUBSET Requests, rows : [Namespaces -> RequestNamespace],
         left : SUBSET Namespaces]
NoJob == [pc |-> "idle", batch |-> {}, status |-> "Rejected", req |-> {},
          rows |-> NoNamespaceRows, left |-> {}]

Init ==
  /\ requests = [r \in Requests |-> NoRow]
  /\ rows = [r \in Requests |-> NoNamespaceRows]
  /\ inserting = [r \in Requests |-> {}]
  /\ expired = {}
  /\ shown = [a \in Approvers |-> {}]
  /\ job = [a \in Approvers |-> NoJob]
  /\ object = [r \in Requests |-> NoObject]
  /\ calls = {}
  /\ made = [r \in Requests |-> {}]
  /\ consents = {}
  /\ spent = [decisions |-> 0, overlaps |-> 0, early |-> 0, failures |-> 0]

Fails == spent.failures < MaxFailures /\ spent' = [spent EXCEPT !.failures = @ + 1]
-----------------------------------------------------------------------------
(* SubmitRequest *)

\* The request row first: it is visible before any of its namespace rows is there.
SubmitRequest(r, ns) ==
  /\ requests[r].status = "None" /\ r \notin expired
  /\ rows[r] = NoNamespaceRows /\ object[r] = NoObject
  /\ requests' = [requests EXCEPT ![r] = [NoRow EXCEPT !.status = "Requested", !.namespaces = ns]]
  /\ inserting' = [inserting EXCEPT ![r] = ns]
  /\ UNCHANGED <<rows, expired, shown, job, object, calls, made, consents, spent>>

InsertNamespace(r, n) ==
  /\ n \in inserting[r]
  /\ rows' = [rows EXCEPT ![r][n] = [NoNamespaceRow EXCEPT !.exists = TRUE]]
  /\ inserting' = [inserting EXCEPT ![r] = @ \ {n}]
  /\ UNCHANGED <<requests, expired, shown, job, object, calls, made, consents, spent>>

\* An insert fails: the handler answers 500, what it inserted stays.
InsertNamespaceFails(r) ==
  /\ inserting[r] # {}
  /\ Fails
  /\ inserting' = [inserting EXCEPT ![r] = {}]
  /\ UNCHANGED <<requests, rows, expired, shown, job, object, calls, made, consents>>
-----------------------------------------------------------------------------
(* GetPendingApprovals, and the pending tab that shows its answer *)

MayDecide(a, n) == a \in Admins \/ OwnerOf[n] \in GroupsOf[a]

\* An undecided row of one of a's groups; admins see every requested request.
IsPending(a, r) ==
  /\ requests[r].status = "Requested"
  /\ \/ a \in Admins
     \/ \E n \in Namespaces : /\ rows[r][n].exists /\ ~rows[r][n].approved
                              /\ OwnerOf[n] \in GroupsOf[a]

GetPendingApprovals(a) ==
  /\ shown' = [shown EXCEPT ![a] = {r \in Requests : IsPending(a, r)}]
  /\ shown' # shown
  /\ UNCHANGED <<requests, rows, inserting, expired, job, object, calls, made, consents, spent>>
-----------------------------------------------------------------------------
(* ApproveOrRejectRequests *)

At(a, pc) == job[a].pc = pc
Step(a, j) == job' = [job EXCEPT ![a] = j]

\* processApproval returns: the loop goes on with the next request of the call.
Return(a) == Step(a, [job[a] EXCEPT !.pc = "next", !.req = {}, !.rows = NoNamespaceRows,
                                    !.left = {}])

\* The user decides on some of the requests on screen, which may have changed since
\* (somebody else decided) and may be on screen again (an error answer, another tab).
ApproveOrRejectRequests(a, batch, status) ==
  /\ At(a, "idle")
  /\ a \in Admins \/ GroupsOf[a] # {}
  /\ batch # {} /\ batch \subseteq shown[a]
  /\ spent.decisions < MaxDecisions
  /\ LET overlap == IF \A b \in Approvers : At(b, "idle") THEN 0 ELSE 1
         early == IF \A r \in batch : inserting[r] = {} THEN 0 ELSE 1
     IN  /\ spent.overlaps + overlap <= MaxOverlaps /\ spent.early + early <= MaxEarly
         /\ spent' = [spent EXCEPT !.decisions = @ + 1, !.overlaps = @ + overlap, !.early = @ + early]
  /\ Step(a, [NoJob EXCEPT !.pc = "next", !.batch = batch, !.status = status])
  /\ consents' = IF status = "Approved" THEN consents \union {<<r, a>> : r \in batch} ELSE consents
  /\ UNCHANGED <<requests, rows, inserting, expired, shown, object, calls, made>>

NextRequest(a) ==
  /\ At(a, "next")
  /\ IF job[a].batch = {} THEN Step(a, NoJob)
     ELSE \E r \in job[a].batch :
            Step(a, [job[a] EXCEPT !.pc = "fetch", !.req = {r}, !.batch = @ \ {r}])
  /\ UNCHANGED <<requests, rows, inserting, expired, shown, object, calls, made, consents, spent>>

\* The handler dies with the process, or a statement fails and processApproval returns.
HandlerFails(a) ==
  /\ ~At(a, "idle")
  /\ Fails
  /\ Step(a, NoJob) \/ (job[a].pc \in {"fetch", "save", "first", "update"} /\ Return(a))
  /\ UNCHANGED <<requests, rows, inserting, expired, shown, object, calls, made, consents>>
-----------------------------------------------------------------------------
(* processApproval *)

FetchNamespaces(a) ==
  /\ At(a, "fetch")
  /\ \E r \in job[a].req :
       Step(a, [job[a] EXCEPT !.pc = "save", !.rows = rows[r],
                  !.left = {n \in Namespaces : rows[r][n].exists /\ MayDecide(a, n)}])
  /\ UNCHANGED <<requests, rows, inserting, expired, shown, object, calls, made, consents, spent>>

\* Save writes the whole row, from the copy that was read.
Decided(a, n) == [job[a].rows[n] EXCEPT !.approved = CASE job[a].status = "Approved" -> TRUE
                                                       [] job[a].status = "Rejected" -> FALSE
                                                       [] OTHER -> @]

\* Mutant: the loop variable is a copy ("for _, ns := range dbNamespaces").
SaveNamespaceCopy(a, n) ==
  /\ At(a, "save") /\ n \in job[a].left
  /\ \E r \in job[a].req : rows' = [rows EXCEPT ![r][n] = Decided(a, n)]
  /\ Step(a, [job[a] EXCEPT !.left = @ \ {n}])
  /\ UNCHANGED <<requests, inserting, expired, shown, object, calls, made, consents, spent>>

SaveNamespace(a, n) ==
  /\ At(a, "save") /\ n \in job[a].left
  /\ \E r \in job[a].req : rows' = [rows EXCEPT ![r][n] = Decided(a, n)]
  /\ Step(a, [job[a] EXCEPT !.rows[n] = Decided(a, n), !.left = @ \ {n}])
  /\ UNCHANGED <<requests, inserting, expired, shown, object, calls, made, consents, spent>>

Fetched(a) == {n \in Namespaces : job[a].rows[n].exists}
\* Mutant: only the rows this user may decide on count.
AllMineApproved(a) == \A n \in Fetched(a) : MayDecide(a, n) => job[a].rows[n].approved
\* Mutant: one approved row is enough.
SomeApproved(a) == \E n \in Fetched(a) : job[a].rows[n].approved
AllApproved(a) == \A n \in Fetched(a) : job[a].rows[n].approved
FinalStatus(a) == IF job[a].status = "Approved" /\ ~AllApproved(a) THEN "Requested" ELSE job[a].status

NamespacesSaved(a) ==
  /\ At(a, "save") /\ job[a].left = {}
  /\ Step(a, [job[a] EXCEPT !.pc = IF AllApproved(a) /\ job[a].status = "Approved"
                                     THEN "create" ELSE "first"])
  /\ UNCHANGED <<requests, rows, inserting, expired, shown, object, calls, made, consents, spent>>

CreateK8sObject(a) ==
  /\ At(a, "create")
  /\ \E r \in job[a].req :
       /\ object[r].phase = "none"
       /\ object' = [object EXCEPT ![r] = [phase |-> "new", namespaces |-> Fetched(a)]]
       /\ made' = [made EXCEPT ![r] = Fetched(a)]
  /\ Step(a, [job[a] EXCEPT !.pc = "first"])
  /\ UNCHANGED <<requests, rows, inserting, expired, shown, calls, consents, spent>>

\* AlreadyExists, or the cluster cannot be reached: the request row is not written.
CreateK8sObjectFails(a) ==
  /\ At(a, "create")
  /\ \/ (\E r \in job[a].req : object[r].phase # "none") /\ UNCHANGED spent
     \/ (\E r \in job[a].req : object[r].phase = "none") /\ Fails
  /\ Return(a)
  /\ UNCHANGED <<requests, rows, inserting, expired, shown, object, calls, made, consents>>

\* First: the request row may have been cleaned away.
FetchRequest(a) ==
  /\ At(a, "first")
  /\ IF \E r \in job[a].req : requests[r].status = "None" THEN Return(a)
     ELSE Step(a, [job[a] EXCEPT !.pc = "update"])
  /\ UNCHANGED <<requests, rows, inserting, expired, shown, object, calls, made, consents, spent>>

\* Updates writes the status, whatever the row has become meanwhile; on a row that is
\* gone it has no effect and reports no error.
UpdateRequest(a) ==
  /\ At(a, "update")
  /\ \E r \in job[a].req :
       requests' = IF requests[r].status = "None" THEN requests
                   ELSE [requests EXCEPT ![r].status = FinalStatus(a)]
  /\ Return(a)
  /\ UNCHANGED <<rows, inserting, expired, shown, object, calls, made, consents, spent>>
-----------------------------------------------------------------------------
(* CleanExpiredRequests, K8sCallback and the operator behind it *)

Expire(r) ==
  /\ requests[r].status # "None" /\ r \notin expired
  /\ expired' = expired \union {r}
  /\ UNCHANGED <<requests, rows, inserting, shown, job, object, calls, made, consents, spent>>

\* The request rows go, their namespace rows stay.
Cleanable == {r \in expired : requests[r].status = "Requested"}
CleanExpiredRequests ==
  /\ Admins # {} /\ Cleanable # {}
  /\ requests' = [r \in Requests |-> IF r \in Cleanable THEN NoRow ELSE requests[r]]
  /\ UNCHANGED <<rows, inserting, expired, shown, job, object, calls, made, consents, spent>>

\* The operator writes a status and calls back before it does anything else.
\* Mutant: the callback comes before the status is written.
OperatorCallsBackFirst(r) ==
  /\ r \notin calls
  /\ object[r].phase \in {"new", "Pending"}
  /\ calls' = calls \union {r}
  /\ UNCHANGED <<requests, rows, inserting, expired, shown, job, object, made, consents, spent>>

OperatorMoves(r) ==
  /\ r \notin calls
  /\ \/ object[r].phase = "new" /\ object' = [object EXCEPT ![r].phase = "Pending"]
     \/ object[r].phase = "new" /\ object' = [object EXCEPT ![r].phase = "Rejected"]
     \/ object[r].phase = "Pending" /\ object' = [object EXCEPT ![r].phase = "Succeeded"]
  /\ calls' = calls \union {r}
  /\ UNCHANGED <<requests, rows, inserting, expired, shown, job, made, consents, spent>>

OperatorDeletes(r) ==
  /\ r \notin calls
  /\ \/ object[r].phase = "Succeeded" /\ r \in expired
     \/ object[r].phase = "Rejected"
  /\ object' = [object EXCEPT ![r] = NoObject]
  /\ UNCHANGED <<requests, rows, inserting, expired, shown, job, calls, made, consents, spent>>

\* K8sCallback: the status is written as it comes, if the signed URL is still valid.
K8sCallback(r) ==
  /\ r \in calls /\ r \notin expired
  /\ requests' = IF requests[r].status = "None" THEN requests
                 ELSE [requests EXCEPT ![r].status = object[r].phase]
  /\ calls' = calls \ {r}
  /\ UNCHANGED <<rows, inserting, expired, shown, job, object, made, consents, spent>>

\* The callback is refused, or lost; the operator does not repeat it.
K8sCallbackFails(r) ==
  /\ r \in calls
  /\ IF r \in expired THEN UNCHANGED spent ELSE Fails
  /\ calls' = calls \ {r}
  /\ UNCHANGED <<requests, rows, inserting, expired, shown, job, object, made, consents>>
-----------------------------------------------------------------------------
Submission(r) ==
  \/ \E ns \in SUBSET Namespaces : ns # {} /\ SubmitRequest(r, ns)
  \/ \E n \in inserting[r] : InsertNamespace(r, n)
  \/ InsertNamespaceFails(r)

ProcessApproval(a) ==
  \/ FetchNamespaces(a)
  \/ \E n \in job[a].left : SaveNamespace(a, n)
  \/ NamespacesSaved(a)
  \/ CreateK8sObject(a) \/ CreateK8sObjectFails(a)
  \/ FetchRequest(a) \/ UpdateRequest(a)

User(a) ==
  \/ GetPendingApprovals(a)
  \/ \E batch \in SUBSET shown[a], status \in Decisions : ApproveOrRejectRequests(a, batch, status)
  \/ NextRequest(a) \/ HandlerFails(a)
  \/ ProcessApproval(a)

Cluster(r) ==
  \/ Expire(r)
  \/ OperatorMoves(r) \/ OperatorDeletes(r)
  \/ K8sCallback(r) \/ K8sCallbackFails(r)

Next ==
  \/ \E r \in Requests : Submission(r) \/ Cluster(r)
  \/ \E a \in Approvers : User(a)
  \/ CleanExpiredRequests

Spec == Init /\ [][Next]_vars
-----------------------------------------------------------------------------
(* Properties *)

\* The types of the variables; the API's status column never holds the empty status
\* of a new JitRequest, because the operator writes a status before it calls back.
TypeOK ==
  /\ requests \in [Requests -> RequestData]
  /\ rows \in [Requests -> [Namespaces -> RequestNamespace]]
  /\ inserting \in [Requests -> SUBSET Namespaces]
  /\ expired \subseteq Requests
  /\ shown \in [Approvers -> SUBSET Requests]
  /\ job \in [Approvers -> Jobs]
  /\ object \in [Requests -> [phase : Phases, namespaces : SUBSET Namespaces]]
  /\ calls \subseteq Requests
  /\ made \in [Requests -> SUBSET Namespaces]
  /\ consents \subseteq Requests \X Approvers
  /\ spent \in [decisions : Nat, overlaps : Nat, early : Nat, failures : Nat]

\* Somebody entitled to decide on namespace n approved r.
HasConsent(r, n) == \E a \in Approvers : <<r, a>> \in consents /\ MayDecide(a, n)

\* A JitRequest names only namespaces somebody entitled to them approved, whatever
\* copies of the rows the concurrent handlers worked on.
NoGrantWithoutConsent ==
  \A r \in Requests : \A n \in object[r].namespaces : HasConsent(r, n)

\* Nobody is at work on r.
Settled(r) == inserting[r] = {} /\ \A a \in Approvers : r \notin job[a].req \union job[a].batch

Filed(r) == {n \in Namespaces : rows[r][n].exists}

\* Everybody is done with r, and all its rows are approved.
RowsApproved(r) == Settled(r) /\ Filed(r) # {} /\ (\A n \in Filed(r) : rows[r][n].approved)

\* processApproval "creates the k8s object if all namespaces are approved": for all of
\* them, not for those that happened to be there.
AllApprovedIsCreated == \A r \in Requests : RowsApproved(r) => made[r] = Filed(r)

\* It does so when the calls come one after the other and after the rows, and nothing
\* fails, whoever decides on which rows, from however old a list, in whatever order.
SerialApprovalIsCreated ==
  spent.overlaps = 0 /\ spent.early = 0 /\ spent.failures = 0 => AllApprovedIsCreated

\* ... and only then, even if handlers die and statements fail: at the moment the object
\* is created, no namespace it is made for has been rejected.
CreatedOnlyWhileApproved ==
  [][\A r \in Requests : object[r].phase = "none" /\ object'[r].phase = "new" =>
       spent.overlaps > 0 \/ \A n \in object'[r].namespaces : rows[r][n].approved]_vars
=============================================================================
