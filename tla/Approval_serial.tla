--------------------------- MODULE Approval_serial ---------------------------
(***************************************************************************)
(* What Approval promises as long as the calls come one after the other:   *)
(* the JitRequest is created when the last row is approved, for all of     *)
(* them, and for nothing that was rejected meanwhile.  The argument: a     *)
(* handler that is alone works on a copy that agrees with the table        *)
(* (CopyIsCurrent); unless its user decided before SubmitRequest was done, *)
(* the copy has all rows there will ever be (CompleteOK); so when all rows *)
(* of the table are approved, the JitRequest was made or the handler that  *)
(* approved the last one is about to make it (Underway).                   *)
(***************************************************************************)
EXTENDS Approval_proofs

\* SubmitRequest inserts each row once, and nobody knows a request not yet submitted.
Handled(a) == job[a].req \union job[a].batch
Fresh(r) == requests[r].status = "None" /\ r \notin expired
FilingOK ==
  \A r \in Requests :
    /\ \A n \in inserting[r] : ~rows[r][n].exists
    /\ Fresh(r) => \A a \in Approvers : r \notin shown[a] \union Handled(a)

\* A handler has no copy before it read one, and only copies of rows that are there.
HeldOK(a) ==
  /\ job[a].pc \in {"idle", "next", "fetch"} => \A n \in Namespaces : ~job[a].rows[n].exists
  /\ \A n \in job[a].left : job[a].rows[n].exists
  /\ \A r \in job[a].req, n \in Namespaces : job[a].rows[n].exists => rows[r][n].exists
HoldingsOK == \A a \in Approvers : HeldOK(a)

\* Once somebody decides on a request its rows are all there, in his copy and in the
\* JitRequest made from it.
CopyIsComplete(a) ==
  /\ \A r \in Handled(a) : inserting[r] = {}
  /\ job[a].pc \in {"save", "create"} =>
       \A r \in job[a].req, n \in Namespaces : rows[r][n].exists => job[a].rows[n].exists
ObjectIsComplete(r) ==
  object[r].phase # "none" \/ made[r] # {} => inserting[r] = {} /\ made[r] = Filed(r)
CompleteOK ==
  spent.early = 0 => /\ \A a \in Approvers : CopyIsComplete(a)
                     /\ \A r \in Requests : ObjectIsComplete(r)

\* One call at a time, and the copy it works on agrees with the table.
Alone == \A a, b \in Approvers : a = b \/ At(a, "idle") \/ At(b, "idle")
CopyIsCurrent(a) ==
  job[a].pc \in {"save", "create"} =>
    \A r \in job[a].req, n \in Namespaces :
      job[a].rows[n].exists => rows[r][n] = job[a].rows[n]
SerialOK == spent.overlaps = 0 => Alone /\ \A a \in Approvers : CopyIsCurrent(a)

\* A handler is on its way to create the JitRequest of r.
Underway(r) ==
  \E a \in Approvers : /\ r \in job[a].req
                       /\ At(a, "create") \/ (At(a, "save") /\ job[a].status = "Approved")
FullyApproved(r) ==
  /\ \E n \in Namespaces : rows[r][n].exists
  /\ \A n \in Namespaces : rows[r][n].exists => rows[r][n].approved
NoneMissed ==
  spent.overlaps = 0 /\ spent.early = 0 /\ spent.failures = 0 =>
    \A r \in Requests : FullyApproved(r) => made[r] # {} \/ Underway(r)

\* The inductive invariant.
SInv == IInv /\ FilingOK /\ HoldingsOK /\ CompleteOK /\ SerialOK /\ NoneMissed
-----------------------------------------------------------------------------
(* What a step does to a handler and to the rows *)

\* Only the handler that moves changes.
LEMMA OneMoves ==
  ASSUME TypeOK, NEW a \in Approvers, NEW j, Step(a, j)
  PROVE  job'[a] = j /\ \A b \in Approvers : b # a => job'[b] = job[b]
BY DEF TypeOK, Step

\* The handler has a copy of the rows of its request.
LEMMA FetchEffect ==
  ASSUME IInv, NEW a \in Approvers, FetchNamespaces(a)
  PROVE  /\ UNCHANGED <<requests, rows, inserting, object, made, spent>>
         /\ job[a].pc = "fetch" /\ job'[a].pc = "save" /\ job'[a].req = job[a].req
         /\ \A b \in Approvers : b # a => job'[b] = job[b]
         /\ \A r \in job[a].req : job'[a].rows = rows[r]
         /\ \A n \in job'[a].left : job'[a].rows[n].exists
<1>0. TypeOK /\ job[a] \in Jobs /\ JobOK(a, job[a], consents) /\ job[a].pc = "fetch"
      /\ UNCHANGED <<requests, rows, inserting, object, made, spent>>
  BY DEF FetchNamespaces, At, IInv, TypeOK, JobsOK
<1>1. PICK r \in job[a].req :
        Step(a, [job[a] EXCEPT !.pc = "save", !.rows = rows[r],
                   !.left = {n \in Namespaces : rows[r][n].exists /\ MayDecide(a, n)}])
  BY DEF FetchNamespaces
<1> DEFINE left == {n \in Namespaces : rows[r][n].exists /\ MayDecide(a, n)}
           j == [job[a] EXCEPT !.pc = "save", !.rows = rows[r], !.left = left]
<1>2. j.pc = "save" /\ j.rows = rows[r] /\ j.left = left /\ j.req = job[a].req
  BY <1>0 DEF Jobs
<1>3. job'[a] = j /\ \A b \in Approvers : b # a => job'[b] = job[b]
  BY <1>0, <1>1, OneMoves
<1>4. \A q \in job[a].req : q = r
  BY <1>0 DEF JobOK
<1> HIDE DEF j
<1> QED BY <1>0, <1>2, <1>3, <1>4

\* The handler writes a row of its request, in the table and in its copy.
LEMMA SaveEffect ==
  ASSUME IInv, NEW a \in Approvers, NEW n \in job[a].left, SaveNamespace(a, n)
  PROVE  /\ UNCHANGED <<requests, inserting, object, made, spent>>
         /\ job[a].pc = "save" /\ job'[a].pc = "save" /\ job'[a].req = job[a].req
         /\ job'[a].status = job[a].status /\ job'[a].left \subseteq job[a].left
         /\ n \in Namespaces
         /\ Decided(a, n).exists = job[a].rows[n].exists
         /\ job[a].status = "Rejected" => ~Decided(a, n).approved
         /\ job[a].status = "Other" => Decided(a, n) = job[a].rows[n]
         /\ \A m \in Namespaces : job'[a].rows[m] = IF m = n THEN Decided(a, n) ELSE job[a].rows[m]
         /\ \A b \in Approvers : b # a => job'[b] = job[b]
         /\ \A q \in Requests, m \in Namespaces :
              rows'[q][m] = IF q \in job[a].req /\ m = n THEN Decided(a, n) ELSE rows[q][m]
         /\ \E r \in Requests : job[a].req = {r}
<1>0. TypeOK /\ job[a] \in Jobs /\ JobOK(a, job[a], consents) /\ job[a].pc = "save" /\ n \in Namespaces
      /\ UNCHANGED <<requests, inserting, object, made, spent>>
  BY DEF SaveNamespace, At, IInv, TypeOK, JobsOK, Jobs
<1> DEFINE row == Decided(a, n)
           j == [job[a] EXCEPT !.rows[n] = row, !.left = @ \ {n}]
<1>1. PICK r \in job[a].req : rows' = [rows EXCEPT ![r][n] = row]
  BY DEF SaveNamespace
<1>2. r \in Requests /\ job[a].req = {r}
  BY <1>0 DEF Jobs, JobOK
<1>3. /\ row.exists = job[a].rows[n].exists
      /\ job[a].status = "Rejected" => ~row.approved
      /\ job[a].status = "Other" => row = job[a].rows[n]
  <2>1. job[a].rows[n] \in RequestNamespace
    BY <1>0 DEF Jobs
  <2> QED BY <2>1 DEF Decided, RequestNamespace
<1>4. Step(a, j)
  BY DEF SaveNamespace
<1> HIDE DEF row
<1>5. /\ \A m \in Namespaces : j.rows[m] = IF m = n THEN row ELSE job[a].rows[m]
      /\ j.left \subseteq job[a].left /\ j.pc = "save"
      /\ j.req = job[a].req /\ j.status = job[a].status
  BY <1>0 DEF Jobs
<1>6. \A q \in Requests, m \in Namespaces :
        rows'[q][m] = IF q = r /\ m = n THEN row ELSE rows[q][m]
  BY <1>0, <1>1, <1>2 DEF TypeOK
<1>7. job'[a] = j /\ \A b \in Approvers : b # a => job'[b] = job[b]
  BY <1>0, <1>4, OneMoves
<1> HIDE DEF j
<1> QED BY <1>0, <1>2, <1>3, <1>5, <1>6, <1>7 DEF row

\* A new row is there, and not approved.
LEMMA InsertEffect ==
  ASSUME IInv, NEW r \in Requests, NEW n \in inserting[r], InsertNamespace(r, n)
  PROVE  /\ UNCHANGED <<requests, job, object, made, spent>>
         /\ n \in Namespaces
         /\ rows'[r][n].exists /\ ~rows'[r][n].approved
         /\ inserting' = [inserting EXCEPT ![r] = @ \ {n}]
         /\ \A q \in Requests, m \in Namespaces : q # r \/ m # n => rows'[q][m] = rows[q][m]
BY RowTypes DEF InsertNamespace, IInv, TypeOK, NoNamespaceRow

\* The handler goes on within its request.
GoesOn(a) ==
  /\ job'[a].req = job[a].req /\ job'[a].rows = job[a].rows
  /\ job'[a].left = job[a].left /\ job'[a].status = job[a].status
  /\ \/ job[a].pc = "save" /\ job'[a].pc \in {"create", "first"}
     \/ job[a].pc = "create" /\ job'[a].pc = "first"
     \/ job[a].pc = "first" /\ job'[a].pc = "update"

\* The handler is done with its request.
Leaves(a) ==
  /\ job'[a].pc \in {"idle", "next"} /\ job'[a].req = {} /\ job'[a].left = {}
  /\ \A n \in Namespaces : ~job'[a].rows[n].exists

\* Apart from reading and writing rows a handler takes a request, goes on or leaves.
LEMMA OtherEffects ==
  ASSUME IInv, NEW a \in Approvers,
         \/ \E batch \in SUBSET shown[a], status \in Decisions :
              ApproveOrRejectRequests(a, batch, status)
         \/ NextRequest(a) \/ HandlerFails(a) \/ NamespacesSaved(a)
         \/ CreateK8sObject(a) \/ CreateK8sObjectFails(a) \/ FetchRequest(a) \/ UpdateRequest(a)
  PROVE  /\ \A b \in Approvers : b # a => job'[b] = job[b]
         /\ \/ Leaves(a) \/ GoesOn(a)
            \/ /\ job[a].pc = "next" /\ job'[a].pc = "fetch"
               /\ job'[a].rows = job[a].rows /\ job'[a].left = job[a].left
<1>0. TypeOK /\ job[a] \in Jobs
  BY DEF IInv, TypeOK
<1>1. NoJob.pc = "idle" /\ NoJob.req = {} /\ NoJob.left = {} /\ \A n \in Namespaces : ~NoJob.rows[n].exists
  BY DEF NoJob, NoNamespaceRows, NoNamespaceRow
<1>2. ASSUME Step(a, NoJob)
      PROVE  Leaves(a) /\ \A b \in Approvers : b # a => job'[b] = job[b]
  BY <1>0, <1>1, <1>2, OneMoves DEF Leaves
<1>3. ASSUME Return(a)
      PROVE  Leaves(a) /\ \A b \in Approvers : b # a => job'[b] = job[b]
  <2> DEFINE j == [job[a] EXCEPT !.pc = "next", !.req = {}, !.rows = NoNamespaceRows,
                                 !.left = {}]
  <2>1. job'[a] = j /\ \A b \in Approvers : b # a => job'[b] = job[b]
    BY <1>0, <1>3, OneMoves DEF Return
  <2>2. j.pc = "next" /\ j.req = {} /\ j.left = {} /\ \A n \in Namespaces : ~j.rows[n].exists
    BY <1>0 DEF Jobs, NoNamespaceRows, NoNamespaceRow
  <2> HIDE DEF j
  <2> QED BY <2>1, <2>2 DEF Leaves
<1>4. ASSUME NEW batch, NEW status, ApproveOrRejectRequests(a, batch, status)
      PROVE  Leaves(a) /\ \A b \in Approvers : b # a => job'[b] = job[b]
  <2> DEFINE j == [NoJob EXCEPT !.pc = "next", !.batch = batch, !.status = status]
  <2>1. job'[a] = j /\ \A b \in Approvers : b # a => job'[b] = job[b]
    BY <1>0, <1>4, OneMoves DEF ApproveOrRejectRequests
  <2>2. j.pc = "next" /\ j.req = {} /\ j.left = {} /\ \A n \in Namespaces : ~j.rows[n].exists
    BY DEF NoJob, NoNamespaceRows, NoNamespaceRow
  <2> HIDE DEF j
  <2> QED BY <2>1, <2>2 DEF Leaves
<1>5. ASSUME NEW pc, Step(a, [job[a] EXCEPT !.pc = pc])
      PROVE  /\ job'[a].pc = pc
             /\ job'[a].req = job[a].req /\ job'[a].rows = job[a].rows
             /\ job'[a].left = job[a].left /\ job'[a].status = job[a].status
             /\ \A b \in Approvers : b # a => job'[b] = job[b]
  <2> DEFINE j == [job[a] EXCEPT !.pc = pc]
  <2>1. job'[a] = j /\ \A b \in Approvers : b # a => job'[b] = job[b]
    BY <1>0, <1>5, OneMoves
  <2>2. /\ j.pc = pc /\ j.req = job[a].req /\ j.rows = job[a].rows
        /\ j.left = job[a].left /\ j.status = job[a].status
    BY <1>0 DEF Jobs
  <2> HIDE DEF j
  <2> QED BY <2>1, <2>2
<1>7. CASE NamespacesSaved(a)
  <2>1. job[a].pc = "save" /\ \E pc \in {"create", "first"} : Step(a, [job[a] EXCEPT !.pc = pc])
    BY <1>7 DEF NamespacesSaved, At
  <2> QED BY <1>5, <2>1 DEF GoesOn
<1>8. CASE CreateK8sObject(a)
  <2>1. job[a].pc = "create" /\ Step(a, [job[a] EXCEPT !.pc = "first"])
    BY <1>8 DEF CreateK8sObject, At
  <2> QED BY <1>5, <2>1 DEF GoesOn
<1>9. CASE FetchRequest(a)
  <2>1. job[a].pc = "first" /\ (Return(a) \/ Step(a, [job[a] EXCEPT !.pc = "update"]))
    BY <1>9 DEF FetchRequest, At
  <2> QED BY <1>3, <1>5, <2>1 DEF GoesOn
<1>10. CASE NextRequest(a)
  <2>1. CASE Step(a, NoJob)
    BY <1>2, <2>1
  <2>2. ASSUME NEW r, NEW batch, Step(a, [job[a] EXCEPT !.pc = "fetch", !.req = {r}, !.batch = batch])
        PROVE  /\ \A b \in Approvers : b # a => job'[b] = job[b]
               /\ job'[a].pc = "fetch" /\ job'[a].rows = job[a].rows /\ job'[a].left = job[a].left
    <3> DEFINE j == [job[a] EXCEPT !.pc = "fetch", !.req = {r}, !.batch = batch]
    <3>1. job'[a] = j /\ \A b \in Approvers : b # a => job'[b] = job[b]
      BY <1>0, <2>2, OneMoves
    <3>2. j.pc = "fetch" /\ j.rows = job[a].rows /\ j.left = job[a].left
      BY <1>0 DEF Jobs
    <3> HIDE DEF j
    <3> QED BY <3>1, <3>2
  <2>3. job[a].pc = "next" /\ (Step(a, NoJob) \/ \E r, batch :
          Step(a, [job[a] EXCEPT !.pc = "fetch", !.req = {r}, !.batch = batch]))
    BY <1>10 DEF NextRequest, At
  <2> QED BY <2>1, <2>2, <2>3
<1>11. CASE HandlerFails(a) \/ CreateK8sObjectFails(a) \/ UpdateRequest(a)
  BY <1>2, <1>3, <1>11 DEF HandlerFails, CreateK8sObjectFails, UpdateRequest
<1> QED BY <1>4, <1>7, <1>8, <1>9, <1>10, <1>11

\* The steps outside processApproval's reading and writing of rows.
OtherStep(a) ==
  \/ \E batch \in SUBSET shown[a], status \in Decisions :
       ApproveOrRejectRequests(a, batch, status)
  \/ NextRequest(a) \/ HandlerFails(a) \/ NamespacesSaved(a)
  \/ CreateK8sObject(a) \/ CreateK8sObjectFails(a) \/ FetchRequest(a) \/ UpdateRequest(a)

\* Every step moves one handler, inserts a row, or leaves rows and handlers alone.
LEMMA Steps ==
  ASSUME [Next]_vars
  PROVE  \/ rows' = rows /\ job' = job
         \/ \E r \in Requests : \E n \in inserting[r] : InsertNamespace(r, n)
         \/ \E a \in Approvers : FetchNamespaces(a)
         \/ \E a \in Approvers : \E n \in job[a].left : SaveNamespace(a, n)
         \/ \E a \in Approvers : OtherStep(a) /\ rows' = rows
BY DEF Next, Submission, Cluster, User, ProcessApproval, vars, SubmitRequest,
   InsertNamespaceFails, GetPendingApprovals, ApproveOrRejectRequests, NextRequest, HandlerFails,
   NamespacesSaved, CreateK8sObject, CreateK8sObjectFails, FetchRequest, UpdateRequest, Expire,
   CleanExpiredRequests, OperatorMoves, OperatorDeletes, K8sCallback, K8sCallbackFails, OtherStep

\* A handler only moves by a step of its own.
LEMMA OneHandlerStep ==
  ASSUME IInv, [Next]_vars, NEW b \in Approvers
  PROVE  \/ job'[b] = job[b] \/ FetchNamespaces(b) \/ OtherStep(b)
         \/ \E n \in job[b].left : SaveNamespace(b, n)
<1>1. ASSUME NEW a \in Approvers, a # b, FetchNamespaces(a) PROVE job'[b] = job[b]
  BY <1>1, FetchEffect
<1>2. ASSUME NEW a \in Approvers, a # b, NEW n \in job[a].left, SaveNamespace(a, n)
      PROVE  job'[b] = job[b]
  BY <1>2, SaveEffect
<1>3. ASSUME NEW a \in Approvers, a # b, OtherStep(a) PROVE job'[b] = job[b]
  BY <1>3, OtherEffects DEF OtherStep
<1>4. ASSUME NEW r \in Requests, NEW n \in inserting[r], InsertNamespace(r, n) PROVE job' = job
  BY <1>4 DEF InsertNamespace
<1> QED BY <1>1, <1>2, <1>3, <1>4, Steps

\* A call that comes while another is served, or while the rows of one of its requests
\* are being inserted, is counted as such.
LEMMA CallCounted ==
  ASSUME TypeOK, NEW a, NEW batch, NEW status, ApproveOrRejectRequests(a, batch, status)
  PROVE  /\ spent'.overlaps = spent.overlaps + (IF \A b \in Approvers : At(b, "idle") THEN 0 ELSE 1)
         /\ spent'.early = spent.early + (IF \A r \in batch : inserting[r] = {} THEN 0 ELSE 1)
         /\ spent'.failures = spent.failures
<1> DEFINE overlap == IF \A b \in Approvers : At(b, "idle") THEN 0 ELSE 1
           early == IF \A r \in batch : inserting[r] = {} THEN 0 ELSE 1
<1>1. spent' = [spent EXCEPT !.decisions = @ + 1, !.overlaps = @ + overlap, !.early = @ + early]
  BY DEF ApproveOrRejectRequests
<1>2. spent \in [decisions : Nat, overlaps : Nat, early : Nat, failures : Nat]
  BY DEF TypeOK
<1> HIDE DEF overlap, early
<1>3. spent'.overlaps = spent.overlaps + overlap /\ spent'.early = spent.early + early
      /\ spent'.failures = spent.failures
  BY <1>1, <1>2
<1> QED BY <1>3 DEF overlap, early

\* The bounds are only used up, and each overlap and each failure is counted.
LEMMA Counted ==
  ASSUME TypeOK, [Next]_vars
  PROVE  /\ spent'.overlaps = 0 => spent.overlaps = 0
         /\ spent'.early = 0 => spent.early = 0
         /\ spent'.failures = 0 => spent.failures = 0
         /\ Fails => spent'.failures # 0
<1>1. ASSUME Fails
      PROVE  /\ spent'.overlaps = spent.overlaps /\ spent'.early = spent.early
             /\ spent'.failures = spent.failures + 1
  BY <1>1 DEF Fails, TypeOK
<1>2. ASSUME NEW a, NEW batch, NEW status, ApproveOrRejectRequests(a, batch, status)
      PROVE  /\ spent'.overlaps \in {spent.overlaps, spent.overlaps + 1}
             /\ spent'.early \in {spent.early, spent.early + 1}
             /\ spent'.failures = spent.failures
  <2>1. spent.overlaps \in Nat /\ spent.early \in Nat
    BY DEF TypeOK
  <2> QED BY <1>2, <2>1, CallCounted
<1>3. \/ spent' = spent \/ Fails
      \/ \E a, batch, status : ApproveOrRejectRequests(a, batch, status)
  BY DEF Next, Submission, Cluster, User, ProcessApproval, vars, SubmitRequest, InsertNamespace,
     InsertNamespaceFails, GetPendingApprovals, NextRequest, HandlerFails, FetchNamespaces,
     SaveNamespace, NamespacesSaved, CreateK8sObject, CreateK8sObjectFails, FetchRequest,
     UpdateRequest, Expire, CleanExpiredRequests, OperatorMoves, OperatorDeletes, K8sCallback,
     K8sCallbackFails
<1>4. spent.overlaps \in Nat /\ spent.early \in Nat /\ spent.failures \in Nat
  BY DEF TypeOK
<1> QED BY <1>1, <1>2, <1>3, <1>4
-----------------------------------------------------------------------------
(* Rows and copies *)

\* A row that is there stays, and none appears but by SubmitRequest.
LEMMA RowsStay ==
  ASSUME IInv, HoldingsOK, [Next]_vars, NEW r \in Requests, NEW n \in Namespaces
  PROVE  /\ rows[r][n].exists => rows'[r][n].exists
         /\ rows'[r][n].exists => rows[r][n].exists \/ (n \in inserting[r] /\ InsertNamespace(r, n))
<1>1. ASSUME NEW q \in Requests, NEW m \in inserting[q], InsertNamespace(q, m)
      PROVE  /\ rows[r][n].exists => rows'[r][n].exists
             /\ rows'[r][n].exists => rows[r][n].exists \/ (n \in inserting[r] /\ InsertNamespace(r, n))
  <2>1. CASE q = r /\ m = n
    BY <1>1, <2>1, InsertEffect
  <2>2. CASE ~(q = r /\ m = n)
    BY <1>1, <2>2, InsertEffect
  <2> QED BY <2>1, <2>2
<1>2. ASSUME NEW a \in Approvers, NEW m \in job[a].left, SaveNamespace(a, m)
      PROVE  rows'[r][n].exists = rows[r][n].exists
  <2>1. m \in Namespaces /\ Decided(a, m).exists = job[a].rows[m].exists
        /\ rows'[r][n] = IF r \in job[a].req /\ n = m THEN Decided(a, m) ELSE rows[r][n]
    BY <1>2, SaveEffect
  <2>2. job[a].rows[m].exists /\ (r \in job[a].req => rows[r][m].exists)
    BY <2>1 DEF HoldingsOK, HeldOK
  <2>3. job[a].rows[m].exists \in BOOLEAN /\ rows[r][m].exists \in BOOLEAN
    BY <2>1 DEF IInv, TypeOK, Jobs, RequestNamespace
  <2> QED BY <2>1, <2>2, <2>3
<1>3. CASE rows' = rows
  BY <1>3
<1> QED BY <1>1, <1>2, <1>3, Steps, FetchEffect

\* New rows are only to come when a request is submitted.
LEMMA InsertingStep ==
  ASSUME TypeOK, [Next]_vars, NEW r \in Requests
  PROVE  inserting'[r] \subseteq inserting[r] \/ \E ns : SubmitRequest(r, ns)
<1>1. ASSUME NEW q \in Requests, NEW ns, SubmitRequest(q, ns), q # r
      PROVE  inserting'[r] = inserting[r]
  BY <1>1 DEF SubmitRequest, TypeOK
<1>2. ASSUME NEW q \in Requests, NEW n \in inserting[q], InsertNamespace(q, n)
      PROVE  inserting'[r] \subseteq inserting[r]
  BY <1>2 DEF InsertNamespace, TypeOK
<1>3. ASSUME NEW q \in Requests, InsertNamespaceFails(q)
      PROVE  inserting'[r] \subseteq inserting[r]
  BY <1>3 DEF InsertNamespaceFails, TypeOK
<1>4. \/ inserting' = inserting
      \/ \E q \in Requests : \/ \E ns : SubmitRequest(q, ns)
                             \/ \E n \in inserting[q] : InsertNamespace(q, n)
                             \/ InsertNamespaceFails(q)
  BY DEF Next, Submission, Cluster, User, ProcessApproval, vars, GetPendingApprovals,
     ApproveOrRejectRequests, NextRequest, HandlerFails, FetchNamespaces, SaveNamespace,
     NamespacesSaved, CreateK8sObject, CreateK8sObjectFails, FetchRequest, UpdateRequest, Expire,
     CleanExpiredRequests, OperatorMoves, OperatorDeletes, K8sCallback, K8sCallbackFails
<1> QED BY <1>1, <1>2, <1>3, <1>4

\* What a handler has to do comes from its call, and the call from the page.
LEMMA HandledStep ==
  ASSUME IInv, [Next]_vars, NEW b \in Approvers
  PROVE  \/ Handled(b)' \subseteq Handled(b)
         \/ \E batch \in SUBSET shown[b], status \in Decisions :
              ApproveOrRejectRequests(b, batch, status) /\ Handled(b)' = batch
<1>0. TypeOK /\ job[b] \in Jobs
  BY DEF IInv, TypeOK
<1>1. ASSUME NEW j, Step(b, j), j.req \union j.batch \subseteq Handled(b)
      PROVE  Handled(b)' \subseteq Handled(b)
  BY <1>0, <1>1, OneMoves DEF Handled
<1>2. CASE job'[b] = job[b]
  BY <1>2 DEF Handled
<1>3. ASSUME Step(b, NoJob) PROVE Handled(b)' \subseteq Handled(b)
  BY <1>1, <1>3 DEF NoJob
<1>4. ASSUME Return(b) PROVE Handled(b)' \subseteq Handled(b)
  <2> DEFINE j == [job[b] EXCEPT !.pc = "next", !.req = {}, !.rows = NoNamespaceRows, !.left = {}]
  <2>1. Step(b, j) /\ j.req = {} /\ j.batch = job[b].batch
    BY <1>0, <1>4 DEF Return, Jobs
  <2> HIDE DEF j
  <2> QED BY <1>1, <2>1 DEF Handled
<1>5. ASSUME NEW pc, Step(b, [job[b] EXCEPT !.pc = pc]) PROVE Handled(b)' \subseteq Handled(b)
  <2> DEFINE j == [job[b] EXCEPT !.pc = pc]
  <2>1. Step(b, j) /\ j.req = job[b].req /\ j.batch = job[b].batch
    BY <1>0, <1>5 DEF Jobs
  <2> HIDE DEF j
  <2> QED BY <1>1, <2>1 DEF Handled
<1>6. CASE FetchNamespaces(b)
  <2>1. PICK r \in job[b].req :
          Step(b, [job[b] EXCEPT !.pc = "save", !.rows = rows[r],
                     !.left = {n \in Namespaces : rows[r][n].exists /\ MayDecide(b, n)}])
    BY <1>6 DEF FetchNamespaces
  <2> DEFINE left == {n \in Namespaces : rows[r][n].exists /\ MayDecide(b, n)}
             j == [job[b] EXCEPT !.pc = "save", !.rows = rows[r], !.left = left]
  <2>2. Step(b, j) /\ j.req = job[b].req /\ j.batch = job[b].batch
    BY <1>0, <2>1 DEF Jobs
  <2> HIDE DEF j
  <2> QED BY <1>1, <2>2 DEF Handled
<1>7. ASSUME NEW n \in job[b].left, SaveNamespace(b, n) PROVE Handled(b)' \subseteq Handled(b)
  <2> DEFINE row == Decided(b, n)
             j == [job[b] EXCEPT !.rows[n] = row, !.left = @ \ {n}]
  <2>1. Step(b, j)
    BY <1>7 DEF SaveNamespace
  <2> HIDE DEF row
  <2>2. j.req = job[b].req /\ j.batch = job[b].batch
    BY <1>0 DEF Jobs
  <2> HIDE DEF j
  <2> QED BY <1>1, <2>1, <2>2 DEF Handled
<1>8. CASE NextRequest(b)
  <2>1. ASSUME NEW r \in job[b].batch,
               Step(b, [job[b] EXCEPT !.pc = "fetch", !.req = {r}, !.batch = @ \ {r}])
        PROVE  Handled(b)' \subseteq Handled(b)
    <3> DEFINE j == [job[b] EXCEPT !.pc = "fetch", !.req = {r}, !.batch = @ \ {r}]
    <3>1. Step(b, j) /\ j.req = {r} /\ j.batch = job[b].batch \ {r}
      BY <1>0, <2>1 DEF Jobs
    <3> HIDE DEF j
    <3> QED BY <1>1, <3>1 DEF Handled
  <2> QED BY <1>3, <1>8, <2>1 DEF NextRequest
<1>9. ASSUME NEW batch \in SUBSET shown[b], NEW status \in Decisions,
             ApproveOrRejectRequests(b, batch, status)
      PROVE  Handled(b)' = batch
  <2> DEFINE j == [NoJob EXCEPT !.pc = "next", !.batch = batch, !.status = status]
  <2>1. job'[b] = j
    BY <1>0, <1>9, OneMoves DEF ApproveOrRejectRequests
  <2>2. j.req = {} /\ j.batch = batch
    BY DEF NoJob
  <2> HIDE DEF j
  <2> QED BY <2>1, <2>2 DEF Handled
<1>10. CASE NamespacesSaved(b) \/ CreateK8sObject(b) \/ FetchRequest(b)
  BY <1>4, <1>5, <1>10 DEF NamespacesSaved, CreateK8sObject, FetchRequest
<1>11. CASE HandlerFails(b) \/ CreateK8sObjectFails(b) \/ UpdateRequest(b)
  BY <1>3, <1>4, <1>11 DEF HandlerFails, CreateK8sObjectFails, UpdateRequest
<1> QED BY <1>2, <1>6, <1>7, <1>8, <1>9, <1>10, <1>11, OneHandlerStep DEF OtherStep

\* A request is new once: what was cleaned away had expired.
LEMMA FreshStep ==
  ASSUME IInv, [Next]_vars, NEW r \in Requests, Fresh(r)'
  PROVE  Fresh(r)
<1>0. TypeOK /\ expired \subseteq expired'
  BY DEF IInv, Next, Submission, Cluster, User, ProcessApproval, vars, SubmitRequest, InsertNamespace,
     InsertNamespaceFails, GetPendingApprovals, ApproveOrRejectRequests, NextRequest, HandlerFails,
     FetchNamespaces, SaveNamespace, NamespacesSaved, CreateK8sObject, CreateK8sObjectFails,
     FetchRequest, UpdateRequest, Expire, CleanExpiredRequests, OperatorMoves, OperatorDeletes,
     K8sCallback, K8sCallbackFails
<1>1. CASE requests' = requests
  BY <1>0, <1>1 DEF Fresh
<1>2. ASSUME NEW q \in Requests, NEW ns, SubmitRequest(q, ns) PROVE Fresh(r)
  BY <1>0, <1>2 DEF Fresh, SubmitRequest, TypeOK
<1>3. ASSUME NEW q \in Requests, NEW status \in Statuses \ {"None"},
             requests' = IF requests[q].status = "None" THEN requests
                         ELSE [requests EXCEPT ![q].status = status]
      PROVE  Fresh(r)
  BY <1>0, <1>3 DEF Fresh, TypeOK, RequestData
<1>4. ASSUME NEW a \in Approvers, UpdateRequest(a) PROVE Fresh(r)
  <2>1. job[a] \in Jobs
    BY <1>0 DEF TypeOK
  <2>2. FinalStatus(a) \in Statuses \ {"None"} /\ job[a].req \subseteq Requests
    BY <2>1 DEF FinalStatus, Jobs, Decisions, Statuses
  <2> QED BY <1>3, <1>4, <2>2 DEF UpdateRequest
<1>5. ASSUME NEW q \in Requests, K8sCallback(q) PROVE Fresh(r)
  <2>1. object[q].phase \in Statuses \ {"None"}
    BY <1>5 DEF K8sCallback, IInv, CallsOK, Statuses
  <2> QED BY <1>3, <1>5, <2>1 DEF K8sCallback
<1>6. CASE CleanExpiredRequests
  BY <1>0, <1>6 DEF Fresh, CleanExpiredRequests, Cleanable, TypeOK
<1>7. \/ requests' = requests \/ CleanExpiredRequests
      \/ \E q \in Requests : K8sCallback(q) \/ \E ns : SubmitRequest(q, ns)
      \/ \E a \in Approvers : UpdateRequest(a)
  BY DEF Next, Submission, Cluster, User, ProcessApproval, vars, InsertNamespace,
     InsertNamespaceFails, GetPendingApprovals, ApproveOrRejectRequests, NextRequest, HandlerFails,
     FetchNamespaces, SaveNamespace, NamespacesSaved, CreateK8sObject, CreateK8sObjectFails,
     FetchRequest, Expire, OperatorMoves, OperatorDeletes, K8sCallbackFails
<1> QED BY <1>1, <1>2, <1>4, <1>5, <1>6, <1>7

\* SubmitRequest starts with no rows and inserts each of them once.
LEMMA FilingStep ==
  ASSUME IInv, FilingOK, HoldingsOK, [Next]_vars
  PROVE  FilingOK'
<1> SUFFICES ASSUME NEW r \in Requests
             PROVE  /\ \A n \in inserting'[r] : ~rows'[r][n].exists
                    /\ Fresh(r)' => \A a \in Approvers : r \notin shown'[a] \union Handled(a)'
  BY DEF FilingOK
<1>0. TypeOK /\ inserting'[r] \subseteq Namespaces
  BY InvariantStep DEF IInv, TypeOK
<1>1. ASSUME NEW n \in inserting'[r] PROVE ~rows'[r][n].exists
  <2>1. CASE inserting'[r] \subseteq inserting[r]
    <3>1. ~rows[r][n].exists
      BY <1>1, <2>1 DEF FilingOK
    <3>2. ~InsertNamespace(r, n)
      BY <1>0, <1>1 DEF InsertNamespace, TypeOK
    <3> QED BY <1>0, <1>1, <3>1, <3>2, RowsStay
  <2>2. ASSUME NEW ns, SubmitRequest(r, ns) PROVE ~rows'[r][n].exists
    BY <1>0, <1>1, <2>2 DEF SubmitRequest, NoNamespaceRows, NoNamespaceRow
  <2> QED BY <1>0, <2>1, <2>2, InsertingStep
<1>2. ASSUME Fresh(r)', NEW a \in Approvers PROVE r \notin shown'[a] \union Handled(a)'
  <2>1. Fresh(r) /\ r \notin shown[a] \union Handled(a)
    BY <1>2, FreshStep DEF FilingOK
  <2>2. r \notin Handled(a)'
    BY <2>1, HandledStep
  <2>3. r \notin shown'[a]
    <3>1. CASE shown' = shown
      BY <2>1, <3>1
    <3>2. ASSUME NEW b \in Approvers, GetPendingApprovals(b) PROVE r \notin shown'[a]
      <4>1. shown' = [shown EXCEPT ![b] = {q \in Requests : IsPending(b, q)}]
        BY <3>2 DEF GetPendingApprovals
      <4>2. ~IsPending(b, r)
        BY <2>1 DEF Fresh, IsPending
      <4> QED BY <1>0, <2>1, <4>1, <4>2 DEF TypeOK
    <3>3. shown' = shown \/ \E b \in Approvers : GetPendingApprovals(b)
      BY DEF Next, Submission, Cluster, User, ProcessApproval, vars, SubmitRequest, InsertNamespace,
         InsertNamespaceFails, ApproveOrRejectRequests, NextRequest, HandlerFails, FetchNamespaces,
         SaveNamespace, NamespacesSaved, CreateK8sObject, CreateK8sObjectFails, FetchRequest,
         UpdateRequest, Expire, CleanExpiredRequests, OperatorMoves, OperatorDeletes, K8sCallback,
         K8sCallbackFails
    <3> QED BY <3>1, <3>2, <3>3
  <2> QED BY <2>2, <2>3
<1> QED BY <1>1, <1>2

\* A handler's copies are of rows that are there, also after they were written.
LEMMA HoldingsStep ==
  ASSUME IInv, HoldingsOK, [Next]_vars
  PROVE  HoldingsOK'
<1> SUFFICES ASSUME NEW b \in Approvers PROVE HeldOK(b)'
  BY DEF HoldingsOK
<1>0. HeldOK(b) /\ job[b] \in Jobs
  BY DEF HoldingsOK, IInv, TypeOK
<1>1. \A r \in Requests, n \in Namespaces : rows[r][n].exists => rows'[r][n].exists
  BY RowsStay
<1>2. CASE job'[b] = job[b]
  BY <1>0, <1>1, <1>2 DEF HeldOK, Jobs
<1>3. CASE FetchNamespaces(b)
  <2>1. \A r \in job[b].req : job'[b].rows = rows[r]
    BY <1>3, FetchEffect
  <2>2. rows' = rows /\ job'[b].pc = "save" /\ job'[b].req = job[b].req
        /\ \A n \in job'[b].left : job'[b].rows[n].exists
    BY <1>3, FetchEffect
  <2> QED BY <2>1, <2>2 DEF HeldOK
<1>4. ASSUME NEW n \in job[b].left, SaveNamespace(b, n) PROVE HeldOK(b)'
  <2>1. /\ job'[b].pc = "save" /\ job'[b].req = job[b].req /\ job'[b].left \subseteq job[b].left
        /\ n \in Namespaces /\ Decided(b, n).exists = job[b].rows[n].exists
        /\ \A m \in Namespaces : job'[b].rows[m] = IF m = n THEN Decided(b, n) ELSE job[b].rows[m]
    BY <1>4, SaveEffect
  <2>2. \A m \in Namespaces : job'[b].rows[m].exists = job[b].rows[m].exists
    BY <2>1
  <2>3. job[b].req \subseteq Requests /\ job[b].left \subseteq Namespaces
    BY <1>0 DEF Jobs
  <2> QED BY <1>0, <1>1, <2>1, <2>2, <2>3 DEF HeldOK
<1>5. CASE OtherStep(b)
  <2>1. \/ Leaves(b) \/ GoesOn(b)
        \/ /\ job[b].pc = "next" /\ job'[b].pc = "fetch"
           /\ job'[b].rows = job[b].rows /\ job'[b].left = job[b].left
    BY <1>5, OtherEffects DEF OtherStep
  <2>2. job[b].req \subseteq Requests
    BY <1>0 DEF Jobs
  <2>3. CASE Leaves(b)
    BY <2>3 DEF Leaves, HeldOK
  <2>4. CASE GoesOn(b)
    BY <1>0, <1>1, <2>2, <2>4 DEF GoesOn, HeldOK
  <2>5. CASE /\ job[b].pc = "next" /\ job'[b].pc = "fetch"
             /\ job'[b].rows = job[b].rows /\ job'[b].left = job[b].left
    BY <1>0, <2>5 DEF HeldOK
  <2> QED BY <2>1, <2>3, <2>4, <2>5
<1> QED BY <1>2, <1>3, <1>4, <1>5, OneHandlerStep
-----------------------------------------------------------------------------
(* All rows are there *)

\* Once nothing is to be inserted for a request any more its rows are what they were.
LEMMA RowsComplete ==
  ASSUME IInv, HoldingsOK, [Next]_vars, NEW r \in Requests, inserting[r] = {}
  PROVE  Filed(r)' = Filed(r)
<1>1. \A n \in Namespaces : rows'[r][n].exists <=> rows[r][n].exists
  BY RowsStay
<1> QED BY <1>1 DEF Filed

\* Whoever decides after SubmitRequest is done gets all the rows.
LEMMA CopyCompleteStep ==
  ASSUME IInv, FilingOK, HoldingsOK, CompleteOK, [Next]_vars, spent'.early = 0,
         NEW b \in Approvers
  PROVE  CopyIsComplete(b)'
<1>0. /\ TypeOK /\ job[b] \in Jobs /\ Handled(b) \subseteq Requests
      /\ CopyIsComplete(b) /\ shown[b] \subseteq Requests
  BY Counted DEF IInv, TypeOK, Jobs, CompleteOK, Handled
<1>1. ASSUME NEW r \in Handled(b)' PROVE inserting'[r] = {}
  <2>1. CASE r \in Handled(b)
    <3>1. inserting[r] = {} /\ ~Fresh(r)
      BY <1>0, <2>1 DEF CopyIsComplete, FilingOK
    <3>2. \A ns : ~SubmitRequest(r, ns)
      BY <3>1 DEF SubmitRequest, Fresh
    <3> QED BY <1>0, <2>1, <3>1, <3>2, InsertingStep
  <2>2. ASSUME NEW batch \in SUBSET shown[b], NEW status \in Decisions,
               ApproveOrRejectRequests(b, batch, status), r \in batch
        PROVE  inserting'[r] = {}
    <3>1. spent.early \in Nat
      BY <1>0 DEF TypeOK
    <3>2. \A q \in batch : inserting[q] = {}
      BY <1>0, <2>2, <3>1, CallCounted
    <3> QED BY <2>2, <3>2 DEF ApproveOrRejectRequests
  <2> QED BY <1>1, <2>1, <2>2, HandledStep
<1>2. ASSUME job'[b].pc \in {"save", "create"}, NEW r \in job'[b].req, NEW n \in Namespaces,
             rows'[r][n].exists
      PROVE  job'[b].rows[n].exists
  <2>1. ASSUME r \in job[b].req PROVE rows[r][n].exists
    <3>1. r \in Requests /\ inserting[r] = {}
      BY <1>0, <2>1 DEF Handled, CopyIsComplete
    <3> QED BY <1>2, <3>1, RowsStay
  <2>2. CASE job'[b] = job[b]
    BY <1>0, <1>2, <2>1, <2>2 DEF CopyIsComplete
  <2>3. CASE FetchNamespaces(b)
    <3>1. rows' = rows /\ job'[b].req = job[b].req /\ \A q \in job[b].req : job'[b].rows = rows[q]
      BY <2>3, FetchEffect
    <3> QED BY <1>2, <3>1
  <2>4. ASSUME NEW m \in job[b].left, SaveNamespace(b, m) PROVE job'[b].rows[n].exists
    <3>1. /\ job[b].pc = "save" /\ job'[b].req = job[b].req /\ m \in Namespaces
          /\ Decided(b, m).exists = job[b].rows[m].exists
          /\ job'[b].rows[n] = IF n = m THEN Decided(b, m) ELSE job[b].rows[n]
      BY <2>4, SaveEffect
    <3>2. job[b].rows[n].exists
      BY <1>0, <1>2, <2>1, <3>1 DEF CopyIsComplete
    <3> QED BY <3>1, <3>2
  <2>5. CASE OtherStep(b)
    <3>1. GoesOn(b)
      BY <1>2, <2>5, OtherEffects DEF OtherStep, Leaves
    <3> QED BY <1>0, <1>2, <2>1, <3>1 DEF GoesOn, CopyIsComplete
  <2> QED BY <2>2, <2>3, <2>4, <2>5, OneHandlerStep
<1> QED BY <1>1, <1>2 DEF CopyIsComplete

\* What is created is created for all the rows.
LEMMA ObjectCompleteStep ==
  ASSUME IInv, FilingOK, HoldingsOK, CompleteOK, [Next]_vars, spent'.early = 0,
         NEW r \in Requests
  PROVE  ObjectIsComplete(r)'
<1>0. TypeOK /\ ObjectIsComplete(r) /\ \A a \in Approvers : CopyIsComplete(a) /\ HeldOK(a)
  BY Counted DEF IInv, CompleteOK, HoldingsOK
<1>1. ASSUME inserting[r] = {}, made'[r] = Filed(r), ~Fresh(r) PROVE ObjectIsComplete(r)'
  <2>1. \A ns : ~SubmitRequest(r, ns)
    BY <1>1 DEF SubmitRequest, Fresh
  <2>2. inserting'[r] = {}
    BY <1>0, <1>1, <2>1, InsertingStep
  <2> QED BY <1>1, <2>2, RowsComplete DEF ObjectIsComplete
<1>2. ASSUME object'[r].phase # "none" => object[r].phase # "none", made'[r] = made[r]
      PROVE  ObjectIsComplete(r)'
  <2> SUFFICES ASSUME object[r].phase # "none" \/ made[r] # {} PROVE ObjectIsComplete(r)'
    BY <1>2 DEF ObjectIsComplete
  <2>1. inserting[r] = {} /\ made[r] = Filed(r)
    BY <1>0 DEF ObjectIsComplete
  <2>2. ASSUME NEW ns, SubmitRequest(r, ns) PROVE FALSE
    BY <2>1, <2>2 DEF SubmitRequest, NoObject, Filed, NoNamespaceRows, NoNamespaceRow
  <2>3. inserting'[r] = {}
    BY <1>0, <2>1, <2>2, InsertingStep
  <2> QED BY <1>2, <2>1, <2>3, RowsComplete DEF ObjectIsComplete
<1>3. ASSUME NEW a \in Approvers, CreateK8sObject(a) PROVE ObjectIsComplete(r)'
  <2>1. PICK q \in job[a].req :
          /\ object' = [object EXCEPT ![q] = [phase |-> "new", namespaces |-> Fetched(a)]]
          /\ made' = [made EXCEPT ![q] = Fetched(a)]
    BY <1>3 DEF CreateK8sObject
  <2>2. CASE q = r
    <3>1. r \in Handled(a) /\ job[a].pc = "create"
      BY <1>3, <2>1, <2>2 DEF CreateK8sObject, At, Handled
    <3>2. inserting[r] = {} /\ ~Fresh(r)
      BY <1>0, <3>1 DEF CopyIsComplete, FilingOK
    <3>3. Fetched(a) = Filed(r)
      BY <1>0, <2>1, <2>2, <3>1 DEF CopyIsComplete, HeldOK, Fetched, Filed
    <3>4. made'[r] = Filed(r)
      BY <1>0, <2>1, <2>2, <3>3 DEF TypeOK
    <3> QED BY <1>1, <3>2, <3>4
  <2>3. CASE q # r
    <3>1. object'[r] = object[r] /\ made'[r] = made[r]
      BY <1>0, <2>1, <2>3 DEF TypeOK
    <3> QED BY <1>2, <3>1
  <2> QED BY <2>2, <2>3
<1>4. ASSUME NEW q \in Requests, OperatorMoves(q) \/ OperatorDeletes(q) PROVE ObjectIsComplete(r)'
  <2>1. made' = made /\ (object'[r].phase # "none" => object[r].phase # "none")
    BY <1>0, <1>4 DEF OperatorMoves, OperatorDeletes, NoObject, TypeOK
  <2> QED BY <1>2, <2>1
<1>5. CASE UNCHANGED <<object, made>>
  BY <1>2, <1>5
<1>6. \/ UNCHANGED <<object, made>>
      \/ \E a \in Approvers : CreateK8sObject(a)
      \/ \E q \in Requests : OperatorMoves(q) \/ OperatorDeletes(q)
  BY DEF Next, Submission, Cluster, User, ProcessApproval, vars, SubmitRequest, InsertNamespace,
     InsertNamespaceFails, GetPendingApprovals, ApproveOrRejectRequests, NextRequest,
     HandlerFails, FetchNamespaces, SaveNamespace, NamespacesSaved, CreateK8sObjectFails,
     FetchRequest, UpdateRequest, Expire, CleanExpiredRequests, K8sCallback, K8sCallbackFails
<1> QED BY <1>3, <1>4, <1>5, <1>6

\* Unless somebody decided early nobody misses a row.
LEMMA CompleteStep ==
  ASSUME IInv, FilingOK, HoldingsOK, CompleteOK, [Next]_vars
  PROVE  CompleteOK'
BY CopyCompleteStep, ObjectCompleteStep DEF CompleteOK
-----------------------------------------------------------------------------
(* One call at a time *)

\* A handler that was idle was called.
LEMMA Called ==
  ASSUME IInv, [Next]_vars, NEW b \in Approvers, At(b, "idle"), job'[b].pc # "idle"
  PROVE  \E batch, status : ApproveOrRejectRequests(b, batch, status)
<1>1. job'[b] # job[b] /\ ~FetchNamespaces(b) /\ \A n \in job[b].left : ~SaveNamespace(b, n)
  BY DEF At, FetchNamespaces, SaveNamespace
<1>2. OtherStep(b)
  BY <1>1, OneHandlerStep
<1> QED
  BY <1>2 DEF OtherStep, NextRequest, HandlerFails, NamespacesSaved, CreateK8sObject,
     CreateK8sObjectFails, FetchRequest, UpdateRequest, At

\* Until an overlap is counted, one handler at most is at work.
LEMMA AloneStep ==
  ASSUME IInv, SerialOK, [Next]_vars, spent'.overlaps = 0
  PROVE  Alone'
<1> SUFFICES ASSUME NEW a \in Approvers, NEW b \in Approvers, a # b,
                    job'[a].pc # "idle", job'[b].pc # "idle"
             PROVE  FALSE
  BY DEF Alone, At
<1>0. TypeOK /\ Alone
  BY Counted DEF IInv, SerialOK
<1>1. ASSUME NEW c \in Approvers, NEW d \in Approvers, c # d,
             NEW batch, NEW status, ApproveOrRejectRequests(c, batch, status)
      PROVE  job'[d].pc = "idle"
  <2>1. \A e \in Approvers : At(e, "idle")
    <3>1. spent.overlaps \in Nat
      BY <1>0 DEF TypeOK
    <3>2. CASE ~\A e \in Approvers : At(e, "idle")
      <4>1. spent'.overlaps = spent.overlaps + 1
        BY <1>0, <1>1, <3>2, CallCounted
      <4> QED BY <3>1, <4>1
    <3> QED BY <3>2
  <2>2. job'[d] = job[d]
    BY <1>0, <1>1, OneMoves DEF ApproveOrRejectRequests
  <2> QED BY <2>1, <2>2 DEF At
<1>2. At(a, "idle") \/ At(b, "idle")
  BY <1>0 DEF Alone
<1> QED BY <1>1, <1>2, Called

\* The copy of a handler that is alone agrees with the table: its own writes go to
\* both, and SubmitRequest only adds rows the copy does not have.
LEMMA CopyStep ==
  ASSUME IInv, FilingOK, HoldingsOK, SerialOK, [Next]_vars, spent'.overlaps = 0,
         NEW b \in Approvers
  PROVE  CopyIsCurrent(b)'
<1>0. TypeOK /\ Alone /\ CopyIsCurrent(b) /\ HeldOK(b) /\ job[b] \in Jobs /\ job[b].req \subseteq Requests
  BY Counted DEF IInv, TypeOK, SerialOK, HoldingsOK, Jobs
<1>1. CASE rows' = rows /\ job'[b] = job[b]
  BY <1>0, <1>1 DEF CopyIsCurrent
<1>2. ASSUME NEW r \in Requests, NEW n \in inserting[r], InsertNamespace(r, n)
      PROVE  CopyIsCurrent(b)'
  <2>1. job' = job /\ \A q \in Requests, m \in Namespaces : q # r \/ m # n => rows'[q][m] = rows[q][m]
    BY <1>2, InsertEffect
  <2>2. r \in job[b].req /\ n \in Namespaces => ~job[b].rows[n].exists
    BY <1>0 DEF FilingOK, HeldOK
  <2> QED BY <1>0, <2>1, <2>2 DEF CopyIsCurrent
<1>3. CASE FetchNamespaces(b)
  <2>1. rows' = rows /\ job'[b].req = job[b].req /\ \A r \in job[b].req : job'[b].rows = rows[r]
    BY <1>3, FetchEffect
  <2> QED BY <2>1 DEF CopyIsCurrent
<1>4. ASSUME NEW n \in job[b].left, SaveNamespace(b, n) PROVE CopyIsCurrent(b)'
  <2>1. /\ job[b].pc = "save" /\ job'[b].req = job[b].req
        /\ \A m \in Namespaces : job'[b].rows[m] = IF m = n THEN Decided(b, n) ELSE job[b].rows[m]
        /\ \A q \in Requests, m \in Namespaces :
             rows'[q][m] = IF q \in job[b].req /\ m = n THEN Decided(b, n) ELSE rows[q][m]
    BY <1>4, SaveEffect
  <2> QED BY <1>0, <2>1 DEF CopyIsCurrent
<1>5. ASSUME NEW a \in Approvers, a # b, NEW n \in job[a].left, SaveNamespace(a, n)
      PROVE  CopyIsCurrent(b)'
  <2>1. job[a].pc = "save" /\ job'[b] = job[b]
    BY <1>5, SaveEffect
  <2>2. job[b].pc = "idle"
    BY <1>0, <1>5, <2>1 DEF Alone, At
  <2> QED BY <2>1, <2>2 DEF CopyIsCurrent
<1>6. CASE OtherStep(b) /\ rows' = rows
  <2>1. \/ Leaves(b) \/ GoesOn(b) \/ job'[b].pc = "fetch"
    BY <1>6, OtherEffects DEF OtherStep
  <2>2. CASE Leaves(b) \/ job'[b].pc = "fetch"
    BY <2>2 DEF Leaves, CopyIsCurrent
  <2>3. CASE GoesOn(b)
    BY <1>0, <1>6, <2>3 DEF GoesOn, CopyIsCurrent
  <2> QED BY <2>1, <2>2, <2>3
<1>7. ASSUME NEW a \in Approvers, a # b, FetchNamespaces(a) \/ (OtherStep(a) /\ rows' = rows)
      PROVE  rows' = rows /\ job'[b] = job[b]
  BY <1>7, FetchEffect, OtherEffects DEF OtherStep
<1> QED BY <1>1, <1>2, <1>3, <1>4, <1>5, <1>6, <1>7, Steps

\* Serially, one handler is at work and its copy is current.
LEMMA SerialStep ==
  ASSUME IInv, FilingOK, HoldingsOK, SerialOK, [Next]_vars
  PROVE  SerialOK'
BY AloneStep, CopyStep DEF SerialOK
-----------------------------------------------------------------------------
(* No approval is missed *)

\* A JitRequest that was created for rows is not created again for none.
LEMMA MadeStays ==
  ASSUME IInv, HoldingsOK, CompleteOK, CompleteOK', [Next]_vars, spent'.early = 0,
         NEW r \in Requests, made[r] # {}
  PROVE  made'[r] # {}
<1>0. TypeOK /\ ObjectIsComplete(r) /\ ObjectIsComplete(r)'
  BY Counted DEF IInv, CompleteOK
<1>1. CASE made'[r] = made[r]
  BY <1>1
<1>2. ASSUME NEW a \in Approvers, CreateK8sObject(a), made'[r] # made[r] PROVE made'[r] # {}
  <2>1. object'[r].phase # "none"
    BY <1>0, <1>2 DEF CreateK8sObject, TypeOK
  <2>2. made[r] = Filed(r) /\ made'[r] = Filed(r)' /\ Filed(r)' = Filed(r)
    BY <1>0, <2>1, RowsComplete DEF ObjectIsComplete
  <2> QED BY <2>2
<1>3. made' = made \/ \E a \in Approvers : CreateK8sObject(a)
  BY DEF Next, Submission, Cluster, User, ProcessApproval, vars, SubmitRequest, InsertNamespace,
     InsertNamespaceFails, GetPendingApprovals, ApproveOrRejectRequests, NextRequest, HandlerFails,
     FetchNamespaces, SaveNamespace, NamespacesSaved, CreateK8sObjectFails, FetchRequest,
     UpdateRequest, Expire, CleanExpiredRequests, OperatorMoves, OperatorDeletes, K8sCallback,
     K8sCallbackFails
<1> QED BY <1>1, <1>2, <1>3

\* A handler on its way to create a JitRequest gets there, unless something fails.
LEMMA UnderwayStep ==
  ASSUME IInv, HoldingsOK, CompleteOK, CompleteOK', SerialOK, [Next]_vars,
         spent.overlaps = 0, spent'.early = 0, spent'.failures = 0,
         NEW a \in Approvers, OtherStep(a), NEW r \in job[a].req, FullyApproved(r),
         At(a, "create") \/ (At(a, "save") /\ job[a].status = "Approved")
  PROVE  made'[r] # {} \/ Underway(r)'
<1>0. /\ TypeOK /\ job[a] \in Jobs /\ r \in Requests /\ \A q \in job[a].req : q = r
      /\ CopyIsCurrent(a) /\ ~Fails /\ spent.early = 0
  BY Counted DEF IInv, TypeOK, JobsOK, JobOK, Jobs, SerialOK
<1>A. ObjectIsComplete(r) /\ ObjectIsComplete(r)' /\ Filed(r) # {}
  BY <1>0 DEF CompleteOK, FullyApproved, Filed
<1>1. CASE NamespacesSaved(a)
  <2>1. job[a].status = "Approved" /\ job[a].pc = "save"
    BY <1>1 DEF NamespacesSaved, At
  <2>2. AllApproved(a)
    BY <1>0, <2>1 DEF AllApproved, Fetched, CopyIsCurrent, FullyApproved
  <2> DEFINE j == [job[a] EXCEPT !.pc = "create"]
  <2>3. job'[a] = j
    BY <1>0, <1>1, <2>1, <2>2, OneMoves DEF NamespacesSaved
  <2>4. j.pc = "create" /\ j.req = job[a].req
    BY <1>0 DEF Jobs
  <2> HIDE DEF j
  <2> QED BY <2>3, <2>4 DEF Underway, At
<1>2. CASE CreateK8sObject(a)
  <2>1. object'[r].phase # "none" /\ rows' = rows
    BY <1>0, <1>2 DEF CreateK8sObject, TypeOK
  <2>2. Filed(r)' = Filed(r)
    BY <2>1 DEF Filed
  <2> QED BY <1>A, <2>1, <2>2 DEF ObjectIsComplete
<1>3. CASE CreateK8sObjectFails(a)
  <2>1. object[r].phase # "none" /\ made' = made
    BY <1>0, <1>3 DEF CreateK8sObjectFails
  <2> QED BY <1>A, <2>1 DEF ObjectIsComplete
<1>4. CASE HandlerFails(a)
  BY <1>0, <1>4 DEF HandlerFails
<1> QED
  BY <1>1, <1>2, <1>3, <1>4 DEF OtherStep, ApproveOrRejectRequests, NextRequest, FetchRequest,
     UpdateRequest, At

\* When the last row is approved, the handler that does it is on its way.
LEMMA NoneMissedStep ==
  ASSUME IInv, FilingOK, HoldingsOK, CompleteOK, CompleteOK', SerialOK, NoneMissed, [Next]_vars
  PROVE  NoneMissed'
<1> SUFFICES ASSUME spent'.overlaps = 0, spent'.early = 0, spent'.failures = 0,
                    NEW r \in Requests, FullyApproved(r)', made[r] = {}
             PROVE  made'[r] # {} \/ Underway(r)'
  BY MadeStays DEF NoneMissed
<1>0. TypeOK /\ spent.overlaps = 0 /\ spent.early = 0 /\ spent.failures = 0
      /\ (FullyApproved(r) => Underway(r))
  BY Counted DEF IInv, NoneMissed
<1>1. ASSUME \A n \in Namespaces : rows'[r][n] = rows[r][n],
             \A a \in Approvers : r \in job[a].req /\ job[a].pc \in {"save", "create"} => job'[a] = job[a]
      PROVE  Underway(r)'
  <2>1. FullyApproved(r)
    BY <1>1 DEF FullyApproved
  <2> QED BY <1>0, <1>1, <2>1 DEF Underway, At
<1>2. CASE rows' = rows /\ job' = job
  BY <1>1, <1>2
<1>3. ASSUME NEW q \in Requests, NEW n \in inserting[q], InsertNamespace(q, n)
      PROVE  Underway(r)'
  <2>1. CASE q = r
    BY <1>3, <2>1, InsertEffect DEF FullyApproved
  <2>2. CASE q # r
    <3>1. job' = job /\ \A m \in Namespaces : rows'[r][m] = rows[r][m]
      BY <1>3, <2>2, InsertEffect
    <3> QED BY <1>1, <3>1
  <2> QED BY <2>1, <2>2
<1>4. ASSUME NEW a \in Approvers, FetchNamespaces(a)
      PROVE  Underway(r)'
  <2>1. rows' = rows /\ job[a].pc = "fetch" /\ \A b \in Approvers : b # a => job'[b] = job[b]
    BY <1>4, FetchEffect
  <2> QED BY <1>1, <2>1
<1>5. ASSUME NEW a \in Approvers, NEW n \in job[a].left, SaveNamespace(a, n)
      PROVE  Underway(r)'
  <2>1. /\ job'[a].pc = "save" /\ job'[a].req = job[a].req /\ job'[a].status = job[a].status
        /\ n \in Namespaces /\ Decided(a, n).exists = job[a].rows[n].exists /\ job[a].pc = "save"
        /\ job[a].status = "Rejected" => ~Decided(a, n).approved
        /\ job[a].status = "Other" => Decided(a, n) = job[a].rows[n]
        /\ \A b \in Approvers : b # a => job'[b] = job[b]
        /\ \A m \in Namespaces :
             rows'[r][m] = IF r \in job[a].req /\ m = n THEN Decided(a, n) ELSE rows[r][m]
    BY <1>5, SaveEffect
  <2>2. CASE r \in job[a].req /\ job[a].status = "Approved"
    BY <2>1, <2>2 DEF Underway, At
  <2>3. CASE r \in job[a].req /\ job[a].status = "Rejected"
    <3>1. rows'[r][n].exists /\ ~rows'[r][n].approved
      BY <2>1, <2>3 DEF HoldingsOK, HeldOK
    <3> QED BY <2>1, <3>1 DEF FullyApproved
  <2>4. CASE r \in job[a].req /\ job[a].status = "Other"
    <3>1. Alone /\ job[a].rows[n].exists /\ rows[r][n] = job[a].rows[n]
      BY <1>0, <2>1, <2>4 DEF SerialOK, HoldingsOK, HeldOK, CopyIsCurrent
    <3>2. \A m \in Namespaces : rows'[r][m] = rows[r][m]
      BY <2>1, <2>4, <3>1
    <3>3. FullyApproved(r)
      BY <3>2 DEF FullyApproved
    <3>4. ~Underway(r)
      BY <2>1, <2>4, <3>1 DEF Underway, Alone, At
    <3> QED BY <1>0, <3>3, <3>4
  <2>5. CASE r \notin job[a].req
    BY <1>1, <2>1, <2>5
  <2>6. job[a].status \in Decisions
    BY <1>0 DEF TypeOK, Jobs
  <2> QED BY <2>2, <2>3, <2>4, <2>5, <2>6 DEF Decisions
<1>6. ASSUME NEW a \in Approvers, OtherStep(a), rows' = rows
      PROVE  made'[r] # {} \/ Underway(r)'
  <2>1. \A b \in Approvers : b # a => job'[b] = job[b]
    BY <1>6, OtherEffects DEF OtherStep
  <2>2. FullyApproved(r)
    BY <1>6 DEF FullyApproved
  <2>3. CASE r \in job[a].req /\ (At(a, "create") \/ (At(a, "save") /\ job[a].status = "Approved"))
    BY <1>0, <1>6, <2>2, <2>3, UnderwayStep
  <2>4. CASE ~(r \in job[a].req /\ (At(a, "create") \/ (At(a, "save") /\ job[a].status = "Approved")))
    BY <1>0, <2>1, <2>2, <2>4 DEF Underway, At
  <2> QED BY <2>3, <2>4
<1> QED BY <1>2, <1>3, <1>4, <1>5, <1>6, Steps
-----------------------------------------------------------------------------
(* Theorems *)

\* Initially nothing is filed, approved or in flight.
LEMMA InitSerial == Init => SInv
<1> SUFFICES ASSUME Init PROVE SInv
  OBVIOUS
<1>1. IInv
  BY InitOK
<1>2. /\ NoJob.pc = "idle" /\ NoJob.left = {} /\ NoJob.req = {} /\ \A n \in Namespaces : ~NoJob.rows[n].exists
      /\ \A n \in Namespaces : ~NoNamespaceRows[n].exists
      /\ NoObject.phase = "none"
  BY DEF NoJob, NoNamespaceRows, NoNamespaceRow, NoObject
<1>3. FilingOK /\ HoldingsOK
  <2>1. NoJob.batch = {}
    BY DEF NoJob
  <2> QED BY <1>2, <2>1 DEF Init, FilingOK, HoldingsOK, HeldOK, Handled
<1>4. SerialOK
  BY <1>2 DEF Init, SerialOK, Alone, CopyIsCurrent, At
<1>5. NoneMissed
  BY <1>2 DEF Init, NoneMissed, FullyApproved
<1>6. CompleteOK
  <2>1. NoJob.batch = {}
    BY DEF NoJob
  <2> QED BY <1>2, <2>1 DEF Init, CompleteOK, CopyIsComplete, ObjectIsComplete, Handled
<1> QED BY <1>1, <1>3, <1>4, <1>5, <1>6 DEF SInv

\* The invariant is inductive: a handler that is alone knows the rows, and the last
\* approval is followed by the JitRequest.
THEOREM SerialInductive == Spec => []SInv
<1>1. SInv /\ [Next]_vars => SInv'
  <2> SUFFICES ASSUME SInv, [Next]_vars PROVE SInv'
    OBVIOUS
  <2>1. CompleteOK'
    BY CompleteStep DEF SInv
  <2> QED BY <2>1, InvariantStep, FilingStep, HoldingsStep, SerialStep, NoneMissedStep DEF SInv
<1> QED BY InitSerial, <1>1, PTL DEF Spec

\* When calls come one after the other and after the rows, and nothing fails,
\* processApproval creates the JitRequest of every request all of whose rows are
\* approved, for all of these rows.
THEOREM SerialApprovalCreates == Spec => []SerialApprovalIsCreated
<1>1. SInv => SerialApprovalIsCreated
  <2> SUFFICES ASSUME SInv, spent.overlaps = 0, spent.early = 0, spent.failures = 0,
                      NEW r \in Requests, RowsApproved(r)
               PROVE  made[r] = Filed(r)
    BY DEF SerialApprovalIsCreated, AllApprovedIsCreated
  <2>1. FullyApproved(r)
    BY DEF RowsApproved, FullyApproved, Filed
  <2>2. ~Underway(r)
    BY DEF RowsApproved, Settled, Underway
  <2>3. made[r] # {}
    BY <2>1, <2>2 DEF SInv, NoneMissed
  <2> QED BY <2>3 DEF SInv, CompleteOK, ObjectIsComplete
<1> QED BY SerialInductive, <1>1, PTL

\* ... and creates it only while all rows it was made for are approved.
THEOREM CreatedWhileApproved == Spec => CreatedOnlyWhileApproved
<1> DEFINE Now(r) == object[r].phase = "none" /\ object'[r].phase = "new" =>
                       spent.overlaps > 0 \/ \A n \in object'[r].namespaces : rows[r][n].approved
<1>1. ASSUME SInv, Next, NEW r \in Requests PROVE Now(r)
  <2>0. TypeOK
    BY <1>1 DEF SInv, IInv
  <2>1. ASSUME NEW a \in Approvers, CreateK8sObject(a) PROVE Now(r)
    <3>1. PICK q \in job[a].req :
            object' = [object EXCEPT ![q] = [phase |-> "new", namespaces |-> Fetched(a)]]
      BY <2>1 DEF CreateK8sObject
    <3>2. r # q => object'[r] = object[r]
      BY <2>0, <3>1 DEF TypeOK
    <3>3. r = q => object'[r].namespaces = Fetched(a)
      BY <1>1, <2>0, <3>1 DEF TypeOK
    <3>4. spent.overlaps \in Nat /\ (spent.overlaps = 0 => CopyIsCurrent(a))
      BY <1>1, <2>0 DEF SInv, SerialOK, TypeOK
    <3>5. job[a].pc = "create" /\ \A n \in Fetched(a) : job[a].rows[n].approved /\ n \in Namespaces
                                                     /\ job[a].rows[n].exists
      BY <1>1, <2>1 DEF CreateK8sObject, At, Fetched, SInv, IInv, JobsOK, JobOK
    <3>6. CASE r = q /\ spent.overlaps = 0
      BY <3>1, <3>3, <3>4, <3>5, <3>6 DEF CopyIsCurrent
    <3> QED BY <3>2, <3>4, <3>6
  <2>2. ASSUME NEW q \in Requests, OperatorMoves(q) \/ OperatorDeletes(q) PROVE Now(r)
    BY <1>1, <2>0, <2>2 DEF OperatorMoves, OperatorDeletes, NoObject, TypeOK
  <2>3. \/ object' = object
        \/ \E a \in Approvers : CreateK8sObject(a)
        \/ \E q \in Requests : OperatorMoves(q) \/ OperatorDeletes(q)
    BY <1>1 DEF Next, Submission, Cluster, User, ProcessApproval, vars, SubmitRequest,
       InsertNamespace, InsertNamespaceFails, GetPendingApprovals, ApproveOrRejectRequests,
       NextRequest, HandlerFails, FetchNamespaces, SaveNamespace, NamespacesSaved,
       CreateK8sObjectFails, FetchRequest, UpdateRequest, Expire, CleanExpiredRequests,
       K8sCallback, K8sCallbackFails
  <2> QED BY <2>1, <2>2, <2>3
<1>2. SInv /\ [Next]_vars => [\A r \in Requests : Now(r)]_vars
  BY <1>1
<1> QED BY SerialInductive, <1>2, PTL DEF Spec, CreatedOnlyWhileApproved
=============================================================================
