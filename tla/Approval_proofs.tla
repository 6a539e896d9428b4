--------------------------- MODULE Approval_proofs ---------------------------
(***************************************************************************)
(* Safety of Approval for any number of requests, namespaces, approvers    *)
(* and handlers in flight.  The argument: a row is approved only when      *)
(* somebody who may decide on it approved the request, and that stays true *)
(* of every copy a handler works on, however old it is, because consents   *)
(* are never withdrawn (Agreed).  What a handler creates is taken from a   *)
(* copy all rows of which are approved (JobOK).                            *)
(***************************************************************************)
EXTENDS Approval, TLAPS

\* A row of r, in the table or copied from it, is approved with the consent of
\* somebody who may decide on it.
Agreed(r, n, row, cs) == row.approved => \E a \in Approvers : <<r, a>> \in cs /\ MayDecide(a, n)

\* A handler decides for one request at a time, on rows its user may decide on, and
\* approves with the user's consent.
JobOK(a, j, cs) ==
  /\ \A r, q \in j.req : r = q
  /\ \A n \in j.left : MayDecide(a, n)
  /\ j.status = "Approved" => \A r \in j.req \union j.batch : <<r, a>> \in cs
  /\ \A r \in j.req, n \in Namespaces : Agreed(r, n, j.rows[n], cs)
  /\ j.pc \in {"next", "fetch"} => \A n \in Namespaces : ~j.rows[n].approved
  /\ j.pc = "create" => \A n \in Namespaces : j.rows[n].exists => j.rows[n].approved

RowsOK == \A r \in Requests, n \in Namespaces : Agreed(r, n, rows[r][n], consents)
JobsOK == \A a \in Approvers : JobOK(a, job[a], consents)

\* A callback on its way is that of a status the operator has written.
CallsOK == \A r \in calls : object[r].phase \in {"Pending", "Succeeded", "Rejected"}

\* The inductive invariant.
IInv == TypeOK /\ RowsOK /\ JobsOK /\ NoGrantWithoutConsent /\ CallsOK
-----------------------------------------------------------------------------
(* What stays as it is *)

\* A missing row and a row just inserted are namespace rows, and neither is approved.
LEMMA RowTypes ==
  /\ NoNamespaceRow \in RequestNamespace /\ ~NoNamespaceRow.approved
  /\ [NoNamespaceRow EXCEPT !.exists = TRUE] \in RequestNamespace
  /\ ~[NoNamespaceRow EXCEPT !.exists = TRUE].approved
  /\ NoNamespaceRows \in [Namespaces -> RequestNamespace]
  /\ \A n \in Namespaces : ~NoNamespaceRows[n].approved
  BY DEF NoNamespaceRow, NoNamespaceRows, RequestNamespace

\* A handler that is idle, or between two requests, holds nothing that could be wrong.
LEMMA NoJobOK ==
  ASSUME NEW a, NEW cs
  PROVE  NoJob \in Jobs /\ JobOK(a, NoJob, cs)
  BY RowTypes DEF NoJob, Jobs, PCs, Decisions, JobOK

\* A consent is not withdrawn: handlers that do not move stay as good as they were.
LEMMA JobsKept ==
  ASSUME IInv, job' = job, consents \subseteq consents'
  PROVE  JobsOK'
<1> SUFFICES ASSUME NEW a \in Approvers PROVE JobOK(a, job[a], consents')
  BY DEF JobsOK
<1> QED BY DEF IInv, JobsOK, JobOK, Agreed

\* One handler moves.
LEMMA JobMoved ==
  ASSUME IInv, NEW a \in Approvers, NEW j \in Jobs, Step(a, j),
         JobOK(a, j, consents'), consents \subseteq consents'
  PROVE  job' \in [Approvers -> Jobs] /\ JobsOK'
<1>1. job' \in [Approvers -> Jobs]
      /\ \A b \in Approvers : job'[b] = IF b = a THEN j ELSE job[b]
  BY DEF IInv, TypeOK, Step
<1>2. ASSUME NEW b \in Approvers, b # a PROVE JobOK(b, job[b], consents')
  BY DEF IInv, JobsOK, JobOK, Agreed
<1> QED BY <1>1, <1>2 DEF JobsOK

\* Rows that are not written stay agreed to: a consent is not withdrawn.
LEMMA RowsKept ==
  ASSUME IInv, rows' = rows, consents \subseteq consents'
  PROVE  RowsOK'
  BY DEF IInv, RowsOK, Agreed

\* A grant that is not made anew keeps the consents it was made with.
LEMMA GrantsKept ==
  ASSUME IInv, \A r \in Requests : object'[r].namespaces \subseteq object[r].namespaces,
         consents \subseteq consents'
  PROVE  NoGrantWithoutConsent'
  BY DEF IInv, NoGrantWithoutConsent, HasConsent

\* A handler that returns from processApproval.
LEMMA ReturnOK ==
  ASSUME IInv, NEW a \in Approvers, Return(a), consents' = consents
  PROVE  job' \in [Approvers -> Jobs] /\ JobsOK'
<1> DEFINE j == [job[a] EXCEPT !.pc = "next", !.req = {}, !.rows = NoNamespaceRows,
                               !.left = {}]
<1>1. job[a] \in Jobs /\ JobOK(a, job[a], consents)
  BY DEF IInv, TypeOK, JobsOK
<1>2. j \in Jobs
  BY <1>1, RowTypes DEF Jobs, PCs
<1>3. JobOK(a, j, consents)
  BY <1>1, RowTypes DEF Jobs, JobOK
<1> HIDE DEF j
<1> QED BY <1>2, <1>3, JobMoved DEF Return, j
-----------------------------------------------------------------------------
(* The inductive invariant *)

\* No request, no row, no handler: nothing to be wrong about.
LEMMA InitOK == Init => IInv
<1> SUFFICES ASSUME Init PROVE IInv
  OBVIOUS
<1>1. \A a \in Approvers : NoJob \in Jobs /\ JobOK(a, NoJob, consents)
  BY NoJobOK
<1>2. TypeOK
  <2>1. requests \in [Requests -> RequestData]
    BY DEF Init, RequestData, NoRow, Statuses
  <2>2. rows \in [Requests -> [Namespaces -> RequestNamespace]]
    BY RowTypes DEF Init
  <2>3. job \in [Approvers -> Jobs]
    BY <1>1 DEF Init
  <2>4. object \in [Requests -> [phase : Phases, namespaces : SUBSET Namespaces]]
    BY DEF Init, NoObject, Phases
  <2>5. spent \in [decisions : Nat, overlaps : Nat, early : Nat, failures : Nat]
    BY DEF Init
  <2> QED BY <2>1, <2>2, <2>3, <2>4, <2>5 DEF Init, TypeOK
<1>3. RowsOK
  BY RowTypes DEF Init, RowsOK, Agreed
<1>4. JobsOK
  BY <1>1 DEF Init, JobsOK
<1>5. NoGrantWithoutConsent /\ CallsOK
  BY DEF Init, NoGrantWithoutConsent, NoObject, CallsOK
<1> QED BY <1>2, <1>3, <1>4, <1>5 DEF IInv

\* A failure is counted.
LEMMA FailsType ==
  ASSUME TypeOK, Fails
  PROVE  spent' \in [decisions : Nat, overlaps : Nat, early : Nat, failures : Nat]
  BY DEF TypeOK, Fails

\* A request row may be written with any status of its own, and be removed.
LEMMA RowWritten ==
  ASSUME TypeOK, NEW r \in Requests, NEW row \in RequestData,
         requests' = [requests EXCEPT ![r] = row]
  PROVE  requests' \in [Requests -> RequestData]
  BY DEF TypeOK

\* Filing a request: its rows are not approved.
LEMMA SubmissionStep ==
  ASSUME IInv, NEW r \in Requests, Submission(r)
  PROVE  IInv'
<1>0. consents' = consents /\ job' = job /\ object' = object /\ calls' = calls
  BY DEF Submission, SubmitRequest, InsertNamespace, InsertNamespaceFails
<1>1. JobsOK' /\ NoGrantWithoutConsent' /\ CallsOK'
  BY <1>0, JobsKept, GrantsKept DEF IInv, CallsOK
<1>2. ASSUME NEW ns \in SUBSET Namespaces, SubmitRequest(r, ns) PROVE TypeOK' /\ RowsOK'
  <2>1. [NoRow EXCEPT !.status = "Requested", !.namespaces = ns] \in RequestData
    BY DEF NoRow, RequestData, Statuses
  <2>2. requests' \in [Requests -> RequestData]
    BY <1>2, <2>1, RowWritten DEF SubmitRequest, IInv
  <2>3. inserting' \in [Requests -> SUBSET Namespaces]
    BY <1>2 DEF SubmitRequest, IInv, TypeOK
  <2> QED BY <1>0, <1>2, <2>2, <2>3, RowsKept DEF SubmitRequest, IInv, TypeOK
<1>3. ASSUME NEW n \in inserting[r], InsertNamespace(r, n) PROVE TypeOK' /\ RowsOK'
  <2>0. n \in Namespaces
    BY DEF IInv, TypeOK
  <2>1. rows' \in [Requests -> [Namespaces -> RequestNamespace]]
    BY <1>3, <2>0, RowTypes DEF InsertNamespace, IInv, TypeOK
  <2>2. inserting' \in [Requests -> SUBSET Namespaces]
    BY <1>3 DEF InsertNamespace, IInv, TypeOK
  <2>3. TypeOK'
    BY <1>3, <2>1, <2>2 DEF InsertNamespace, IInv, TypeOK
  <2>4. \A q \in Requests, m \in Namespaces :
          rows'[q][m] = rows[q][m] \/ ~rows'[q][m].approved
    BY <1>3, <2>0, RowTypes DEF InsertNamespace, IInv, TypeOK
  <2>5. RowsOK'
    BY <1>0, <2>4 DEF IInv, RowsOK, Agreed
  <2> QED BY <2>3, <2>5
<1>4. CASE InsertNamespaceFails(r)
  <2>1. inserting' \in [Requests -> SUBSET Namespaces]
    BY <1>4 DEF InsertNamespaceFails, IInv, TypeOK
  <2> QED BY <1>0, <1>1, <1>4, <2>1, RowsKept, FailsType DEF InsertNamespaceFails, IInv, TypeOK
<1> QED BY <1>1, <1>2, <1>3, <1>4 DEF Submission, IInv

\* Time, the operator and its callbacks touch neither rows nor handlers.
LEMMA ClusterStep ==
  ASSUME IInv, NEW r \in Requests, Cluster(r)
  PROVE  IInv'
<1>0. consents' = consents /\ job' = job /\ rows' = rows
  BY DEF Cluster, Expire, OperatorMoves, OperatorDeletes, K8sCallback, K8sCallbackFails
<1>1. JobsOK' /\ RowsOK'
  BY <1>0, JobsKept, RowsKept
<1>2. CASE Expire(r)
  BY <1>0, <1>1, <1>2, GrantsKept DEF Expire, IInv, TypeOK, CallsOK
<1>3. ASSUME NEW phase \in {"Pending", "Rejected", "Succeeded"},
             object' = [object EXCEPT ![r].phase = phase], OperatorMoves(r)
      PROVE  IInv'
  <2>1. object' \in [Requests -> [phase : Phases, namespaces : SUBSET Namespaces]]
    BY <1>3 DEF IInv, TypeOK, Phases
  <2>2. /\ \A q \in Requests : object'[q].namespaces = object[q].namespaces
        /\ \A q \in Requests : object'[q].phase = IF q = r THEN phase ELSE object[q].phase
    BY <1>3 DEF IInv, TypeOK
  <2>3. TypeOK'
    BY <1>0, <1>3, <2>1 DEF OperatorMoves, IInv, TypeOK
  <2>4. NoGrantWithoutConsent'
    BY <1>0, <2>2, GrantsKept
  <2>5. CallsOK'
    BY <1>3, <2>2 DEF OperatorMoves, CallsOK, IInv, TypeOK
  <2> QED BY <1>1, <2>3, <2>4, <2>5 DEF IInv
<1>4. CASE OperatorMoves(r)
  BY <1>3, <1>4 DEF OperatorMoves
<1>5. CASE OperatorDeletes(r)
  <2>1. object' \in [Requests -> [phase : Phases, namespaces : SUBSET Namespaces]]
    BY <1>5 DEF OperatorDeletes, IInv, TypeOK, NoObject, Phases
  <2>2. \A q \in Requests : object'[q] = IF q = r THEN NoObject ELSE object[q]
    BY <1>5 DEF OperatorDeletes, IInv, TypeOK
  <2>3. TypeOK'
    BY <1>0, <1>5, <2>1 DEF OperatorDeletes, IInv, TypeOK
  <2>4. NoGrantWithoutConsent'
    BY <1>0, <2>2, GrantsKept DEF NoObject
  <2>5. CallsOK'
    BY <1>5, <2>2 DEF OperatorDeletes, CallsOK, IInv, TypeOK
  <2> QED BY <1>1, <2>3, <2>4, <2>5 DEF IInv
<1>6. CASE K8sCallback(r)
  <2>1. object[r].phase \in Statuses
    BY <1>6 DEF K8sCallback, IInv, CallsOK, Statuses
  <2>2. [requests[r] EXCEPT !.status = object[r].phase] \in RequestData
    <3>1. requests[r] \in RequestData
      BY DEF IInv, TypeOK
    <3> QED BY <2>1, <3>1 DEF RequestData
  <2>3. requests' = requests \/ requests' = [requests EXCEPT ![r] =
                                             [requests[r] EXCEPT !.status = object[r].phase]]
    BY <1>6 DEF K8sCallback
  <2>4. requests' \in [Requests -> RequestData]
    BY <2>2, <2>3, RowWritten DEF IInv, TypeOK
  <2> QED BY <1>0, <1>1, <1>6, <2>4, GrantsKept DEF K8sCallback, IInv, TypeOK, CallsOK
<1>7. CASE K8sCallbackFails(r)
  <2>1. spent' \in [decisions : Nat, overlaps : Nat, early : Nat, failures : Nat]
    BY <1>7, FailsType DEF K8sCallbackFails, IInv, TypeOK
  <2> QED BY <1>0, <1>1, <1>7, <2>1, GrantsKept DEF K8sCallbackFails, IInv, TypeOK, CallsOK
<1> QED BY <1>2, <1>4, <1>5, <1>6, <1>7 DEF Cluster

\* The page of a user, and what a handler does outside processApproval.
LEMMA HandlerStep ==
  ASSUME IInv, NEW a \in Approvers,
         \/ GetPendingApprovals(a)
         \/ \E batch \in SUBSET shown[a], status \in Decisions :
              ApproveOrRejectRequests(a, batch, status)
         \/ NextRequest(a) \/ HandlerFails(a)
  PROVE  IInv'
<1>0. rows' = rows /\ object' = object /\ calls' = calls /\ consents \subseteq consents'
  BY DEF GetPendingApprovals, ApproveOrRejectRequests, NextRequest, HandlerFails
<1>1. RowsOK' /\ NoGrantWithoutConsent' /\ CallsOK'
  BY <1>0, RowsKept, GrantsKept DEF IInv, CallsOK
<1>2. job[a] \in Jobs /\ JobOK(a, job[a], consents)
  BY DEF IInv, TypeOK, JobsOK
<1>3. CASE GetPendingApprovals(a)
  <2>1. shown' \in [Approvers -> SUBSET Requests]
    BY <1>3 DEF GetPendingApprovals, IInv, TypeOK
  <2> QED BY <1>1, <1>3, <2>1, JobsKept DEF GetPendingApprovals, IInv, TypeOK
<1>4. ASSUME NEW batch \in SUBSET shown[a], NEW status \in Decisions,
             ApproveOrRejectRequests(a, batch, status)
      PROVE  IInv'
  <2> DEFINE j == [NoJob EXCEPT !.pc = "next", !.batch = batch, !.status = status]
  <2>1. batch \subseteq Requests
    BY DEF IInv, TypeOK
  <2>2. j \in Jobs
    BY <2>1, NoJobOK DEF Jobs, PCs
  <2>3. status = "Approved" => \A r \in batch : <<r, a>> \in consents'
    BY <1>4 DEF ApproveOrRejectRequests
  <2>4. JobOK(a, j, consents')
    <3>1. /\ j.pc = "next" /\ j.req = {} /\ j.left = {} /\ j.rows = NoNamespaceRows
          /\ j.batch = batch /\ j.status = status
      BY DEF NoJob
    <3> HIDE DEF j
    <3> QED BY <2>3, <3>1, RowTypes DEF JobOK
  <2>5. Step(a, j)
    BY <1>4 DEF ApproveOrRejectRequests
  <2> HIDE DEF j
  <2>6. job' \in [Approvers -> Jobs] /\ JobsOK'
    BY <1>0, <2>2, <2>4, <2>5, JobMoved
  <2>7. consents' \subseteq Requests \X Approvers
    <3>1. {<<r, a>> : r \in batch} \subseteq Requests \X Approvers
      BY <2>1
    <3>2. consents' = consents \/ consents' = consents \union {<<r, a>> : r \in batch}
      BY <1>4 DEF ApproveOrRejectRequests
    <3> QED BY <3>1, <3>2 DEF IInv, TypeOK
  <2>8. spent' \in [decisions : Nat, overlaps : Nat, early : Nat, failures : Nat]
    <3>1. spent \in [decisions : Nat, overlaps : Nat, early : Nat, failures : Nat]
      BY DEF IInv, TypeOK
    <3> DEFINE overlap == IF \A b \in Approvers : At(b, "idle") THEN 0 ELSE 1
               early == IF \A r \in batch : inserting[r] = {} THEN 0 ELSE 1
    <3>2. spent' = [spent EXCEPT !.decisions = @ + 1, !.overlaps = @ + overlap, !.early = @ + early]
      BY <1>4 DEF ApproveOrRejectRequests
    <3>3. overlap \in Nat /\ early \in Nat
      OBVIOUS
    <3> HIDE DEF overlap, early
    <3>4. spent.decisions + 1 \in Nat /\ spent.overlaps + overlap \in Nat /\ spent.early + early \in Nat
      BY <3>1, <3>3
    <3>5. spent' = [decisions |-> spent.decisions + 1, overlaps |-> spent.overlaps + overlap,
                    early |-> spent.early + early, failures |-> spent.failures]
      BY <3>1, <3>2
    <3> QED BY <3>1, <3>4, <3>5
  <2> QED BY <1>1, <1>4, <2>6, <2>7, <2>8 DEF ApproveOrRejectRequests, IInv, TypeOK
<1>5. CASE NextRequest(a)
  <2>1. ASSUME NEW r \in job[a].batch
        PROVE  LET j == [job[a] EXCEPT !.pc = "fetch", !.req = {r}, !.batch = @ \ {r}]
               IN  j \in Jobs /\ (job[a].pc = "next" => JobOK(a, j, consents))
    <3> DEFINE j == [job[a] EXCEPT !.pc = "fetch", !.req = {r}, !.batch = @ \ {r}]
    <3>1. r \in Requests
      BY <1>2 DEF Jobs
    <3>2. j \in Jobs
      BY <1>2, <3>1 DEF Jobs, PCs
    <3>3. /\ j.pc = "fetch" /\ j.req = {r} /\ j.req \union j.batch \subseteq job[a].batch
          /\ j.rows = job[a].rows /\ j.left = job[a].left /\ j.status = job[a].status
      BY <1>2 DEF Jobs
    <3>4. job[a].pc = "next" => JobOK(a, j, consents)
      <4> HIDE DEF j
      <4> QED BY <1>2, <3>3 DEF JobOK, Agreed
    <3> QED BY <3>2, <3>4
  <2>2. job' \in [Approvers -> Jobs] /\ JobsOK'
    BY <1>0, <1>5, <2>1, NoJobOK, JobMoved DEF NextRequest, At
  <2> QED BY <1>1, <1>5, <2>2 DEF NextRequest, IInv, TypeOK
<1>6. CASE HandlerFails(a)
  <2>1. consents' = consents
    BY <1>6 DEF HandlerFails
  <2>2. job' \in [Approvers -> Jobs] /\ JobsOK'
    BY <1>6, <2>1, NoJobOK, JobMoved, ReturnOK DEF HandlerFails
  <2>3. spent' \in [decisions : Nat, overlaps : Nat, early : Nat, failures : Nat]
    BY <1>6, FailsType DEF HandlerFails, IInv
  <2> QED BY <1>1, <1>6, <2>2, <2>3 DEF HandlerFails, IInv, TypeOK
<1> QED BY <1>3, <1>4, <1>5, <1>6
-----------------------------------------------------------------------------
(* processApproval *)

\* The handler reads the rows of its request.
LEMMA FetchStep ==
  ASSUME IInv, NEW a \in Approvers, FetchNamespaces(a)
  PROVE  IInv'
<1>0. job[a] \in Jobs /\ JobOK(a, job[a], consents) /\ job[a].pc = "fetch"
  BY DEF FetchNamespaces, At, IInv, TypeOK, JobsOK
<1>1. PICK r \in job[a].req :
        Step(a, [job[a] EXCEPT !.pc = "save", !.rows = rows[r],
                   !.left = {n \in Namespaces : rows[r][n].exists /\ MayDecide(a, n)}])
  BY DEF FetchNamespaces
<1> DEFINE left == {n \in Namespaces : rows[r][n].exists /\ MayDecide(a, n)}
           j == [job[a] EXCEPT !.pc = "save", !.rows = rows[r], !.left = left]
<1>2. r \in Requests /\ rows[r] \in [Namespaces -> RequestNamespace]
  BY <1>0 DEF Jobs, IInv, TypeOK
<1>3. j \in Jobs
  BY <1>0, <1>2 DEF Jobs, PCs
<1>4. /\ j.pc = "save" /\ j.rows = rows[r] /\ j.left = left
      /\ j.req = job[a].req /\ j.batch = job[a].batch /\ j.status = job[a].status
  BY <1>0 DEF Jobs
<1>5. \A n \in left : MayDecide(a, n)
  OBVIOUS
<1>6. Step(a, j)
  BY <1>1
<1>7. \A q \in job[a].req : q = r
  BY <1>0 DEF JobOK
<1> HIDE DEF j, left
<1>8. \A q \in job[a].req, n \in Namespaces : Agreed(q, n, j.rows[n], consents)
  BY <1>2, <1>4, <1>7 DEF IInv, RowsOK
<1>9. JobOK(a, j, consents)
  BY <1>0, <1>4, <1>5, <1>8 DEF JobOK
<1>10. /\ consents' = consents /\ rows' = rows /\ object' = object /\ calls' = calls
       /\ UNCHANGED <<requests, inserting, expired, shown, made, spent>>
  BY DEF FetchNamespaces
<1>11. job' \in [Approvers -> Jobs] /\ JobsOK'
  BY <1>3, <1>6, <1>9, <1>10, JobMoved
<1>12. TypeOK' /\ CallsOK'
  BY <1>10, <1>11 DEF IInv, TypeOK, CallsOK
<1> QED BY <1>10, <1>11, <1>12, RowsKept, GrantsKept DEF IInv

\* The handler writes a row: there is a consent to it, in the table and in the copy.
LEMMA SaveStep ==
  ASSUME IInv, NEW a \in Approvers, NEW n \in job[a].left, SaveNamespace(a, n)
  PROVE  IInv'
<1> DEFINE row == Decided(a, n)
           j == [job[a] EXCEPT !.rows[n] = row, !.left = @ \ {n}]
<1>0. job[a] \in Jobs /\ JobOK(a, job[a], consents) /\ job[a].pc = "save" /\ n \in Namespaces
  BY DEF SaveNamespace, At, IInv, TypeOK, JobsOK, Jobs
<1>1. PICK r \in job[a].req : rows' = [rows EXCEPT ![r][n] = row]
  BY DEF SaveNamespace
<1>2. row \in RequestNamespace
      /\ (row.approved => job[a].status = "Approved" \/ job[a].rows[n].approved)
  BY <1>0 DEF Decided, Jobs, RequestNamespace
<1>3. \A q \in job[a].req : Agreed(q, n, row, consents)
  BY <1>0, <1>2 DEF JobOK, Agreed
<1>4. Step(a, j) /\ consents' = consents /\ object' = object /\ calls' = calls
      /\ UNCHANGED <<requests, inserting, expired, shown, made, spent>>
  BY DEF SaveNamespace
<1> HIDE DEF row
<1>5. j \in Jobs
  BY <1>0, <1>2 DEF Jobs
<1>6. /\ \A m \in Namespaces : j.rows[m] = IF m = n THEN row ELSE job[a].rows[m]
      /\ j.left \subseteq job[a].left /\ j.pc = "save"
      /\ j.req = job[a].req /\ j.batch = job[a].batch /\ j.status = job[a].status
  BY <1>0 DEF Jobs
<1> HIDE DEF j
<1>7. JobOK(a, j, consents)
  BY <1>0, <1>3, <1>6 DEF JobOK
<1>8. job' \in [Approvers -> Jobs] /\ JobsOK'
  BY <1>4, <1>5, <1>7, JobMoved
<1>9. r \in Requests
  BY <1>0 DEF Jobs
<1>10. /\ rows' \in [Requests -> [Namespaces -> RequestNamespace]]
       /\ \A q \in Requests, m \in Namespaces :
            rows'[q][m] = IF q = r /\ m = n THEN row ELSE rows[q][m]
  BY <1>0, <1>1, <1>2, <1>9 DEF IInv, TypeOK
<1>11. RowsOK'
  BY <1>3, <1>4, <1>10 DEF IInv, RowsOK, Agreed
<1>12. TypeOK' /\ CallsOK'
  BY <1>4, <1>8, <1>10 DEF IInv, TypeOK, CallsOK
<1> QED BY <1>4, <1>8, <1>11, <1>12, GrantsKept DEF IInv

\* The handler goes on within its request: a step that changes pc only.
LEMMA PcMoved ==
  ASSUME IInv, NEW a \in Approvers, NEW pc \in PCs,
         job[a].pc \notin {"next", "fetch"}, pc \notin {"next", "fetch"},
         pc = "create" => AllApproved(a),
         Step(a, [job[a] EXCEPT !.pc = pc]), consents' = consents
  PROVE  job' \in [Approvers -> Jobs] /\ JobsOK'
<1> DEFINE j == [job[a] EXCEPT !.pc = pc]
<1>1. job[a] \in Jobs /\ JobOK(a, job[a], consents)
  BY DEF IInv, TypeOK, JobsOK
<1>2. j \in Jobs
  BY <1>1 DEF Jobs
<1>3. /\ j.pc = pc /\ j.rows = job[a].rows /\ j.left = job[a].left
      /\ j.req = job[a].req /\ j.batch = job[a].batch /\ j.status = job[a].status
  BY <1>1 DEF Jobs
<1> HIDE DEF j
<1>4. JobOK(a, j, consents)
  BY <1>1, <1>3 DEF JobOK, AllApproved, Fetched
<1> QED BY <1>2, <1>4, JobMoved DEF j

\* All rows are saved.
LEMMA SavedStep ==
  ASSUME IInv, NEW a \in Approvers, NamespacesSaved(a)
  PROVE  IInv'
<1> DEFINE pc == IF AllApproved(a) /\ job[a].status = "Approved" THEN "create" ELSE "first"
<1>1. job[a] \in Jobs /\ job[a].pc = "save"
  BY DEF NamespacesSaved, At, IInv, TypeOK
<1>2. job' \in [Approvers -> Jobs] /\ JobsOK'
  <2>1. pc \in PCs /\ pc \notin {"next", "fetch"} /\ (pc = "create" => AllApproved(a))
    BY DEF PCs
  <2>2. Step(a, [job[a] EXCEPT !.pc = pc])
    BY DEF NamespacesSaved
  <2> HIDE DEF pc
  <2> QED BY <1>1, <2>1, <2>2, PcMoved DEF NamespacesSaved
<1>3. TypeOK' /\ CallsOK'
  BY <1>2 DEF NamespacesSaved, IInv, TypeOK, CallsOK
<1> QED BY <1>2, <1>3, RowsKept, GrantsKept DEF NamespacesSaved, IInv

\* The JitRequest is created: every namespace of the copy is approved, with consent.
LEMMA CreateStep ==
  ASSUME IInv, NEW a \in Approvers, CreateK8sObject(a)
  PROVE  IInv'
<1>0. job[a] \in Jobs /\ JobOK(a, job[a], consents) /\ job[a].pc = "create"
  BY DEF CreateK8sObject, At, IInv, TypeOK, JobsOK
<1>1. PICK r \in job[a].req :
        /\ object[r].phase = "none"
        /\ object' = [object EXCEPT ![r] = [phase |-> "new", namespaces |-> Fetched(a)]]
        /\ made' = [made EXCEPT ![r] = Fetched(a)]
  BY DEF CreateK8sObject
<1>2. r \in Requests /\ Fetched(a) \subseteq Namespaces
  BY <1>0 DEF Jobs, Fetched
<1>3. ASSUME NEW n \in Fetched(a) PROVE HasConsent(r, n)
  <2>1. job[a].rows[n].approved
    BY <1>0, <1>3 DEF JobOK, Fetched
  <2> QED BY <1>0, <1>2, <1>3, <2>1 DEF JobOK, Agreed, HasConsent
<1>4. /\ object' \in [Requests -> [phase : Phases, namespaces : SUBSET Namespaces]]
      /\ \A q \in Requests : object'[q] = IF q = r THEN [phase |-> "new", namespaces |-> Fetched(a)]
                                                    ELSE object[q]
  BY <1>1, <1>2 DEF IInv, TypeOK, Phases
<1>5. consents' = consents /\ rows' = rows /\ calls' = calls
      /\ UNCHANGED <<requests, inserting, expired, shown, spent>>
  BY DEF CreateK8sObject
<1>6. NoGrantWithoutConsent'
  BY <1>3, <1>4, <1>5 DEF IInv, NoGrantWithoutConsent, HasConsent
<1>7. job' \in [Approvers -> Jobs] /\ JobsOK'
  <2>1. "first" \in PCs
    BY DEF PCs
  <2> QED BY <1>0, <1>5, <2>1, PcMoved DEF CreateK8sObject
<1>8. CallsOK'
  BY <1>1, <1>4, <1>5 DEF IInv, CallsOK
<1>9. TypeOK'
  BY <1>1, <1>2, <1>4, <1>5, <1>7 DEF IInv, TypeOK
<1> QED BY <1>5, <1>6, <1>7, <1>8, <1>9, RowsKept DEF IInv

\* The request row is read and written; the handler returns.
LEMMA RequestRowStep ==
  ASSUME IInv, NEW a \in Approvers,
         CreateK8sObjectFails(a) \/ FetchRequest(a) \/ UpdateRequest(a)
  PROVE  IInv'
<1>0. /\ consents' = consents /\ rows' = rows /\ object' = object /\ calls' = calls
      /\ UNCHANGED <<inserting, expired, shown, made>>
      /\ job[a] \in Jobs
  BY DEF CreateK8sObjectFails, FetchRequest, UpdateRequest, IInv, TypeOK
<1>1. RowsOK' /\ NoGrantWithoutConsent' /\ CallsOK'
  BY <1>0, RowsKept, GrantsKept DEF IInv, CallsOK
<1>2. CASE CreateK8sObjectFails(a)
  <2>1. spent' \in [decisions : Nat, overlaps : Nat, early : Nat, failures : Nat]
    BY <1>2, FailsType DEF CreateK8sObjectFails, IInv, TypeOK
  <2>2. job' \in [Approvers -> Jobs] /\ JobsOK'
    BY <1>0, <1>2, ReturnOK DEF CreateK8sObjectFails
  <2> QED BY <1>0, <1>1, <1>2, <2>1, <2>2 DEF CreateK8sObjectFails, IInv, TypeOK
<1>3. CASE FetchRequest(a)
  <2>1. Return(a) \/ Step(a, [job[a] EXCEPT !.pc = "update"])
    BY <1>3 DEF FetchRequest
  <2>2. "update" \in PCs /\ job[a].pc = "first"
    BY <1>3 DEF FetchRequest, At, PCs
  <2>3. job' \in [Approvers -> Jobs] /\ JobsOK'
    BY <1>0, <2>1, <2>2, ReturnOK, PcMoved
  <2> QED BY <1>0, <1>1, <1>3, <2>3 DEF FetchRequest, IInv, TypeOK
<1>4. CASE UpdateRequest(a)
  <2>1. PICK r \in job[a].req :
          requests' = IF requests[r].status = "None" THEN requests
                      ELSE [requests EXCEPT ![r].status = FinalStatus(a)]
    BY <1>4 DEF UpdateRequest
  <2> DEFINE row == [requests[r] EXCEPT !.status = FinalStatus(a)]
  <2>2. r \in Requests /\ requests[r] \in RequestData
    BY <1>0 DEF Jobs, IInv, TypeOK
  <2>3. FinalStatus(a) \in Statuses
    BY <1>0 DEF FinalStatus, Jobs, Decisions, Statuses
  <2>4. row \in RequestData
    BY <2>2, <2>3 DEF RequestData
  <2>5. requests' = requests \/ requests' = [requests EXCEPT ![r] = row]
    BY <2>1
  <2> HIDE DEF row
  <2>6. requests' \in [Requests -> RequestData]
    BY <2>2, <2>4, <2>5, RowWritten DEF IInv, TypeOK
  <2>7. job' \in [Approvers -> Jobs] /\ JobsOK'
    BY <1>0, <1>4, ReturnOK DEF UpdateRequest
  <2> QED BY <1>0, <1>1, <1>4, <2>6, <2>7 DEF UpdateRequest, IInv, TypeOK
<1> QED BY <1>2, <1>3, <1>4

\* Request rows are cleaned away.
LEMMA CleanStep ==
  ASSUME IInv, CleanExpiredRequests
  PROVE  IInv'
<1>1. requests' \in [Requests -> RequestData]
  BY DEF CleanExpiredRequests, IInv, TypeOK, NoRow, RequestData, Statuses
<1>2. TypeOK' /\ CallsOK'
  BY <1>1 DEF CleanExpiredRequests, IInv, TypeOK, CallsOK
<1> QED BY <1>2, JobsKept, RowsKept, GrantsKept DEF CleanExpiredRequests, IInv

\* Every step preserves the invariant.
LEMMA InvariantStep == IInv /\ [Next]_vars => IInv'
<1> SUFFICES ASSUME IInv, [Next]_vars PROVE IInv'
  OBVIOUS
<1>1. CASE UNCHANGED vars
  BY <1>1, JobsKept, RowsKept, GrantsKept DEF vars, IInv, TypeOK, CallsOK
<1>2. ASSUME NEW r \in Requests, Submission(r) \/ Cluster(r) PROVE IInv'
  BY <1>2, SubmissionStep, ClusterStep
<1>3. ASSUME NEW a \in Approvers, User(a) PROVE IInv'
  BY <1>3, HandlerStep, FetchStep, SaveStep, SavedStep, CreateStep, RequestRowStep
     DEF User, ProcessApproval
<1> QED BY <1>1, <1>2, <1>3, CleanStep DEF Next
-----------------------------------------------------------------------------
(* The theorems *)

\* The invariant is inductive, whatever handlers interleave, fail or die.
THEOREM Inductive == Spec => []IInv
BY InvariantStep, InitOK, PTL DEF Spec

\* The variables keep their types; a row's status is never the empty one of a new
\* JitRequest (K8sCallback writes what it is told).
THEOREM TypeCorrect == Spec => []TypeOK
BY Inductive, PTL DEF IInv

\* A JitRequest names only namespaces somebody entitled to them approved, whatever
\* copies of the rows the handlers of processApproval worked on.
THEOREM ConsentIsNeeded == Spec => []NoGrantWithoutConsent
BY Inductive, PTL DEF IInv
=============================================================================
