------------------------- MODULE JitRequestOperator -------------------------
(***************************************************************************)
(* The JitRequest controller of the kube-jit operator                      *)
(* (controller/kube-jit-operator/internal/controller) and the part of the  *)
(* cluster it works on: the API server's JitRequest objects, the informer  *)
(* cache the reconciler reads, the work queue, the RequeueAfter timers,    *)
(* the RoleBindings it creates and the garbage collector that removes them.*)
(*                                                                         *)
(* One worker reconciles (MaxConcurrentReconciles is left at its default   *)
(* of 1).  A reconcile is cut at every call that leaves the process: each  *)
(* status update, callback, RoleBinding create and delete is a step of its *)
(* own, and between two steps the clock, the cluster, the informer and a   *)
(* crash may interfere.                                                    *)
(*                                                                         *)
(* A name can be used again: the API's POST body and other clients decide  *)
(* what each JitRequest asks for, so two of one name share nothing but the *)
(* name.  Assumed: nobody edits the spec of a JitRequest that exists.      *)
(***************************************************************************)
EXTENDS Integers, FiniteSets

CONSTANTS
  Requests,            \* the names jit-<id> a JitRequest can have
  Namespaces,          \* the namespaces of the cluster
  AllowedNamespaces,   \* those the config's namespaceAllowedRegex matches
  Roles,               \* the ClusterRoles a request may name
  AllowedRoles,        \* the config's allowedClusterRoles
  Specs,               \* the specs the environment may write
  NoRequest,           \* the key of an idle worker
  MaxTime,             \* bound of the clock
  MaxIncarnations,     \* bound: how often one name may be created
  MaxFailures,         \* bound: calls to the API server or the file that fail
  MaxCrashes,          \* bound: crashes of the operator
  MaxWithdrawals,      \* bound: JitRequests deleted by somebody else
  MaxEvictions,        \* bound: namespaces deleted
  PromptDelay          \* TRUE: no tick between "t.After(now)" and "time.Until(t)"

Times == 0 .. MaxTime
Incarnations == 1 .. MaxIncarnations

\* The fields of JitRequestSpec the operator's control depends on.
Spectra == [role : Roles, namespaces : SUBSET Namespaces, start : Times, end : Times]

ASSUME ConstantsAssumption ==
  /\ MaxTime \in Nat
  /\ {MaxIncarnations, MaxFailures, MaxCrashes, MaxWithdrawals, MaxEvictions} \subseteq Nat
  /\ AllowedNamespaces \subseteq Namespaces
  /\ AllowedRoles \subseteq Roles
  /\ Specs \subseteq Spectra
  /\ NoRequest \notin Requests
  /\ PromptDelay \in BOOLEAN

VARIABLES
  now,         \* the clock
  spec,        \* spec[r][k]: what the k-th JitRequest named r asks for, if it is created
  obj,         \* obj[r]: the JitRequest in the API server
  created,     \* created[r]: how many JitRequests named r were created (the last one's UID)
  bindings,    \* the RoleBindings "<name>-jit" in the API server
  present,     \* the namespaces that exist
  up,          \* is the operator process running?
  cache,       \* the informer's copy of obj
  queue,       \* the work queue
  timer,       \* timer[r]: when the delaying queue adds r to the queue
  worker,      \* the reconcile in progress
  reported,    \* reported[r]: the last state a callback delivered to the API
  spent        \* how much of each bound was used

cluster == <<spec, obj, created, bindings, present>>
process == <<up, cache, queue, timer, worker>>
vars == <<now, cluster, process, reported, spent>>
-----------------------------------------------------------------------------
(* Objects *)

\* "New" is the empty status.state of an object whose status was never written.
States == {"New", "Pending", "Succeeded", "Rejected"}

\* metadata.uid (per name), resourceVersion and JitRequestStatus; uid 0: no such object.
Objects == [uid : 0 .. MaxIncarnations, rv : Nat, state : States, start : Times, end : Times]
Absent == [uid |-> 0, rv |-> 0, state |-> "New", start |-> 0, end |-> 0]
Exists(o) == o.uid # 0

Bindings == [req : Requests, ns : Namespaces, owner : Incarnations]
RoleBinding(r, n, uid) == [req |-> r, ns |-> n, owner |-> uid]
BindingsOf(r) == {b \in bindings : b.req = r}
BindingsUnder(r, k) == {b \in BindingsOf(r) : b.owner = k}

\* The owner reference names a JitRequest by UID.
OwnerAlive(b) == obj[b.req].uid = b.owner

NoTimer == MaxTime + 1
Earlier(s, t) == IF s <= t THEN s ELSE t

PCs == {"idle", "dispatch", "update", "callback", "bind", "requeueAfter", "delete"}
Idle == [pc |-> "idle", key |-> NoRequest, copy |-> Absent, target |-> "New", left |-> {}, until |-> 0]
Workers == [pc : PCs, key : Requests \union {NoRequest}, copy : Objects,
            target : States, left : SUBSET Namespaces, until : Times]

Init ==
  /\ now = 0
  /\ spec \in [Requests -> [Incarnations -> Specs]]
  /\ obj = [r \in Requests |-> Absent]
  /\ created = [r \in Requests |-> 0]
  /\ bindings = {}
  /\ present \in SUBSET Namespaces
  /\ up = TRUE
  /\ cache = [r \in Requests |-> Absent]
  /\ queue = {}
  /\ timer = [r \in Requests |-> NoTimer]
  /\ worker = Idle
  /\ reported = [r \in Requests |-> "New"]
  /\ spent = [failures |-> 0, crashes |-> 0, withdrawals |-> 0, evictions |-> 0]
-----------------------------------------------------------------------------
(* The environment *)

Tick ==
  /\ now < MaxTime
  /\ PromptDelay => worker.pc # "requeueAfter"
  /\ now' = now + 1
  /\ UNCHANGED <<cluster, process, reported, spent>>

\* The API creates the object of an approved ticket, or somebody does with kubectl.
CreateK8sObject(r) ==
  /\ ~Exists(obj[r])
  /\ created[r] < MaxIncarnations
  /\ created' = [created EXCEPT ![r] = @ + 1]
  /\ obj' = [obj EXCEPT ![r] = [Absent EXCEPT !.uid = created[r] + 1, !.rv = 1]]
  /\ UNCHANGED <<now, spec, bindings, present, process, reported, spent>>

\* Somebody deletes a JitRequest with kubectl.
Withdraw(r) ==
  /\ Exists(obj[r])
  /\ spent.withdrawals < MaxWithdrawals
  /\ obj' = [obj EXCEPT ![r] = Absent]
  /\ spent' = [spent EXCEPT !.withdrawals = @ + 1]
  /\ UNCHANGED <<now, spec, created, bindings, present, process, reported>>

\* A namespace is deleted, and its RoleBindings with it.
Evict(n) ==
  /\ n \in present
  /\ spent.evictions < MaxEvictions
  /\ present' = present \ {n}
  /\ bindings' = {b \in bindings : b.ns # n}
  /\ spent' = [spent EXCEPT !.evictions = @ + 1]
  /\ UNCHANGED <<now, spec, obj, created, process, reported>>

\* Kubernetes collects a RoleBinding whose owner is gone.
GarbageCollect(b) ==
  /\ ~OwnerAlive(b)
  /\ bindings' = bindings \ {b}
  /\ UNCHANGED <<now, spec, obj, created, present, process, reported, spent>>
-----------------------------------------------------------------------------
(* controller-runtime: informer, timers, crash and restart *)

\* Create and delete events pass, updates when the resourceVersion changed.
JitRequestPredicate(old, new) == old.uid # new.uid \/ old.rv # new.rv

\* The informer catches up with the object's latest version.
Sync(r) ==
  /\ up
  /\ cache[r] # obj[r]
  /\ cache' = [cache EXCEPT ![r] = obj[r]]
  /\ queue' = IF JitRequestPredicate(cache[r], obj[r]) THEN queue \union {r} ELSE queue
  /\ UNCHANGED <<now, cluster, up, timer, worker, reported, spent>>

TimerFires(r) ==
  /\ up
  /\ timer[r] <= now
  /\ queue' = queue \union {r}
  /\ timer' = [timer EXCEPT ![r] = NoTimer]
  /\ UNCHANGED <<now, cluster, up, cache, worker, reported, spent>>

\* The queue, the timers and the reconcile in progress are only in memory.
Crash ==
  /\ up
  /\ spent.crashes < MaxCrashes
  /\ up' = FALSE
  /\ queue' = {}
  /\ timer' = [r \in Requests |-> NoTimer]
  /\ worker' = Idle
  /\ spent' = [spent EXCEPT !.crashes = @ + 1]
  /\ UNCHANGED <<now, cluster, cache, reported>>

\* The informer lists: every object that exists is enqueued, no other key is.
Restart ==
  /\ ~up
  /\ up' = TRUE
  /\ cache' = obj
  /\ queue' = {r \in Requests : Exists(obj[r])}
  /\ UNCHANGED <<now, cluster, timer, worker, reported, spent>>
-----------------------------------------------------------------------------
(* Ways a reconcile goes on or returns *)

At(pc) == worker.pc = pc
Request == spec[worker.key][worker.copy.uid]

Goto(pc) == worker' = [worker EXCEPT !.pc = pc] /\ UNCHANGED queue

\* return ctrl.Result{}, nil
Done == worker' = Idle /\ UNCHANGED queue

\* return ctrl.Result{}, err: the key comes back (with a back-off)
\* Mutant: the error is logged and nil returned.
ErrorSwallowed == worker' = Idle /\ UNCHANGED queue
Requeue == worker' = Idle /\ queue' = queue \union {worker.key}

\* A call fails: it may have taken effect (the reply was lost) or not.
Fails == spent.failures < MaxFailures /\ spent' = [spent EXCEPT !.failures = @ + 1]

\* ~t.After(time.Now())
\* Mutant: a comparison that is off by one.
DueSoon(t) == t <= now + 1
Due(t) == t <= now
-----------------------------------------------------------------------------
(* The reconciler *)

\* Reconcile takes a key, reads the cached object and the config file.
\* handleFetchError: when the object is gone, deleteOwnedObjects walks the
\* namespaces of the empty object Get left, which are none: nothing is deleted.
Reconcile(r) ==
  /\ up /\ At("idle") /\ r \in queue
  /\ queue' = queue \ {r}
  /\ worker' = IF Exists(cache[r])
                 THEN [Idle EXCEPT !.pc = "dispatch", !.key = r, !.copy = cache[r]]
                 ELSE Idle
  /\ UNCHANGED <<now, cluster, up, cache, timer, reported, spent>>

\* ReadConfigFromFile fails: the key comes back.
ConfigUnreadable(r) ==
  /\ up /\ At("idle") /\ r \in queue /\ Exists(cache[r])
  /\ Fails
  /\ UNCHANGED <<now, cluster, process, reported>>

\* Contains, ValidateNamespaceRegex and ValidateNamespaceExists
RoleAllowed(s) == s.role \in AllowedRoles
NamespacesAllowed(s) == s.namespaces \subseteq AllowedNamespaces
NamespacesExist(s) == s.namespaces \subseteq present
\* Mutant: the role is not checked.
ValidInAnyRole(s) == NamespacesAllowed(s) /\ NamespacesExist(s)
Valid(s) == RoleAllowed(s) /\ NamespacesAllowed(s) /\ NamespacesExist(s)

\* preApproveRequest wants the start time ahead.
\* Mutant: it does not matter when the window starts.
AnyStart(s) == TRUE
Upcoming(s) == ~Due(s.start)

\* rejectInvalidRole, rejectInvalidNamespace, preApproveRequest: the status to write
\* Mutant: the API's name for it.
VerdictOfTheApi(s) == IF Valid(s) /\ Upcoming(s) THEN "Approved" ELSE "Rejected"
Verdict(s) == IF Valid(s) /\ Upcoming(s) THEN "Pending" ELSE "Rejected"

HandleNewRequest ==
  /\ At("dispatch") /\ worker.copy.state = "New"
  /\ worker' = [worker EXCEPT !.pc = "update", !.target = Verdict(Request)]
  /\ UNCHANGED <<now, cluster, up, cache, queue, timer, reported, spent>>

\* An error other than NotFound from ValidateNamespaceExists rejects the request too.
NamespaceLookupFails ==
  /\ At("dispatch") /\ worker.copy.state = "New"
  /\ RoleAllowed(Request) /\ NamespacesAllowed(Request) /\ Request.namespaces # {}
  /\ Fails
  /\ worker' = [worker EXCEPT !.pc = "update", !.target = "Rejected"]
  /\ UNCHANGED <<now, cluster, up, cache, queue, timer, reported>>

HandleRejected ==
  /\ At("dispatch") /\ worker.copy.state = "Rejected"
  /\ Goto("callback")
  /\ UNCHANGED <<now, cluster, up, cache, timer, reported, spent>>

HandlePreApproved ==
  /\ At("dispatch") /\ worker.copy.state = "Pending"
  /\ worker' = IF Due(worker.copy.start)
                 THEN [worker EXCEPT !.pc = "bind", !.left = Request.namespaces]
                 ELSE [worker EXCEPT !.pc = "requeueAfter", !.until = worker.copy.start]
  /\ UNCHANGED <<now, cluster, up, cache, queue, timer, reported, spent>>

\* createRoleBinding: one Create per namespace; AlreadyExists is no error.
NewBinding(n) ==
  IF \E b \in BindingsOf(worker.key) : b.ns = n
    THEN bindings
    ELSE bindings \union {RoleBinding(worker.key, n, worker.copy.uid)}

\* Mutant: AlreadyExists is an error like any other.
CreateRoleBindingOnce(n) ==
  /\ At("bind") /\ n \in worker.left /\ n \in present
  /\ bindings' = NewBinding(n)
  /\ IF bindings' = bindings THEN Requeue
     ELSE worker' = [worker EXCEPT !.left = @ \ {n}] /\ UNCHANGED queue
  /\ UNCHANGED <<now, spec, obj, created, present, up, cache, timer, reported, spent>>

CreateRoleBinding(n) ==
  /\ At("bind") /\ n \in worker.left /\ n \in present
  /\ bindings' = NewBinding(n)
  /\ worker' = [worker EXCEPT !.left = @ \ {n}]
  /\ UNCHANGED <<now, spec, obj, created, present, up, cache, queue, timer, reported, spent>>

\* A failed Create ends the reconcile; the RoleBindings made so far stay.
CreateRoleBindingFails(n) ==
  /\ At("bind") /\ n \in worker.left
  /\ \/ n \notin present /\ UNCHANGED <<bindings, spent>>
     \/ n \in present /\ Fails /\ bindings' \in {bindings, NewBinding(n)}
  /\ Requeue
  /\ UNCHANGED <<now, spec, obj, created, present, up, cache, timer, reported>>

RoleBindingsCreated ==
  /\ At("bind") /\ worker.left = {}
  /\ worker' = [worker EXCEPT !.pc = "update", !.target = "Succeeded"]
  /\ UNCHANGED <<now, cluster, up, cache, queue, timer, reported, spent>>

\* updateStatus writes the reconciler's copy: the API server refuses it unless the
\* copy has the object's UID and resourceVersion, and retrying the same copy does
\* not help.
\* Mutant: a write without the resourceVersion, as a merge patch would be.
SameObject == worker.copy.uid = obj[worker.key].uid
UpToDate == worker.copy.uid = obj[worker.key].uid /\ worker.copy.rv = obj[worker.key].rv
\* Mutant: the end time is not copied to the status.
NewStatusWithoutEnd ==
  [worker.copy EXCEPT !.rv = @ + 1, !.state = worker.target, !.start = Request.start]
NewStatus == [worker.copy EXCEPT !.rv = @ + 1, !.state = worker.target,
                                 !.start = Request.start, !.end = Request.end]

UpdateStatus ==
  /\ At("update") /\ UpToDate
  /\ obj' = [obj EXCEPT ![worker.key] = NewStatus]
  /\ worker' = IF worker.target = "Rejected" THEN Idle
               ELSE [worker EXCEPT !.pc = "callback", !.copy = NewStatus]
  /\ UNCHANGED <<now, spec, created, bindings, present, up, cache, queue, timer, reported, spent>>

\* Mutant: a conflict is logged and the handler goes on.
ConflictIgnored ==
  /\ At("update") /\ ~UpToDate
  /\ worker' = [worker EXCEPT !.pc = "callback", !.copy = NewStatus]
  /\ UNCHANGED <<now, cluster, up, cache, queue, timer, reported, spent>>

UpdateStatusFails ==
  /\ At("update")
  /\ \/ ~UpToDate /\ UNCHANGED <<obj, spent>>
     \/ UpToDate /\ Fails /\ obj' \in {obj, [obj EXCEPT ![worker.key] = NewStatus]}
  /\ Requeue
  /\ UNCHANGED <<now, spec, created, bindings, present, up, cache, timer, reported>>

\* callbackToApi: the handlers log an error and go on.
CallbackToApi ==
  /\ At("callback")
  /\ reported' \in {reported, [reported EXCEPT ![worker.key] = worker.copy.state]}
  /\ worker' = CASE worker.copy.state = "Rejected" -> [worker EXCEPT !.pc = "delete"]
                 [] worker.copy.state = "Succeeded" -> [worker EXCEPT !.pc = "dispatch"]
                 [] OTHER -> [worker EXCEPT !.pc = "requeueAfter", !.until = Request.start]
  /\ UNCHANGED <<now, cluster, up, cache, queue, timer, spent>>

\* return ctrl.Result{RequeueAfter: time.Until(t)}, nil: controller-runtime forgets
\* the key when the delay is not positive.
RequeueAfter ==
  /\ At("requeueAfter")
  /\ timer' = IF worker.until > now
                THEN [timer EXCEPT ![worker.key] = Earlier(@, worker.until)]
                ELSE timer
  /\ Done
  /\ UNCHANGED <<now, cluster, up, cache, reported, spent>>

\* Mutant: before the end time the handler just returns.
HandleCleanupWithoutDelay ==
  /\ At("dispatch") /\ worker.copy.state = "Succeeded"
  /\ worker' = IF Due(worker.copy.end) THEN [worker EXCEPT !.pc = "delete"] ELSE Idle
  /\ UNCHANGED <<now, cluster, up, cache, queue, timer, reported, spent>>

HandleCleanup ==
  /\ At("dispatch") /\ worker.copy.state = "Succeeded"
  /\ worker' = IF Due(worker.copy.end)
                 THEN [worker EXCEPT !.pc = "delete"]
                 ELSE [worker EXCEPT !.pc = "requeueAfter", !.until = worker.copy.end]
  /\ UNCHANGED <<now, cluster, up, cache, queue, timer, reported, spent>>

\* Delete goes by name, without a precondition on the UID.
DeleteJitRequest ==
  /\ At("delete") /\ Exists(obj[worker.key])
  /\ obj' = [obj EXCEPT ![worker.key] = Absent]
  /\ Done
  /\ UNCHANGED <<now, spec, created, bindings, present, up, cache, timer, reported, spent>>

\* NotFound is an error here as well.
DeleteJitRequestFails ==
  /\ At("delete")
  /\ \/ ~Exists(obj[worker.key]) /\ UNCHANGED <<obj, spent>>
     \/ Exists(obj[worker.key]) /\ Fails /\ obj' \in {obj, [obj EXCEPT ![worker.key] = Absent]}
  /\ Requeue
  /\ UNCHANGED <<now, spec, created, bindings, present, up, cache, timer, reported>>
-----------------------------------------------------------------------------
Environment ==
  \/ \E r \in Requests : CreateK8sObject(r) \/ Withdraw(r)
  \/ \E n \in Namespaces : Evict(n)
  \/ Crash

Runtime ==
  \/ Restart
  \/ \E r \in Requests : Sync(r) \/ TimerFires(r) \/ Reconcile(r) \/ ConfigUnreadable(r)
  \/ \E b \in bindings : GarbageCollect(b)

\* The steps of the reconcile in progress.
Handlers ==
  \/ HandleNewRequest \/ NamespaceLookupFails
  \/ HandleRejected \/ HandlePreApproved \/ HandleCleanup
  \/ \E n \in worker.left : CreateRoleBinding(n) \/ CreateRoleBindingFails(n)
  \/ RoleBindingsCreated
  \/ UpdateStatus \/ UpdateStatusFails
  \/ CallbackToApi \/ RequeueAfter
  \/ DeleteJitRequest \/ DeleteJitRequestFails

Next == Tick \/ Environment \/ Runtime \/ Handlers

Spec == Init /\ [][Next]_vars

\* Time passes, the process is restarted, informer, timers and garbage collector do
\* their work, a reconcile in progress goes on.  The work queue is first in, first
\* out, so a queued key gets its turn however often others come back: strong
\* fairness of Reconcile.  Nothing is assumed of the environment.
Fairness ==
  /\ WF_vars(Tick)
  /\ WF_vars(Restart)
  /\ WF_vars(Handlers)
  /\ \A r \in Requests : WF_vars(Sync(r)) /\ WF_vars(TimerFires(r)) /\ SF_vars(Reconcile(r))
  /\ WF_vars(\E b \in bindings : GarbageCollect(b))

FairSpec == Spec /\ Fairness
-----------------------------------------------------------------------------
(* Properties *)

\* The types of the variables; a reconcile in progress has a JitRequest, and a process that
\* runs it.
TypeOK ==
  /\ now \in Times
  /\ spec \in [Requests -> [Incarnations -> Specs]]
  /\ obj \in [Requests -> Objects]
  /\ created \in [Requests -> 0 .. MaxIncarnations]
  /\ bindings \subseteq Bindings
  /\ present \subseteq Namespaces
  /\ up \in BOOLEAN
  /\ cache \in [Requests -> Objects]
  /\ queue \subseteq Requests
  /\ timer \in [Requests -> Times \union {NoTimer}]
  /\ worker \in Workers
  /\ (At("idle") \/ (up /\ worker.key \in Requests /\ Exists(worker.copy)))
  /\ reported \in [Requests -> States]
  /\ spent \in [failures : Nat, crashes : Nat, withdrawals : Nat, evictions : Nat]

\* No RoleBinding exists before the start time of its request, whatever is stale,
\* retried or lost in a crash (handlePreApproved's check guards createRoleBinding).
NoAccessBeforeStart == \A b \in bindings : spec[b.req][b.owner].start <= now

\* A RoleBinding grants an allowed role in a namespace that was asked for and
\* matches the regex, and its JitRequest, if it still exists, was not rejected:
\* only what handleNewRequest accepted is ever bound.
OnlyVettedAccess ==
  \A b \in bindings :
    /\ RoleAllowed(spec[b.req][b.owner])
    /\ b.ns \in spec[b.req][b.owner].namespaces \intersect AllowedNamespaces
    /\ OwnerAlive(b) => obj[b.req].state \in {"Pending", "Succeeded"}

\* The JitRequest named r has its own RoleBinding in every namespace it names that
\* still exists.
IsBound(r) ==
  \A n \in spec[r][obj[r].uid].namespaces \intersect present :
    RoleBinding(r, n, obj[r].uid) \in bindings

\* "Access granted until end time": before its end a Succeeded JitRequest has, in every
\* namespace it names, some RoleBinding, its own or another of its name.
SucceededMeansBound ==
  \A r \in Requests : obj[r].state = "Succeeded" /\ now < spec[r][obj[r].uid].end =>
    \A n \in spec[r][obj[r].uid].namespaces \intersect present : \E b \in BindingsOf(r) : b.ns = n

\* No other JitRequest of the name starts before the one that exists.
NotPreceded(r) == \A k \in 1 .. created[r] : spec[r][obj[r].uid].start <= spec[r][k].start

\* createRoleBinding takes AlreadyExists for success, so what is Succeeded may rest on
\* a RoleBinding of an earlier JitRequest of its name, which the garbage collector
\* removes.  That takes an earlier one with an earlier start: without it a Succeeded
\* JitRequest has its own RoleBindings, although its name was used before.
BoundUnlessPreceded ==
  \A r \in Requests : obj[r].state = "Succeeded" /\ NotPreceded(r) => IsBound(r)

\* The status of a JitRequest only goes New -> Pending -> Succeeded or New ->
\* Rejected, although the reconciler writes from a copy that may be old.
StatusMovesForward ==
  [][\A r \in Requests :
       obj'[r].uid = obj[r].uid /\ obj'[r].state # obj[r].state =>
         <<obj[r].state, obj'[r].state>>
           \in {<<"New", "Pending">>, <<"New", "Rejected">>, <<"Pending", "Succeeded">>}]_vars

\* What a callback tells the API is what the JitRequest's status says: a state is
\* reported after it was persisted, and no old state is reported for a newer one.
ReportsAreTrue ==
  [][\A r \in Requests :
       reported'[r] # reported[r] /\ obj[r].uid = worker.copy.uid
         => reported'[r] = obj[r].state]_vars

\* The promise to the user and to the approver (see AccessGrant).
Promise == INSTANCE AccessGrant
             WITH window <- spec,
                  issued <- created,
                  open <- {<<r, obj[r].uid>> : r \in {q \in Requests : Exists(obj[q])}},
                  accepted <- {<<r, obj[r].uid>> :
                                 r \in {q \in Requests : obj[q].state \in {"Pending", "Succeeded"}}},
                  access <- bindings,
                  withdrawals <- spent.withdrawals,
                  evictions <- spent.evictions

\* The operator implements AccessGrant: access starts and ends as promised.
KeepsPromise == Promise!Spec

\* All access of a JitRequest whose end time has come is eventually revoked.
ExpiredIsRevoked ==
  \A r \in Requests : \A k \in Incarnations :
    (now >= spec[r][k].end /\ BindingsUnder(r, k) # {}) ~> (BindingsUnder(r, k) = {})

\* No JitRequest stays for ever: granted or rejected, it is deleted in the end.
EveryRequestIsSettled == \A r \in Requests : Exists(obj[r]) ~> ~Exists(obj[r])

\* A JitRequest accepted as Pending is granted in the end, unless it is withdrawn.
PendingIsGranted ==
  \A r \in Requests :
    obj[r].state = "Pending" ~> (obj[r].state = "Succeeded" \/ ~Exists(obj[r]))
=============================================================================
