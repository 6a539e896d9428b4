---------------------- MODULE JitRequestOperator_proofs ----------------------
(***************************************************************************)
(* Safety of JitRequestOperator for every set of requests, namespaces and  *)
(* specs and for every bound.  The argument: whatever the reconciler reads *)
(* is a version the JitRequest had or still has (Version), so a write the  *)
(* API server accepts continues the newest version; and a RoleBinding is   *)
(* only created from a version that was vetted and whose start has come.   *)
(***************************************************************************)
EXTENDS JitRequestOperator, TLAPS

Granted == {"Pending", "Succeeded"}
Vetted(r, k) == RoleAllowed(spec[r][k]) /\ NamespacesAllowed(spec[r][k])

\* c is what the API server has, or had, under the name r.
Version(r, c) ==
  /\ c.uid <= created[r]
  /\ c.uid = 0 => c = Absent
  /\ c.uid = obj[r].uid => /\ c.rv <= obj[r].rv
                           /\ c.rv = obj[r].rv => c = obj[r]
                           /\ c.state \in Granted => obj[r].state \in Granted
  /\ c.state \in Granted => Vetted(r, c.uid) /\ c.start = spec[r][c.uid].start

VersionsOK == \A r \in Requests : Version(r, obj[r]) /\ Version(r, cache[r])

\* What the rest of a reconcile relies on.
Intention ==
  /\ worker.copy.uid # 0
  /\ At("update") =>
       \/ worker.target = "Rejected" /\ worker.copy.state = "New"
       \/ worker.target = "Pending" /\ worker.copy.state = "New"
          /\ Vetted(worker.key, worker.copy.uid)
       \/ worker.target = "Succeeded" /\ worker.copy.state = "Pending"
  /\ At("bind") => /\ worker.copy.state = "Pending"
                   /\ Request.start <= now
                   /\ worker.left \subseteq Request.namespaces

WorkerOK == ~At("idle") => Version(worker.key, worker.copy) /\ Intention

BindingOK(b) ==
  /\ b.owner \in 1 .. created[b.req]
  /\ spec[b.req][b.owner].start <= now
  /\ RoleAllowed(spec[b.req][b.owner])
  /\ b.ns \in spec[b.req][b.owner].namespaces \intersect AllowedNamespaces
  /\ OwnerAlive(b) => obj[b.req].state \in Granted
BindingsOK == \A b \in bindings : BindingOK(b)

\* The inductive invariant.
IInv == TypeOK /\ VersionsOK /\ WorkerOK /\ BindingsOK
-----------------------------------------------------------------------------
(* Type correctness *)

\* An idle worker, and the copy it does not hold, are of their types.
LEMMA IdleType == Absent \in Objects /\ Idle \in Workers /\ Idle.pc = "idle"
<1>1. 0 \in Times /\ 0 \in 0 .. MaxIncarnations
  BY ConstantsAssumption DEF Times
<1>2. Absent \in Objects
  BY <1>1 DEF Absent, Objects, States
<1> QED BY <1>1, <1>2 DEF Idle, Workers, PCs, States

\* A reconcile in progress is about one incarnation of its name, with a spec of its own.
LEMMA RequestType ==
  ASSUME TypeOK, ~At("idle")
  PROVE  /\ worker.key \in Requests
         /\ worker.copy \in Objects
         /\ worker.copy.uid \in Incarnations
         /\ Request \in Spectra
         /\ Request.start \in Times /\ Request.end \in Times /\ Request.namespaces \subseteq Namespaces
<1>1. worker.key \in Requests /\ worker.copy \in Objects /\ worker.copy.uid # 0
  BY DEF TypeOK, Workers, Exists
<1>2. worker.copy.uid \in Incarnations
  BY <1>1, ConstantsAssumption DEF Objects, Incarnations
<1>3. Request \in Spectra
  BY <1>1, <1>2, ConstantsAssumption DEF TypeOK, Request
<1> QED BY <1>1, <1>2, <1>3 DEF Spectra

\* The object a status update writes is of its type.
LEMMA NewStatusType ==
  ASSUME TypeOK, ~At("idle")
  PROVE  NewStatus \in Objects
<1>1. worker.copy \in Objects /\ worker.target \in States
  BY DEF TypeOK, Workers
<1>2. Request.start \in Times /\ Request.end \in Times
  BY RequestType
<1> DEFINE rv == worker.copy.rv + 1
<1>3. rv \in Nat
  BY <1>1 DEF Objects
<1>4. NewStatus = [worker.copy EXCEPT !.rv = rv, !.state = worker.target,
                                      !.start = Request.start, !.end = Request.end]
  BY <1>1 DEF NewStatus, Objects
<1> HIDE DEF rv
<1> QED BY <1>1, <1>2, <1>3, <1>4 DEF Objects

\* Every step keeps the variables in their types.
LEMMA TypeStep == TypeOK /\ [Next]_vars => TypeOK'
<1> SUFFICES ASSUME TypeOK, [Next]_vars PROVE TypeOK'
  OBVIOUS
<1> USE ConstantsAssumption
<1> USE DEF TypeOK
<1>0. Absent \in Objects /\ Idle \in Workers /\ Idle.pc = "idle"
  BY IdleType
<1>1. CASE Tick
  BY <1>1 DEF Tick, cluster, process, Times, At
<1>2. ASSUME NEW r \in Requests, CreateK8sObject(r) PROVE TypeOK'
  <2> DEFINE new == [Absent EXCEPT !.uid = created[r] + 1, !.rv = 1]
  <2>1. new \in Objects
    <3>1. created[r] + 1 \in 0 .. MaxIncarnations
      BY <1>2 DEF CreateK8sObject
    <3> QED BY <1>0, <3>1 DEF Objects
  <2>2. obj' \in [Requests -> Objects] /\ created' \in [Requests -> 0 .. MaxIncarnations]
    BY <1>2, <2>1 DEF CreateK8sObject
  <2> QED BY <1>2, <2>2 DEF CreateK8sObject, process, At
<1>3. ASSUME NEW r \in Requests, Withdraw(r) PROVE TypeOK'
  BY <1>0, <1>3 DEF Withdraw, process, At
<1>4. ASSUME NEW n \in Namespaces, Evict(n) PROVE TypeOK'
  BY <1>4 DEF Evict, process, At
<1>5. CASE Crash
  <2>1. spent' \in [failures : Nat, crashes : Nat, withdrawals : Nat, evictions : Nat]
    BY <1>5 DEF Crash
  <2>2. timer' \in [Requests -> Times \union {NoTimer}]
    BY <1>5 DEF Crash
  <2> QED BY <1>0, <1>5, <2>1, <2>2 DEF Crash, cluster, At
<1>6. CASE Restart
  BY <1>6 DEF Restart, cluster, At
<1>7. ASSUME NEW r \in Requests, Sync(r) PROVE TypeOK'
  BY <1>7 DEF Sync, cluster, At
<1>8. ASSUME NEW r \in Requests, TimerFires(r) PROVE TypeOK'
  BY <1>8 DEF TimerFires, cluster, At
<1>9. ASSUME NEW r \in Requests, Reconcile(r) PROVE TypeOK'
  BY <1>0, <1>9 DEF Reconcile, cluster, At, Workers, PCs, Idle, Exists
<1>10. ASSUME NEW r \in Requests, ConfigUnreadable(r) PROVE TypeOK'
  BY <1>10 DEF ConfigUnreadable, Fails, cluster, process, At
<1>11. ASSUME NEW b \in bindings, GarbageCollect(b) PROVE TypeOK'
  BY <1>11 DEF GarbageCollect, process, At
<1>12. CASE HandleNewRequest
  BY <1>12 DEF HandleNewRequest, Verdict, cluster, At, Workers, PCs, States
<1>13. CASE NamespaceLookupFails
  <2>1. spent' \in [failures : Nat, crashes : Nat, withdrawals : Nat, evictions : Nat]
    <3>1. spent' = [spent EXCEPT !.failures = @ + 1]
      BY <1>13 DEF NamespaceLookupFails, Fails
    <3> QED BY <3>1
  <2>2. worker' \in Workers /\ worker'.key = worker.key
    BY <1>13 DEF NamespaceLookupFails, Workers, PCs, States
  <2> QED BY <1>13, <2>1, <2>2 DEF NamespaceLookupFails, cluster, At
<1>14. CASE HandleRejected
  BY <1>14 DEF HandleRejected, Goto, cluster, At, Workers, PCs
<1>15. CASE HandlePreApproved
  <2>1. Request.namespaces \in SUBSET Namespaces
    BY <1>15, RequestType DEF HandlePreApproved, At
  <2> QED BY <1>15, <2>1 DEF HandlePreApproved, cluster, At, Workers, PCs, Objects
<1>16. CASE HandleCleanup
  BY <1>16 DEF HandleCleanup, cluster, At, Workers, PCs, Objects
<1>17. ASSUME NEW n \in worker.left, CreateRoleBinding(n) PROVE TypeOK'
  <2>1. NewBinding(n) \subseteq Bindings
    BY <1>17, RequestType DEF CreateRoleBinding, NewBinding, RoleBinding, Bindings, At, Workers
  <2> QED BY <1>17, <2>1 DEF CreateRoleBinding, At, Workers
<1>18. ASSUME NEW n \in worker.left, CreateRoleBindingFails(n) PROVE TypeOK'
  <2>1. NewBinding(n) \subseteq Bindings
    BY <1>18, RequestType DEF CreateRoleBindingFails, NewBinding, RoleBinding, Bindings, At, Workers
  <2> QED BY <1>0, <1>18, <2>1 DEF CreateRoleBindingFails, Fails, Requeue, At
<1>19. CASE RoleBindingsCreated
  BY <1>19 DEF RoleBindingsCreated, cluster, At, Workers, PCs, States
<1>20. CASE UpdateStatus
  <2>1. NewStatus \in Objects
    BY <1>20, NewStatusType DEF UpdateStatus, At
  <2>2. NewStatus.uid = worker.copy.uid /\ Exists(worker.copy) /\ up /\ worker.key \in Requests
    BY <1>20 DEF UpdateStatus, NewStatus, At, Workers, Objects
  <2>3. obj' \in [Requests -> Objects]
    BY <1>20, <2>1, <2>2 DEF UpdateStatus
  <2>4. worker' = Idle \/ (worker' \in Workers /\ worker'.key = worker.key /\ worker'.copy = NewStatus)
    BY <1>20, <2>1 DEF UpdateStatus, Workers, PCs
  <2> QED BY <1>0, <1>20, <2>2, <2>3, <2>4 DEF UpdateStatus, At, Exists
<1>21. CASE UpdateStatusFails
  <2>1. NewStatus \in Objects
    BY <1>21, NewStatusType DEF UpdateStatusFails, At
  <2> QED BY <1>0, <1>21, <2>1 DEF UpdateStatusFails, Fails, Requeue, At
<1>22. CASE CallbackToApi
  <2>1. Request.start \in Times /\ worker.copy.state \in States
    BY <1>22, RequestType DEF CallbackToApi, At, Objects
  <2> QED BY <1>22, <2>1 DEF CallbackToApi, cluster, At, Workers, PCs
<1>23. CASE RequeueAfter
  BY <1>0, <1>23 DEF RequeueAfter, Done, Earlier, cluster, At, Workers
<1>24. CASE DeleteJitRequest
  BY <1>0, <1>24 DEF DeleteJitRequest, Done, At
<1>25. CASE DeleteJitRequestFails
  BY <1>0, <1>25 DEF DeleteJitRequestFails, Fails, Requeue, At
<1>26. CASE UNCHANGED vars
  BY <1>26 DEF vars, cluster, process, At
<1> QED
  BY <1>1, <1>2, <1>3, <1>4, <1>5, <1>6, <1>7, <1>8, <1>9, <1>10, <1>11, <1>12, <1>13, <1>14,
     <1>15, <1>16, <1>17, <1>18, <1>19, <1>20, <1>21, <1>22, <1>23, <1>24, <1>25, <1>26
     DEF Next, Environment, Runtime, Handlers
-----------------------------------------------------------------------------
(* Versions *)

\* A new object has a UID no copy has, so it contradicts none.
LEMMA CreateKeepsVersions ==
  ASSUME TypeOK, VersionsOK, NEW q \in Requests, CreateK8sObject(q), NEW r \in Requests
  PROVE  Version(r, obj[r])' /\ \A c \in Objects : Version(r, c) => Version(r, c)'
<1>1. created'[q] = created[q] + 1 /\ created[q] \in Nat
  BY DEF CreateK8sObject, TypeOK
<1>2. obj'[q].uid = created[q] + 1 /\ obj'[q].state = "New"
  BY DEF CreateK8sObject, TypeOK, Absent
<1>3. \A p \in Requests : p # q => obj'[p] = obj[p] /\ created'[p] = created[p]
  BY DEF CreateK8sObject, TypeOK
<1>4. spec' = spec
  BY DEF CreateK8sObject
<1>5. CASE r # q
  <2>1. obj'[r] = obj[r] /\ created'[r] = created[r]
    BY <1>3, <1>5
  <2> QED BY <2>1, <1>4 DEF Version, VersionsOK, Vetted
<1>6. CASE r = q
  <2>0. created[r] \in Nat /\ created'[r] = created[r] + 1 /\ obj'[r].uid = created[r] + 1
        /\ obj'[r].state = "New"
    BY <1>1, <1>2, <1>6
  <2>1. Version(r, obj[r])'
    <3>1. obj'[r] \in Objects
      BY TypeStep DEF TypeOK, Next, Environment
    <3>2. obj'[r].rv <= obj'[r].rv /\ obj'[r].uid <= created'[r] /\ obj'[r].uid # 0
      BY <2>0, <3>1 DEF Objects
    <3>3. obj'[r].state \notin Granted
      BY <2>0 DEF Granted
    <3> QED BY <3>2, <3>3 DEF Version
  <2>2. ASSUME NEW c \in Objects, Version(r, c) PROVE Version(r, c)'
    <3>1. c.uid <= created[r] /\ c.uid \in Nat
      BY <2>2 DEF Version, Objects
    <3>2. c.uid <= created'[r] /\ c.uid # obj'[r].uid
      BY <2>0, <3>1
    <3> QED BY <2>2, <3>2, <1>4 DEF Version, Vetted
  <2> QED BY <2>1, <2>2
<1> QED BY <1>5, <1>6

\* Removing an object leaves copies of it that no longer match its UID.
LEMMA RemovalKeepsVersions ==
  ASSUME TypeOK, VersionsOK, NEW q \in Requests, obj' = [obj EXCEPT ![q] = Absent],
         UNCHANGED <<spec, created>>, NEW r \in Requests
  PROVE  Version(r, obj[r])' /\ \A c \in Objects : Version(r, c) => Version(r, c)'
<1>1. CASE r # q
  <2>1. obj'[r] = obj[r]
    BY <1>1 DEF TypeOK
  <2> QED BY <2>1 DEF Version, VersionsOK, Vetted
<1>2. CASE r = q
  <2>1. obj'[r] = Absent /\ Absent.uid = 0 /\ Absent.rv = 0 /\ Absent.state = "New"
    BY <1>2 DEF TypeOK, Absent
  <2>2. created[r] \in Nat /\ created'[r] = created[r] /\ spec' = spec
    BY DEF TypeOK
  <2>3. Version(r, obj[r])'
    BY <2>1, <2>2 DEF Version, Granted
  <2>4. ASSUME NEW c \in Objects, Version(r, c) PROVE Version(r, c)'
    <3>1. c.uid = 0 => c = Absent /\ c.rv = 0 /\ c.state \notin Granted
      BY <2>1, <2>4 DEF Version, Granted
    <3> QED BY <2>1, <2>2, <2>4, <3>1 DEF Version, Vetted
  <2> QED BY <2>3, <2>4
<1> QED BY <1>1, <1>2

\* A write the API server accepts comes from the newest version.
LEMMA WriteIsCurrent ==
  ASSUME IInv, At("update"), UpToDate
  PROVE  /\ worker.key \in Requests
         /\ worker.copy = obj[worker.key]
         /\ NewStatus.uid = obj[worker.key].uid
         /\ NewStatus.rv = obj[worker.key].rv + 1
         /\ NewStatus.state = worker.target
         /\ NewStatus.start = spec[worker.key][NewStatus.uid].start
<1>1. worker.key \in Requests /\ worker.copy \in Objects
  BY DEF IInv, TypeOK, At, Workers
<1>2. worker.copy = obj[worker.key]
  BY DEF IInv, WorkerOK, Intention, Version, UpToDate, At
<1> QED BY <1>1, <1>2 DEF NewStatus, Objects, Request

\* A status update gives the object a resourceVersion no copy has.
LEMMA WriteKeepsVersions ==
  ASSUME IInv, At("update"), UpToDate, obj' = [obj EXCEPT ![worker.key] = NewStatus],
         UNCHANGED <<spec, created>>, NEW r \in Requests
  PROVE  Version(r, obj[r])' /\ \A c \in Objects : Version(r, c) => Version(r, c)'
<1> DEFINE k == worker.key
<1>0. TypeOK /\ VersionsOK
  BY DEF IInv
<1>1. k \in Requests /\ worker.copy = obj[k] /\ obj[k] \in Objects /\ NewStatus.uid = obj[k].uid
      /\ NewStatus.rv = obj[k].rv + 1 /\ NewStatus.state = worker.target
      /\ NewStatus.start = spec[k][NewStatus.uid].start
  BY <1>0, WriteIsCurrent DEF TypeOK
<1>2. CASE r # k
  <2>1. obj'[r] = obj[r]
    BY <1>0, <1>1, <1>2 DEF TypeOK
  <2> QED BY <1>0, <2>1 DEF Version, VersionsOK, Vetted
<1>3. CASE r = k
  <2>1. obj'[r] = NewStatus
    BY <1>0, <1>1, <1>3 DEF TypeOK
  <2>2. obj[r].uid # 0 /\ obj[r].uid <= created[r]
    BY <1>0, <1>1, <1>3 DEF IInv, WorkerOK, Intention, VersionsOK, Version, At
  <2>3. obj[r].state \in Granted => worker.target \in Granted
    BY <1>1, <1>3 DEF IInv, WorkerOK, Intention, At, Granted
  <2>4. worker.target \in Granted => Vetted(r, NewStatus.uid)
    BY <1>1, <1>3 DEF IInv, WorkerOK, Intention, Version, At, Granted
  <2>5. Version(r, obj[r])'
    BY <1>1, <1>3, <2>1, <2>2, <2>4, NewStatusType DEF Version, Vetted, Objects, IInv, At
  <2>6. ASSUME NEW c \in Objects, Version(r, c) PROVE Version(r, c)'
    <3>1. c.uid = obj[r].uid => c.rv < NewStatus.rv
      BY <1>1, <1>3, <2>6 DEF Version, Objects
    <3>2. c.uid = obj[r].uid => (c.rv <= NewStatus.rv /\ c.rv # NewStatus.rv)
      BY <1>1, <3>1 DEF Objects
    <3> QED BY <1>1, <1>3, <2>1, <2>3, <2>6, <3>2 DEF Version, Vetted
  <2> QED BY <2>5, <2>6
<1> QED BY <1>2, <1>3

\* Steps that leave the API server's JitRequests alone keep every version.
LEMMA QuietKeepsVersions ==
  ASSUME VersionsOK, UNCHANGED <<spec, obj, created>>, NEW r \in Requests
  PROVE  Version(r, obj[r])' /\ \A c \in Objects : Version(r, c) => Version(r, c)'
BY DEF VersionsOK, Version, Vetted

\* What was a version stays one, and the object itself always is one.
LEMMA VersionsAreKept ==
  ASSUME IInv, [Next]_vars, NEW r \in Requests
  PROVE  Version(r, obj[r])' /\ \A c \in Objects : Version(r, c) => Version(r, c)'
<1>0. TypeOK /\ VersionsOK
  BY DEF IInv
<1>1. CASE UNCHANGED <<spec, obj, created>>
  BY <1>0, <1>1, QuietKeepsVersions
<1>2. ASSUME NEW q \in Requests, CreateK8sObject(q)
      PROVE  Version(r, obj[r])' /\ \A c \in Objects : Version(r, c) => Version(r, c)'
  BY <1>0, <1>2, CreateKeepsVersions
<1>3. ASSUME NEW q \in Requests, Withdraw(q)
      PROVE  Version(r, obj[r])' /\ \A c \in Objects : Version(r, c) => Version(r, c)'
  BY <1>0, <1>3, RemovalKeepsVersions DEF Withdraw
<1>4. CASE UpdateStatus
  BY <1>4, WriteKeepsVersions DEF UpdateStatus
<1>5. CASE UpdateStatusFails
  <2>1. CASE obj' = obj
    BY <1>0, <1>5, <2>1, QuietKeepsVersions DEF UpdateStatusFails
  <2>2. CASE obj' # obj
    BY <1>5, <2>2, WriteKeepsVersions DEF UpdateStatusFails
  <2> QED BY <2>1, <2>2
<1>6. CASE DeleteJitRequest \/ DeleteJitRequestFails
  <2>1. worker.key \in Requests
    BY <1>0, <1>6 DEF DeleteJitRequest, DeleteJitRequestFails, TypeOK, At
  <2>2. CASE obj' = obj
    BY <1>0, <1>6, <2>2, QuietKeepsVersions DEF DeleteJitRequest, DeleteJitRequestFails
  <2>3. CASE obj' # obj
    BY <1>0, <1>6, <2>1, <2>3, RemovalKeepsVersions DEF DeleteJitRequest, DeleteJitRequestFails
  <2> QED BY <2>2, <2>3
<1>7. \/ UNCHANGED <<spec, obj, created>>
      \/ \E q \in Requests : CreateK8sObject(q) \/ Withdraw(q)
      \/ UpdateStatus \/ UpdateStatusFails \/ DeleteJitRequest \/ DeleteJitRequestFails
  BY DEF Next, Environment, Runtime, Handlers, vars, cluster, Tick, Evict, Crash, Restart, Sync,
     TimerFires, Reconcile, ConfigUnreadable, GarbageCollect, HandleNewRequest,
     NamespaceLookupFails, HandleRejected, HandlePreApproved, HandleCleanup, CreateRoleBinding,
     CreateRoleBindingFails, RoleBindingsCreated, CallbackToApi, RequeueAfter
<1> QED BY <1>1, <1>2, <1>3, <1>4, <1>5, <1>6, <1>7

\* The informer only ever holds versions: it keeps one or takes the object itself.
LEMMA VersionsStep == IInv /\ [Next]_vars => VersionsOK'
<1> SUFFICES ASSUME IInv, [Next]_vars, NEW r \in Requests
             PROVE  Version(r, obj[r])' /\ Version(r, cache[r])'
  BY DEF VersionsOK
<1>0. TypeOK /\ TypeOK' /\ VersionsOK
  BY TypeStep DEF IInv
<1>1. Version(r, obj[r])'
  BY VersionsAreKept
<1>2. \A c \in Objects : Version(r, c) => Version(r, c)'
  BY VersionsAreKept
<1>3. cache'[r] = cache[r] \/ cache'[r] = obj'[r]
  <2>1. cache' = cache \/ (\E q \in Requests : Sync(q)) \/ Restart
    BY DEF Next, Environment, Runtime, Handlers, vars, cluster, process, Tick, CreateK8sObject,
       Withdraw, Evict, Crash, TimerFires, Reconcile, ConfigUnreadable, GarbageCollect,
       HandleNewRequest, NamespaceLookupFails, HandleRejected, HandlePreApproved, HandleCleanup,
       CreateRoleBinding, CreateRoleBindingFails, RoleBindingsCreated, UpdateStatus,
       UpdateStatusFails, CallbackToApi, RequeueAfter, DeleteJitRequest, DeleteJitRequestFails
  <2> QED BY <1>0, <2>1 DEF Sync, Restart, cluster, TypeOK
<1>4. CASE cache'[r] = obj'[r]
  BY <1>1, <1>4 DEF Version
<1>5. CASE cache'[r] = cache[r]
  <2>1. cache[r] \in Objects /\ Version(r, cache[r])
    BY <1>0 DEF TypeOK, VersionsOK
  <2>2. \A c \in Objects : c = cache'[r] => Version(r, c)'
    BY <1>2, <1>5, <2>1
  <2>3. cache'[r] \in Objects
    BY <1>5, <2>1
  <2> QED BY <1>1, <2>2, <2>3 DEF Version, Vetted
<1> QED BY <1>1, <1>3, <1>4, <1>5
-----------------------------------------------------------------------------
(* The reconcile in progress *)

\* A reconcile starts from a version that exists.
LEMMA ReconcileReadsVersions ==
  ASSUME IInv, [Next]_vars, NEW r \in Requests, Reconcile(r), ~At("idle")'
  PROVE  Version(worker.key, worker.copy)' /\ Intention'
<1>0. TypeOK /\ VersionsOK
  BY DEF IInv
<1>1. worker' = [Idle EXCEPT !.pc = "dispatch", !.key = r, !.copy = cache[r]] /\ Exists(cache[r])
  BY IdleType DEF Reconcile, At
<1>2. worker'.key = r /\ worker'.copy = cache[r] /\ worker'.pc = "dispatch"
  BY <1>1 DEF Idle
<1>3. cache[r] \in Objects /\ Version(r, cache[r])
  BY <1>0 DEF TypeOK, VersionsOK
<1>4. \A c \in Objects : Version(r, c) => Version(r, c)'
  BY VersionsAreKept
<1> QED BY <1>1, <1>2, <1>3, <1>4 DEF Version, Intention, At, Exists

\* The grounds of a reconcile survive the passing of time.
LEMMA IntentionKept ==
  ASSUME IInv, ~At("idle"), worker' = worker, spec' = spec, now <= now', now \in Int, now' \in Int
  PROVE  Intention'
<1>1. Request.start \in Int
  BY RequestType, ConstantsAssumption DEF IInv, Times
<1> QED BY <1>1 DEF IInv, WorkerOK, Intention, At, Vetted, Request

\* What each handler step leaves to do is what the next step may rely on.
LEMMA IntentionStep ==
  ASSUME IInv, Handlers, ~At("idle")'
  PROVE  Intention'
<1>0. TypeOK /\ worker \in Workers /\ worker.copy \in Objects
  BY DEF IInv, TypeOK, Workers
<1>1. CASE HandleNewRequest
  <2>1. worker.copy.uid # 0 /\ worker.copy.state = "New" /\ spec' = spec
    BY <1>1 DEF HandleNewRequest, IInv, WorkerOK, Intention, At, cluster
  <2>2. worker'.pc = "update" /\ worker'.copy = worker.copy /\ worker'.key = worker.key
        /\ worker'.target = IF Valid(Request) /\ Upcoming(Request) THEN "Pending" ELSE "Rejected"
    BY <1>0, <1>1 DEF HandleNewRequest, Verdict, Workers
  <2>3. Valid(Request) => Vetted(worker.key, worker.copy.uid)
    BY DEF Valid, Vetted, Request
  <2> QED BY <2>1, <2>2, <2>3 DEF Intention, At, Vetted
<1>2. CASE NamespaceLookupFails
  <2>1. worker.copy.uid # 0 /\ worker.copy.state = "New"
    BY <1>2 DEF NamespaceLookupFails, IInv, WorkerOK, Intention, At
  <2>2. worker'.pc = "update" /\ worker'.copy = worker.copy /\ worker'.target = "Rejected"
    BY <1>0, <1>2 DEF NamespaceLookupFails, Workers
  <2> QED BY <2>1, <2>2 DEF Intention, At
<1>3. CASE HandleRejected
  <2>1. worker.copy.uid # 0
    BY <1>3 DEF HandleRejected, IInv, WorkerOK, Intention, At
  <2>2. worker'.pc = "callback" /\ worker'.copy = worker.copy
    BY <1>0, <1>3 DEF HandleRejected, Goto, Workers
  <2> QED BY <2>1, <2>2 DEF Intention, At
<1>4. CASE HandlePreApproved
  <2>1. worker.copy.uid # 0 /\ worker.copy.state = "Pending" /\ worker.copy.start = Request.start
    BY <1>4 DEF HandlePreApproved, IInv, WorkerOK, Intention, Version, At, Granted, Request
  <2>2. CASE Due(worker.copy.start)
    <3>1. worker'.pc = "bind" /\ worker'.copy = worker.copy /\ worker'.key = worker.key
          /\ worker'.left = Request.namespaces /\ now' = now /\ spec' = spec
      BY <1>0, <1>4, <2>2 DEF HandlePreApproved, Workers, cluster
    <3> QED BY <2>1, <2>2, <3>1 DEF Intention, At, Request, Due
  <2>3. CASE ~Due(worker.copy.start)
    <3>1. worker'.pc = "requeueAfter" /\ worker'.copy = worker.copy
      BY <1>0, <1>4, <2>3 DEF HandlePreApproved, Workers
    <3> QED BY <2>1, <3>1 DEF Intention, At
  <2> QED BY <2>2, <2>3
<1>5. CASE HandleCleanup
  <2>1. worker.copy.uid # 0
    BY <1>5 DEF HandleCleanup, IInv, WorkerOK, Intention, At
  <2>2. worker'.pc \in {"delete", "requeueAfter"} /\ worker'.copy = worker.copy
    BY <1>0, <1>5 DEF HandleCleanup, Workers
  <2> QED BY <2>1, <2>2 DEF Intention, At
<1>6. ASSUME NEW n \in worker.left, CreateRoleBinding(n) PROVE Intention'
  <2>1. Intention /\ At("bind")
    BY <1>6 DEF CreateRoleBinding, IInv, WorkerOK, Intention, At
  <2>2. worker'.pc = "bind" /\ worker'.copy = worker.copy /\ worker'.key = worker.key
        /\ worker'.left = worker.left \ {n} /\ now' = now /\ spec' = spec
    BY <1>0, <1>6 DEF CreateRoleBinding, Workers, At
  <2> QED BY <2>1, <2>2 DEF Intention, At, Request
<1>7. CASE RoleBindingsCreated
  <2>1. worker.copy.uid # 0 /\ worker.copy.state = "Pending"
    BY <1>7 DEF RoleBindingsCreated, IInv, WorkerOK, Intention, At
  <2>2. worker'.pc = "update" /\ worker'.copy = worker.copy /\ worker'.target = "Succeeded"
    BY <1>0, <1>7 DEF RoleBindingsCreated, Workers
  <2> QED BY <2>1, <2>2 DEF Intention, At
<1>8. CASE UpdateStatus
  <2>1. worker'.pc = "callback" /\ worker'.copy = NewStatus
    BY <1>0, <1>8, IdleType DEF UpdateStatus, Workers, At
  <2>2. NewStatus.uid # 0
    BY <1>8, WriteIsCurrent DEF UpdateStatus, IInv, WorkerOK, Intention, At
  <2> QED BY <2>1, <2>2 DEF Intention, At
<1>9. CASE CallbackToApi
  <2>1. worker.copy.uid # 0
    BY <1>9 DEF CallbackToApi, IInv, WorkerOK, Intention, At
  <2>2. worker'.pc \in {"delete", "dispatch", "requeueAfter"} /\ worker'.copy = worker.copy
    BY <1>0, <1>9 DEF CallbackToApi, Workers
  <2> QED BY <2>1, <2>2 DEF Intention, At
<1>10. \A n \in worker.left : ~CreateRoleBindingFails(n)
  BY IdleType DEF CreateRoleBindingFails, Requeue, At
<1>11. ~UpdateStatusFails /\ ~RequeueAfter /\ ~DeleteJitRequest /\ ~DeleteJitRequestFails
  BY IdleType DEF UpdateStatusFails, RequeueAfter, DeleteJitRequest, DeleteJitRequestFails,
     Requeue, Done, At
<1> QED
  BY <1>1, <1>2, <1>3, <1>4, <1>5, <1>6, <1>7, <1>8, <1>9, <1>10, <1>11 DEF Handlers

\* The copy a reconcile works on stays a version of its JitRequest.
LEMMA CopyStep ==
  ASSUME IInv, [Next]_vars, Handlers, ~At("idle")'
  PROVE  Version(worker.key, worker.copy)'
<1>0. TypeOK /\ worker \in Workers /\ worker.copy \in Objects
  BY DEF IInv, TypeOK, Workers
<1>1. ~At("idle")
  BY DEF Handlers, HandleNewRequest, NamespaceLookupFails, HandleRejected, HandlePreApproved,
     HandleCleanup, CreateRoleBinding, CreateRoleBindingFails, RoleBindingsCreated, UpdateStatus,
     UpdateStatusFails, CallbackToApi, RequeueAfter, DeleteJitRequest, DeleteJitRequestFails, At
<1>2. worker.key \in Requests /\ Version(worker.key, worker.copy)
  BY <1>0, <1>1 DEF IInv, TypeOK, WorkerOK
<1>3. \A r \in Requests : Version(r, obj[r])' /\ \A c \in Objects : Version(r, c) => Version(r, c)'
  BY VersionsAreKept
<1>4. worker'.key = worker.key /\ (worker'.copy = worker.copy \/ worker'.copy = obj'[worker.key])
  <2>1. CASE UpdateStatus
    <3>1. worker'.key = worker.key /\ worker'.copy = NewStatus
      BY <1>0, <2>1, IdleType DEF UpdateStatus, Workers, At
    <3>2. obj'[worker.key] = NewStatus
      BY <1>0, <1>2, <2>1 DEF UpdateStatus, TypeOK
    <3> QED BY <3>1, <3>2
  <2>2. CASE ~UpdateStatus
    BY <1>0, <2>2, IdleType DEF Handlers, HandleNewRequest, NamespaceLookupFails, HandleRejected,
       HandlePreApproved, HandleCleanup, CreateRoleBinding, CreateRoleBindingFails,
       RoleBindingsCreated, UpdateStatusFails, CallbackToApi, RequeueAfter, DeleteJitRequest,
       DeleteJitRequestFails, Requeue, Done, Goto, Workers, At
  <2> QED BY <2>1, <2>2
<1> QED BY <1>0, <1>2, <1>3, <1>4 DEF Version

\* A reconcile that was in progress and is not touched keeps its grounds while
\* the clock and the cluster move on.
LEMMA UntouchedWorker ==
  ASSUME IInv, [Next]_vars, worker' = worker
  PROVE  WorkerOK'
<1>0. TypeOK /\ TypeOK'
  BY TypeStep DEF IInv
<1>1. CASE At("idle")
  BY <1>1 DEF WorkerOK, At
<1>2. CASE ~At("idle")
  <2>1. worker.key \in Requests /\ worker.copy \in Objects /\ Version(worker.key, worker.copy)
    BY <1>0, <1>2 DEF IInv, WorkerOK, TypeOK, Workers
  <2>2. \A r \in Requests : \A c \in Objects : Version(r, c) => Version(r, c)'
    BY VersionsAreKept
  <2>3. Version(worker.key, worker.copy)'
    BY <2>1, <2>2 DEF Version
  <2>4. now <= now' /\ now \in Int /\ now' \in Int /\ spec' = spec
    <3>1. spec' = spec /\ (now' = now \/ now' = now + 1)
      BY DEF Next, Environment, Runtime, Handlers, vars, cluster, process, Tick, CreateK8sObject,
         Withdraw, Evict, Crash, Restart, Sync, TimerFires, Reconcile, ConfigUnreadable,
         GarbageCollect, HandleNewRequest, NamespaceLookupFails, HandleRejected,
         HandlePreApproved, HandleCleanup, CreateRoleBinding, CreateRoleBindingFails,
         RoleBindingsCreated, UpdateStatus, UpdateStatusFails, CallbackToApi, RequeueAfter,
         DeleteJitRequest, DeleteJitRequestFails
    <3> QED BY <1>0, <3>1, ConstantsAssumption DEF TypeOK, Times
  <2>5. Intention'
    BY <1>2, <2>4, IntentionKept
  <2> QED BY <2>3, <2>5 DEF WorkerOK
<1> QED BY <1>1, <1>2

\* Every step leaves the reconcile in progress well founded, or ends it.
LEMMA WorkerStep == IInv /\ [Next]_vars => WorkerOK'
<1> SUFFICES ASSUME IInv, [Next]_vars PROVE WorkerOK'
  OBVIOUS
<1>1. CASE worker' = worker
  BY <1>1, UntouchedWorker
<1>2. CASE At("idle")'
  BY <1>2 DEF WorkerOK
<1>3. ASSUME NEW r \in Requests, Reconcile(r), ~At("idle")' PROVE WorkerOK'
  BY <1>3, ReconcileReadsVersions DEF WorkerOK
<1>4. CASE Handlers /\ ~At("idle")'
  BY <1>4, CopyStep, IntentionStep DEF WorkerOK
<1>5. \/ worker' = worker \/ Handlers \/ Crash \/ \E r \in Requests : Reconcile(r)
  BY DEF Next, Environment, Runtime, vars, process, Tick, CreateK8sObject, Withdraw, Evict,
     Restart, Sync, TimerFires, ConfigUnreadable, GarbageCollect
<1>6. Crash => At("idle")'
  BY IdleType DEF Crash, At
<1> QED BY <1>1, <1>2, <1>3, <1>4, <1>5, <1>6
-----------------------------------------------------------------------------
(* RoleBindings *)

\* How a step changes the JitRequests: it creates one, removes one, or writes a
\* status the API server accepts.
LEMMA ObjectStep ==
  ASSUME TypeOK, Next
  PROVE  \/ obj' = obj /\ created' = created
         \/ \E q \in Requests : CreateK8sObject(q)
         \/ created' = created /\ \E q \in Requests : obj' = [obj EXCEPT ![q] = Absent]
         \/ At("update") /\ UpToDate /\ created' = created
            /\ obj' = [obj EXCEPT ![worker.key] = NewStatus]
BY DEF Next, Environment, Runtime, Handlers, vars, cluster, process, Tick, CreateK8sObject,
     Withdraw, Evict, Crash, Restart, Sync, TimerFires, Reconcile, ConfigUnreadable,
     GarbageCollect, HandleNewRequest, NamespaceLookupFails, HandleRejected,
     HandlePreApproved, HandleCleanup, CreateRoleBinding, CreateRoleBindingFails,
     RoleBindingsCreated, UpdateStatus, UpdateStatusFails, CallbackToApi, RequeueAfter,
     DeleteJitRequest, DeleteJitRequestFails, TypeOK, At

\* The clock and the UIDs only grow, and a JitRequest changes its UID only by
\* being deleted or created anew.
LEMMA HistoryStep ==
  ASSUME IInv, Next, NEW r \in Requests
  PROVE  /\ spec' = spec
         /\ now' \in {now, now + 1}
         /\ created'[r] \in {created[r], created[r] + 1}
         /\ obj'[r].uid \in {obj[r].uid, 0, created[r] + 1}
<1>0. TypeOK
  BY DEF IInv
<1>1. spec' = spec /\ (now' = now \/ now' = now + 1)
  BY DEF Next, Environment, Runtime, Handlers, vars, cluster, process, Tick, CreateK8sObject,
     Withdraw, Evict, Crash, Restart, Sync, TimerFires, Reconcile, ConfigUnreadable,
     GarbageCollect, HandleNewRequest, NamespaceLookupFails, HandleRejected,
     HandlePreApproved, HandleCleanup, CreateRoleBinding, CreateRoleBindingFails,
     RoleBindingsCreated, UpdateStatus, UpdateStatusFails, CallbackToApi, RequeueAfter,
     DeleteJitRequest, DeleteJitRequestFails
<1>2. ASSUME NEW q \in Requests, CreateK8sObject(q)
      PROVE  created'[r] \in {created[r], created[r] + 1}
             /\ obj'[r].uid \in {obj[r].uid, 0, created[r] + 1}
  BY <1>0, <1>2 DEF CreateK8sObject, TypeOK, Absent
<1>3. ASSUME NEW q \in Requests, obj' = [obj EXCEPT ![q] = Absent]
      PROVE  obj'[r].uid \in {obj[r].uid, 0, created[r] + 1}
  BY <1>0, <1>3 DEF TypeOK, Absent
<1>4. ASSUME At("update"), UpToDate, obj' = [obj EXCEPT ![worker.key] = NewStatus]
      PROVE  obj'[r].uid = obj[r].uid
  BY <1>0, <1>4, WriteIsCurrent DEF TypeOK
<1> QED BY <1>0, <1>1, <1>2, <1>3, <1>4, ObjectStep

\* A RoleBinding that was justified stays so.
LEMMA OldBinding ==
  ASSUME IInv, [Next]_vars, NEW b \in bindings
  PROVE  BindingOK(b)'
<1>0. TypeOK /\ TypeOK' /\ BindingOK(b) /\ VersionsOK /\ b.req \in Requests
      /\ b.owner \in Incarnations
  BY TypeStep DEF IInv, BindingsOK, TypeOK, Bindings
<1>1. \A r \in Requests : Version(r, obj[r]) /\ \A c \in Objects : Version(r, c) => Version(r, c)'
  BY <1>0, VersionsAreKept DEF VersionsOK
<1>2. \A r \in Requests : /\ spec' = spec
                         /\ now' \in {now, now + 1}
                         /\ created'[r] \in {created[r], created[r] + 1}
                         /\ obj'[r].uid \in {obj[r].uid, 0, created[r] + 1}
  <2>1. CASE Next
    BY <2>1, HistoryStep
  <2>2. CASE UNCHANGED vars
    BY <2>2 DEF vars, cluster
  <2> QED BY <2>1, <2>2
<1>3. b.owner \in 1 .. created'[b.req] /\ spec'[b.req][b.owner].start <= now'
  <2>1. spec[b.req][b.owner].start \in Int /\ now \in Int /\ created[b.req] \in Nat
    BY <1>0, ConstantsAssumption DEF TypeOK, Spectra, Times
  <2> QED BY <1>0, <1>2, <2>1 DEF BindingOK
<1>4. OwnerAlive(b)' => obj'[b.req].state \in Granted
  <2>1. OwnerAlive(b)' => obj'[b.req].uid = obj[b.req].uid /\ OwnerAlive(b)
    <3>1. created[b.req] \in Int /\ b.owner \in 1 .. created[b.req]
      BY <1>0 DEF BindingOK, TypeOK
    <3>2. b.owner # 0 /\ b.owner # created[b.req] + 1
      BY <3>1
    <3> QED BY <1>0, <1>2, <3>2 DEF OwnerAlive
  <2>2. obj[b.req] \in Objects /\ Version(b.req, obj[b.req])
    BY <1>0, <1>1 DEF TypeOK
  <2>3. \A c \in Objects : c = obj[b.req] => Version(b.req, c)'
    BY <1>0, <1>1, <2>2
  <2> QED BY <1>0, <2>1, <2>2, <2>3 DEF BindingOK, Version
<1> QED BY <1>0, <1>2, <1>3, <1>4 DEF BindingOK

\* createRoleBinding only makes RoleBindings that are justified.
LEMMA NewBindingIsOK ==
  ASSUME IInv, At("bind"), NEW n \in worker.left
  PROVE  BindingOK(RoleBinding(worker.key, n, worker.copy.uid))
<1>1. worker.key \in Requests /\ worker.copy \in Objects
      /\ created \in [Requests -> 0 .. MaxIncarnations]
  BY DEF IInv, TypeOK, At, Workers
<1>2. /\ Version(worker.key, worker.copy)
      /\ worker.copy.uid # 0
      /\ worker.copy.state = "Pending"
      /\ Request.start <= now
      /\ n \in Request.namespaces
  BY DEF IInv, WorkerOK, Intention, At
<1>3. worker.copy.uid \in 1 .. created[worker.key]
  BY <1>1, <1>2 DEF Version, Objects
<1>4. Vetted(worker.key, worker.copy.uid) /\ (obj[worker.key].uid = worker.copy.uid => obj[worker.key].state \in Granted)
  BY <1>2 DEF Version, Granted
<1> QED
  BY <1>2, <1>3, <1>4 DEF BindingOK, RoleBinding, OwnerAlive, Request, Vetted, NamespacesAllowed

\* Every RoleBinding is justified after a step: it was before, or it is a new one.
LEMMA BindingsStep == IInv /\ [Next]_vars => BindingsOK'
<1> SUFFICES ASSUME IInv, [Next]_vars, NEW b \in bindings' PROVE BindingOK(b)'
  BY DEF BindingsOK
<1>1. CASE b \in bindings
  BY <1>1, OldBinding
<1>2. CASE b \notin bindings
  <2>1. PICK n \in worker.left : CreateRoleBinding(n) \/ CreateRoleBindingFails(n)
    BY <1>2 DEF Next, Environment, Runtime, Handlers, vars, cluster, process, Tick,
       CreateK8sObject, Withdraw, Evict, Crash, Restart, Sync, TimerFires, Reconcile,
       ConfigUnreadable, GarbageCollect, HandleNewRequest, NamespaceLookupFails, HandleRejected,
       HandlePreApproved, HandleCleanup, RoleBindingsCreated, UpdateStatus, UpdateStatusFails,
       CallbackToApi, RequeueAfter, DeleteJitRequest, DeleteJitRequestFails
  <2>2. At("bind") /\ b = RoleBinding(worker.key, n, worker.copy.uid)
    BY <1>2, <2>1 DEF CreateRoleBinding, CreateRoleBindingFails, NewBinding
  <2>3. BindingOK(b)
    BY <2>2, NewBindingIsOK
  <2>4. now' = now /\ UNCHANGED <<spec, obj, created>>
    BY <2>1 DEF CreateRoleBinding, CreateRoleBindingFails
  <2> QED BY <2>3, <2>4 DEF BindingOK, OwnerAlive
<1> QED BY <1>1, <1>2
-----------------------------------------------------------------------------
(* Theorems *)

\* There is nothing to justify initially.
LEMMA InitEstablishesIInv == Init => IInv
<1> SUFFICES ASSUME Init PROVE IInv
  OBVIOUS
<1> USE ConstantsAssumption, IdleType
<1>1. TypeOK
  BY DEF Init, TypeOK, Times, NoTimer, States, At
<1>2. VersionsOK
  <2>1. SUFFICES ASSUME NEW r \in Requests PROVE Version(r, Absent)
    BY DEF Init, VersionsOK
  <2> QED BY DEF Init, Version, Absent, Granted
<1>3. WorkerOK /\ BindingsOK
  BY DEF Init, WorkerOK, BindingsOK, At
<1> QED BY <1>1, <1>2, <1>3 DEF IInv

\* The inductive invariant holds in every reachable state: the reconciler never
\* holds anything but versions its JitRequest has or had.
THEOREM Inductive == Spec => []IInv
<1>1. IInv /\ [Next]_vars => IInv'
  BY TypeStep, VersionsStep, WorkerStep, BindingsStep DEF IInv
<1> QED BY InitEstablishesIInv, <1>1, PTL DEF Spec

\* Type correctness of the operator's model.
THEOREM TypeCorrect == Spec => []TypeOK
<1>1. IInv => TypeOK
  BY DEF IInv
<1> QED BY Inductive, <1>1, PTL

\* handlePreApproved never lets a RoleBinding exist before its start time, whatever
\* the informer, the callbacks, failures and crashes do.
THEOREM StartIsRespected == Spec => []NoAccessBeforeStart
<1>1. IInv => NoAccessBeforeStart
  BY DEF IInv, BindingsOK, BindingOK, NoAccessBeforeStart
<1> QED BY Inductive, <1>1, PTL

\* Only what handleNewRequest accepted is ever bound.
THEOREM OnlyVettedIsBound == Spec => []OnlyVettedAccess
<1>1. IInv => OnlyVettedAccess
  BY DEF IInv, BindingsOK, BindingOK, OnlyVettedAccess, Granted
<1> QED BY Inductive, <1>1, PTL

\* A status only moves forward, because a write the API server accepts was made
\* from the newest version (the resourceVersion check of updateStatus).
THEOREM StatusIsMonotonic == Spec => StatusMovesForward
<1> DEFINE Forward(r) ==
      obj'[r].uid = obj[r].uid /\ obj'[r].state # obj[r].state =>
        <<obj[r].state, obj'[r].state>>
          \in {<<"New", "Pending">>, <<"New", "Rejected">>, <<"Pending", "Succeeded">>}
<1>1. ASSUME IInv, Next, NEW r \in Requests PROVE Forward(r)
  <2>0. TypeOK /\ Version(r, obj[r]) /\ obj[r].uid \in Nat
    BY <1>1 DEF IInv, VersionsOK, TypeOK, Objects
  <2>1. ASSUME NEW q \in Requests, CreateK8sObject(q) PROVE Forward(r)
    <3>1. r = q => obj'[r].uid = created[r] + 1 /\ created[r] \in Nat
      BY <2>0, <2>1 DEF CreateK8sObject, TypeOK, Absent
    <3>2. r # q => obj'[r] = obj[r]
      BY <2>0, <2>1 DEF CreateK8sObject, TypeOK
    <3> QED BY <2>0, <3>1, <3>2 DEF Version
  <2>2. ASSUME NEW q \in Requests, obj' = [obj EXCEPT ![q] = Absent] PROVE Forward(r)
    <3>1. r = q => obj'[r] = Absent /\ Absent.uid = 0
      BY <2>0, <2>2 DEF TypeOK, Absent
    <3>2. r # q => obj'[r] = obj[r]
      BY <2>0, <2>2 DEF TypeOK
    <3> QED BY <2>0, <3>1, <3>2 DEF Version
  <2>3. ASSUME At("update"), UpToDate, obj' = [obj EXCEPT ![worker.key] = NewStatus]
        PROVE  Forward(r)
    <3>1. r # worker.key => obj'[r] = obj[r]
      BY <2>0, <2>3 DEF TypeOK
    <3>2. r = worker.key => obj'[r].state = worker.target /\ obj[r] = worker.copy
      BY <1>1, <2>0, <2>3, WriteIsCurrent DEF TypeOK
    <3>3. \/ worker.target = "Rejected" /\ worker.copy.state = "New"
          \/ worker.target = "Pending" /\ worker.copy.state = "New"
          \/ worker.target = "Succeeded" /\ worker.copy.state = "Pending"
      BY <1>1, <2>3 DEF IInv, WorkerOK, Intention, At
    <3> QED BY <3>1, <3>2, <3>3
  <2> QED BY <1>1, <2>0, <2>1, <2>2, <2>3, ObjectStep
<1>2. IInv /\ [Next]_vars => [\A r \in Requests : Forward(r)]_vars
  BY <1>1
<1> QED BY Inductive, <1>2, PTL DEF Spec, StatusMovesForward
=============================================================================
