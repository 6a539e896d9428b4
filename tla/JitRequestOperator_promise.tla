--------------------- MODULE JitRequestOperator_promise ---------------------
(***************************************************************************)
(* What JitRequestOperator_proofs leaves open: when a Succeeded JitRequest *)
(* has the RoleBindings it names, that callbacks report what the status    *)
(* says, and that the operator implements AccessGrant.  All three are      *)
(* about names that are used again, each time for another window:          *)
(* AlreadyExists is taken for success, Delete goes by name and a copy may  *)
(* be that of an earlier JitRequest.  The argument: from the moment a      *)
(* JitRequest is accepted the informer never hands out a copy of an        *)
(* earlier one, whatever it asked for; and a JitRequest is only accepted   *)
(* before its start, so no RoleBinding of its name exists then unless an   *)
(* earlier one of the name started earlier.                                *)
(***************************************************************************)
EXTENDS JitRequestOperator_proofs

\* A rejection is final, and an accepted copy has the end time of the spec.
Recorded(r, c) ==
  /\ c.uid = obj[r].uid /\ c.state = "Rejected" => obj[r].state = "Rejected"
  /\ c.state \in Granted => c.end = spec[r][c.uid].end

RecordsOK == \A r \in Requests : Recorded(r, obj[r]) /\ Recorded(r, cache[r])

\* The informer has left the predecessors of an accepted JitRequest behind, and all
\* RoleBindings of the name are its own, unless it is preceded by another window.
Sole(r) ==
  obj[r].state \in Granted =>
    /\ cache[r].uid = obj[r].uid
    /\ NotPreceded(r) => \A b \in BindingsOf(r) : b.owner = obj[r].uid
SoleOK == \A r \in Requests : Sole(r)

\* The namespaces a reconcile has already worked on are bound.
Bound(ns) ==
  \A n \in ns \intersect present : RoleBinding(worker.key, n, worker.copy.uid) \in bindings

\* The object a reconcile has a copy of is still there.
Current == worker.copy.uid = obj[worker.key].uid
First == Current /\ NotPreceded(worker.key)

\* What a reconcile in progress has achieved, as far as its JitRequest is still there.
Achieved ==
  /\ Recorded(worker.key, worker.copy)
  /\ obj[worker.key].state \in Granted => Current
  /\ Current => cache[worker.key].uid = worker.copy.uid
  /\ At("update") /\ worker.target = "Pending" /\ First => BindingsOf(worker.key) = {}
  /\ At("update") /\ worker.target = "Succeeded" /\ First => Bound(Request.namespaces)
  /\ At("bind") /\ First => Bound(Request.namespaces \ worker.left)
  /\ At("callback") /\ Current => obj[worker.key].state = worker.copy.state
  /\ At("delete") => worker.copy.state = "Rejected" \/ Request.end <= now

AchievedOK == ~At("idle") => Achieved

\* The inductive invariant.
PInv == IInv /\ RecordsOK /\ SoleOK /\ BoundUnlessPreceded /\ AchievedOK
-----------------------------------------------------------------------------
(* What a step does to one name *)

\* A JitRequest is as it was, or it was created or removed, so that no copy has its
\* UID, or it has the status the reconcile in progress wrote.
LEMMA OneObjectStep ==
  ASSUME IInv, [Next]_vars, NEW r \in Requests
  PROVE  \/ obj'[r] = obj[r] /\ created'[r] = created[r]
         \/ /\ obj'[r].state = "New"
            /\ \A c \in Objects : Version(r, c) /\ c.uid # 0 => c.uid # obj'[r].uid
         \/ /\ At("update") /\ UpToDate /\ worker.key = r
            /\ obj'[r] = NewStatus /\ created'[r] = created[r]
<1>0. TypeOK
  BY DEF IInv
<1>1. CASE UNCHANGED vars
  BY <1>1 DEF vars, cluster
<1>2. ASSUME NEW q \in Requests, CreateK8sObject(q)
      PROVE  \/ obj'[r] = obj[r] /\ created'[r] = created[r]
             \/ /\ obj'[r].state = "New"
                /\ \A c \in Objects : Version(r, c) /\ c.uid # 0 => c.uid # obj'[r].uid
  <2>1. q # r => obj'[r] = obj[r] /\ created'[r] = created[r]
    BY <1>0, <1>2 DEF CreateK8sObject, TypeOK
  <2>2. q = r => obj'[r].uid = created[r] + 1 /\ obj'[r].state = "New" /\ created[r] \in Nat
    BY <1>0, <1>2 DEF CreateK8sObject, TypeOK, Absent
  <2>3. ASSUME NEW c \in Objects, Version(r, c), q = r PROVE c.uid # obj'[r].uid
    BY <2>2, <2>3 DEF Version, Objects
  <2> QED BY <2>1, <2>2, <2>3
<1>3. ASSUME NEW q \in Requests, obj' = [obj EXCEPT ![q] = Absent]
      PROVE  obj'[r] = obj[r] \/ (obj'[r].state = "New" /\ obj'[r].uid = 0)
  BY <1>0, <1>3 DEF TypeOK, Absent
<1>4. ASSUME At("update"), UpToDate, obj' = [obj EXCEPT ![worker.key] = NewStatus]
      PROVE  obj'[r] = obj[r] \/ (worker.key = r /\ obj'[r] = NewStatus)
  BY <1>0, <1>4 DEF TypeOK
<1>5. CASE Next
  <2>1. CASE \E q \in Requests : CreateK8sObject(q)
    BY <1>2, <2>1
  <2>2. CASE created' = created /\ \E q \in Requests : obj' = [obj EXCEPT ![q] = Absent]
    <3>1. obj'[r] = obj[r] \/ (obj'[r].state = "New" /\ obj'[r].uid = 0)
      BY <1>3, <2>2
    <3> QED BY <2>2, <3>1
  <2> QED BY <1>0, <1>4, <1>5, <2>1, <2>2, ObjectStep
<1> QED BY <1>1, <1>5

\* The informer's copy is as it was, or it is the JitRequest itself.
LEMMA OneCopyStep ==
  ASSUME TypeOK, [Next]_vars, NEW r \in Requests
  PROVE  cache'[r] = cache[r] \/ (cache'[r] = obj[r] /\ obj' = obj)
<1>1. cache' = cache \/ (\E q \in Requests : Sync(q)) \/ Restart
  BY DEF Next, Environment, Runtime, Handlers, vars, cluster, process, Tick, CreateK8sObject,
     Withdraw, Evict, Crash, TimerFires, Reconcile, ConfigUnreadable, GarbageCollect,
     HandleNewRequest, NamespaceLookupFails, HandleRejected, HandlePreApproved, HandleCleanup,
     CreateRoleBinding, CreateRoleBindingFails, RoleBindingsCreated, UpdateStatus,
     UpdateStatusFails, CallbackToApi, RequeueAfter, DeleteJitRequest, DeleteJitRequestFails
<1> QED BY <1>1 DEF Sync, Restart, cluster, TypeOK

\* A RoleBinding is only created by createRoleBinding, for the reconcile in progress,
\* in a namespace in which the name has none.
LEMMA BindingsGrow ==
  ASSUME TypeOK, [Next]_vars
  PROVE  \/ bindings' \subseteq bindings
         \/ \E n \in worker.left :
              /\ At("bind") /\ UNCHANGED <<now, spec, obj, created>>
              /\ spent'.withdrawals = spent.withdrawals /\ spent'.evictions = spent.evictions
              /\ ~\E b \in BindingsOf(worker.key) : b.ns = n
              /\ bindings' = bindings \union {RoleBinding(worker.key, n, worker.copy.uid)}
<1>1. ASSUME NEW n \in worker.left, CreateRoleBinding(n) \/ CreateRoleBindingFails(n)
      PROVE  \/ bindings' = bindings
             \/ /\ At("bind") /\ UNCHANGED <<now, spec, obj, created>>
                /\ spent'.withdrawals = spent.withdrawals /\ spent'.evictions = spent.evictions
                /\ ~\E b \in BindingsOf(worker.key) : b.ns = n
                /\ bindings' = bindings \union {RoleBinding(worker.key, n, worker.copy.uid)}
  BY <1>1 DEF CreateRoleBinding, CreateRoleBindingFails, NewBinding, Fails, TypeOK
<1>2. \/ bindings' \subseteq bindings
      \/ \E n \in worker.left : CreateRoleBinding(n) \/ CreateRoleBindingFails(n)
  BY DEF Next, Environment, Runtime, Handlers, vars, cluster, process, Tick, CreateK8sObject,
     Withdraw, Evict, Crash, Restart, Sync, TimerFires, Reconcile, ConfigUnreadable,
     GarbageCollect, HandleNewRequest, NamespaceLookupFails, HandleRejected,
     HandlePreApproved, HandleCleanup, RoleBindingsCreated, UpdateStatus, UpdateStatusFails,
     CallbackToApi, RequeueAfter, DeleteJitRequest, DeleteJitRequestFails
<1> QED BY <1>1, <1>2

\* A RoleBinding whose owner is alive only goes with its namespace, and a deleted
\* namespace does not come back.
LEMMA BindingsStay ==
  ASSUME [Next]_vars
  PROVE  /\ present' \subseteq present
         /\ \A b \in bindings : OwnerAlive(b) /\ b.ns \in present' => b \in bindings'
BY DEF Next, Environment, Runtime, Handlers, vars, cluster, process, Tick, CreateK8sObject,
   Withdraw, Evict, Crash, Restart, Sync, TimerFires, Reconcile, ConfigUnreadable,
   GarbageCollect, HandleNewRequest, NamespaceLookupFails, HandleRejected, HandlePreApproved,
   HandleCleanup, CreateRoleBinding, CreateRoleBindingFails, NewBinding, RoleBindingsCreated,
   UpdateStatus, UpdateStatusFails, CallbackToApi, RequeueAfter, DeleteJitRequest,
   DeleteJitRequestFails

\* The spec of a name stays, and the clock does not run backwards.
LEMMA TimeStep ==
  ASSUME TypeOK, [Next]_vars
  PROVE  spec' = spec /\ now <= now' /\ now \in Int /\ now' \in Int
<1>1. spec' = spec /\ (now' = now \/ now' = now + 1)
  BY DEF Next, Environment, Runtime, Handlers, vars, cluster, process, Tick, CreateK8sObject,
     Withdraw, Evict, Crash, Restart, Sync, TimerFires, Reconcile, ConfigUnreadable,
     GarbageCollect, HandleNewRequest, NamespaceLookupFails, HandleRejected,
     HandlePreApproved, HandleCleanup, CreateRoleBinding, CreateRoleBindingFails,
     RoleBindingsCreated, UpdateStatus, UpdateStatusFails, CallbackToApi, RequeueAfter,
     DeleteJitRequest, DeleteJitRequestFails
<1>2. now \in Int
  BY ConstantsAssumption DEF TypeOK, Times
<1> QED BY <1>1, <1>2
-----------------------------------------------------------------------------
(* Versions, continued *)

\* The write that makes a status Rejected, Pending or Succeeded continues the status
\* it was made from, and an accepted JitRequest keeps its UID.
LEMMA WriteStep ==
  ASSUME IInv, At("update"), UpToDate, NEW r \in Requests, worker.key = r
  PROVE  /\ worker.copy = obj[r]
         /\ NewStatus.uid = obj[r].uid /\ NewStatus.uid # 0
         /\ NewStatus.state = worker.target
         /\ NewStatus.end = spec[r][NewStatus.uid].end
         /\ \/ worker.target = "Rejected" /\ obj[r].state = "New"
            \/ worker.target = "Pending" /\ obj[r].state = "New"
            \/ worker.target = "Succeeded" /\ obj[r].state = "Pending"
<1>1. worker.copy \in Objects /\ worker.copy = obj[r]
  BY WriteIsCurrent DEF IInv, TypeOK, At, Workers
<1>2. Intention
  BY DEF IInv, WorkerOK, At
<1> QED BY <1>1, <1>2, WriteIsCurrent DEF NewStatus, Objects, Request, Intention

\* What a copy of a version records about the JitRequest stays true.
LEMMA RecordsAreKept ==
  ASSUME IInv, RecordsOK, [Next]_vars, NEW r \in Requests
  PROVE  /\ Recorded(r, obj[r])'
         /\ \A c \in Objects : Version(r, c) /\ Recorded(r, c) => Recorded(r, c)'
<1>0. TypeOK /\ spec' = spec /\ obj[r] \in Objects
  BY TimeStep DEF IInv, TypeOK
<1>1. ASSUME NEW c \in Objects, Version(r, c), Recorded(r, c) PROVE Recorded(r, c)'
  <2>1. c.state = "Rejected" => c.uid # 0
    BY <1>1 DEF Version, Absent
  <2>2. CASE obj'[r] = obj[r]
    BY <1>0, <1>1, <2>2 DEF Recorded
  <2>3. CASE \A d \in Objects : Version(r, d) /\ d.uid # 0 => d.uid # obj'[r].uid
    BY <1>0, <1>1, <2>1, <2>3 DEF Recorded
  <2>4. CASE At("update") /\ UpToDate /\ worker.key = r /\ obj'[r] = NewStatus
    BY <1>0, <1>1, <2>4, WriteStep DEF Recorded
  <2> QED BY <2>2, <2>3, <2>4, OneObjectStep
<1>2. obj'[r].state \in Granted => obj'[r].end = spec[r][obj'[r].uid].end
  <2>1. CASE obj'[r] = obj[r]
    BY <2>1 DEF RecordsOK, Recorded
  <2>2. CASE obj'[r].state = "New"
    BY <2>2 DEF Granted
  <2>3. CASE At("update") /\ UpToDate /\ worker.key = r /\ obj'[r] = NewStatus
    BY <2>3, WriteStep
  <2> QED BY <2>1, <2>2, <2>3, OneObjectStep
<1> QED BY <1>0, <1>1, <1>2 DEF Recorded

\* The informer's copies record what is true.
LEMMA RecordsStep ==
  ASSUME IInv, RecordsOK, [Next]_vars
  PROVE  RecordsOK'
<1> SUFFICES ASSUME NEW r \in Requests PROVE Recorded(r, obj[r])' /\ Recorded(r, cache[r])'
  BY DEF RecordsOK
<1>1. TypeOK /\ obj[r] \in Objects /\ cache[r] \in Objects /\ Version(r, obj[r]) /\ Version(r, cache[r])
      /\ Recorded(r, obj[r]) /\ Recorded(r, cache[r])
  BY DEF IInv, TypeOK, VersionsOK, RecordsOK
<1>2. /\ Recorded(r, obj[r])'
      /\ \A c \in Objects : Version(r, c) /\ Recorded(r, c) => Recorded(r, c)'
  BY RecordsAreKept
<1>3. CASE cache'[r] = cache[r]
  <2>1. \A c \in Objects : c = cache'[r] => Recorded(r, c)'
    BY <1>1, <1>2, <1>3
  <2> QED BY <1>1, <1>2, <1>3, <2>1 DEF Recorded
<1>4. CASE cache'[r] = obj[r] /\ obj' = obj
  BY <1>2, <1>4 DEF Recorded
<1> QED BY <1>1, <1>3, <1>4, OneCopyStep
-----------------------------------------------------------------------------
(* An accepted JitRequest is alone with its RoleBindings, unless it is preceded *)

\* As long as a JitRequest is there its name is not used again, so what precedes it
\* stays the same.
LEMMA PrecededBefore ==
  ASSUME IInv, [Next]_vars, NEW r \in Requests, obj[r].uid # 0, obj'[r].uid = obj[r].uid
  PROVE  NotPreceded(r)' => NotPreceded(r)
<1>1. obj[r] \in Objects /\ Version(r, obj[r]) /\ spec' = spec
  BY TimeStep DEF IInv, TypeOK, VersionsOK
<1>2. created'[r] = created[r]
  BY <1>1, OneObjectStep
<1> QED BY <1>1, <1>2 DEF NotPreceded

\* What a JitRequest is accepted or bound for stays true of it alone.
LEMMA SoleStep ==
  ASSUME PInv, [Next]_vars
  PROVE  SoleOK'
<1> SUFFICES ASSUME NEW r \in Requests, obj'[r].state \in Granted
             PROVE  /\ cache'[r].uid = obj'[r].uid
                    /\ NotPreceded(r)' => \A b \in bindings' : b.req = r => b.owner = obj'[r].uid
  BY DEF SoleOK, Sole, BindingsOf
<1>0. IInv /\ TypeOK /\ Sole(r) /\ obj[r] \in Objects
  BY DEF PInv, IInv, TypeOK, SoleOK
<1>3. obj[r].state \in Granted => obj[r].uid # 0
  BY <1>0 DEF IInv, VersionsOK, Version, Absent, Granted
<1>1. CASE bindings' \subseteq bindings
  <2>1. CASE obj'[r] = obj[r]
    BY <1>0, <1>1, <1>3, <2>1, OneCopyStep, PrecededBefore DEF Sole, BindingsOf
  <2>2. CASE At("update") /\ UpToDate /\ worker.key = r /\ obj'[r] = NewStatus
    <3>1. obj'[r].uid = obj[r].uid /\ worker.copy = obj[r] /\ obj'[r].state = worker.target
      BY <1>0, <2>2, WriteStep
    <3>2. Achieved /\ Current
      BY <2>2, <3>1 DEF PInv, AchievedOK, At, Current
    <3>3. cache'[r].uid = obj'[r].uid
      BY <1>0, <2>2, <3>1, <3>2, OneCopyStep DEF Achieved, Current
    <3>6. NotPreceded(r)' => NotPreceded(r)
      BY <1>0, <2>2, <3>1, WriteStep, PrecededBefore
    <3>4. worker.target = "Pending" /\ NotPreceded(r)' => BindingsOf(r) = {}
      BY <2>2, <3>2, <3>6 DEF Achieved, First
    <3>5. worker.target # "Pending" => obj[r].state \in Granted
      BY <1>0, <2>2, <3>1, WriteStep DEF Granted
    <3> QED BY <1>1, <3>1, <3>3, <3>4, <3>5, <3>6, <1>0 DEF Sole, BindingsOf
  <2>3. CASE obj'[r].state = "New"
    BY <2>3 DEF Granted
  <2> QED BY <1>0, <2>1, <2>2, <2>3, OneObjectStep
<1>2. ASSUME NEW n \in worker.left, At("bind"), obj' = obj,
             bindings' = bindings \union {RoleBinding(worker.key, n, worker.copy.uid)}
      PROVE  /\ cache'[r].uid = obj'[r].uid
             /\ NotPreceded(r)' => \A b \in bindings' : b.req = r => b.owner = obj'[r].uid
  <2>1. cache'[r].uid = obj'[r].uid
    BY <1>0, <1>2, OneCopyStep DEF Sole
  <2>2. worker.key = r => worker.copy.uid = obj[r].uid
    BY <1>2 DEF PInv, AchievedOK, Achieved, At, Current
  <2> QED BY <1>0, <1>2, <1>3, <2>1, <2>2, PrecededBefore DEF Sole, BindingsOf, RoleBinding
<1> QED BY <1>0, <1>1, <1>2, BindingsGrow
-----------------------------------------------------------------------------
(* What is Succeeded is bound *)

\* A RoleBinding of a JitRequest that is there stays, unless its namespace goes.
LEMMA OwnBindingStays ==
  ASSUME [Next]_vars, NEW r \in Requests, NEW n \in present',
         RoleBinding(r, n, obj[r].uid) \in bindings
  PROVE  RoleBinding(r, n, obj[r].uid) \in bindings'
<1> DEFINE b == RoleBinding(r, n, obj[r].uid)
<1>1. b \in bindings /\ OwnerAlive(b) /\ b.ns \in present'
  BY DEF OwnerAlive, RoleBinding
<1> QED BY <1>1, BindingsStay

\* A JitRequest that is not preceded becomes Succeeded when all its RoleBindings are
\* there, and keeps them.
LEMMA SucceededStep ==
  ASSUME PInv, [Next]_vars
  PROVE  BoundUnlessPreceded'
<1> SUFFICES ASSUME NEW r \in Requests, obj'[r].state = "Succeeded", NotPreceded(r)',
                    NEW n \in spec'[r][obj'[r].uid].namespaces \intersect present'
             PROVE  RoleBinding(r, n, obj'[r].uid) \in bindings'
  BY DEF BoundUnlessPreceded, IsBound, RoleBinding
<1>0. IInv /\ TypeOK /\ spec' = spec /\ n \in present /\ n \in spec[r][obj'[r].uid].namespaces
      /\ obj[r] \in Objects /\ Version(r, obj[r])
  BY TimeStep, BindingsStay DEF PInv, IInv, TypeOK, VersionsOK
<1>1. CASE obj'[r] = obj[r]
  <2>0. obj[r].uid # 0
    BY <1>0, <1>1 DEF Version, Absent
  <2>1. RoleBinding(r, n, obj[r].uid) \in bindings
    BY <1>0, <1>1, <2>0, PrecededBefore DEF PInv, BoundUnlessPreceded, IsBound
  <2> QED BY <1>1, <2>1, OwnBindingStays
<1>2. CASE At("update") /\ UpToDate /\ worker.key = r /\ obj'[r] = NewStatus
  <2>1. obj'[r].uid = obj[r].uid /\ worker.copy = obj[r] /\ worker.target = "Succeeded"
        /\ obj[r].uid # 0
    BY <1>0, <1>2, WriteStep
  <2>2. Bound(Request.namespaces)
    BY <1>0, <1>2, <2>1, PrecededBefore DEF PInv, AchievedOK, Achieved, At, Current, First
  <2>3. RoleBinding(r, n, obj[r].uid) \in bindings
    BY <1>0, <1>2, <2>1, <2>2 DEF Bound, Request
  <2> QED BY <2>1, <2>3, OwnBindingStays
<1> QED BY <1>0, <1>1, <1>2, OneObjectStep
-----------------------------------------------------------------------------
(* What a reconcile in progress has achieved *)

\* Once a JitRequest a copy was made of is gone, it does not come back.
LEMMA CurrentBefore ==
  ASSUME IInv, [Next]_vars, ~At("idle"), obj'[worker.key].uid = worker.copy.uid
  PROVE  Current
<1>1. worker.key \in Requests /\ worker.copy \in Objects /\ Version(worker.key, worker.copy)
      /\ worker.copy.uid # 0
  BY DEF IInv, TypeOK, Workers, WorkerOK, Intention
<1> QED BY <1>1, OneObjectStep, WriteStep DEF Current

\* The namespaces that are bound stay bound as long as the JitRequest is there.
LEMMA BoundStays ==
  ASSUME IInv, [Next]_vars, Current, ~At("idle"), NEW ns, Bound(ns)
  PROVE  \A n \in ns \intersect present' : RoleBinding(worker.key, n, worker.copy.uid) \in bindings'
<1>1. worker.key \in Requests
  BY DEF IInv, TypeOK
<1>2. \A n \in ns \intersect present' : n \in present
  BY BindingsStay
<1> QED BY <1>1, <1>2, OwnBindingStays DEF Bound, Current

\* While the clock, the cluster and the informer move on, a reconcile that is not
\* touched has achieved what it had.
LEMMA AchievedUntouched ==
  ASSUME PInv, [Next]_vars, worker' = worker, ~At("idle"), bindings' \subseteq bindings,
         obj' = obj \/ \E q \in Requests : CreateK8sObject(q) \/ Withdraw(q)
  PROVE  Achieved'
<1> DEFINE k == worker.key
<1>0. /\ IInv /\ TypeOK /\ RecordsOK /\ Achieved /\ Intention
      /\ k \in Requests /\ worker.copy \in Objects /\ Version(k, worker.copy) /\ worker.copy.uid # 0
      /\ spec' = spec
  BY TimeStep DEF PInv, IInv, AchievedOK, TypeOK, Workers, WorkerOK, Intention
<1>1. Recorded(worker.key, worker.copy)'
  BY <1>0, RecordsAreKept DEF Achieved, Recorded
<1>2. obj'[k] = obj[k] \/ (obj'[k].state = "New" /\ obj'[k].uid # worker.copy.uid)
  <2>1. ASSUME NEW q \in Requests, CreateK8sObject(q)
        PROVE  obj'[k] = obj[k] \/ (obj'[k].state = "New" /\ obj'[k].uid # worker.copy.uid)
    <3>1. q # k => obj'[k] = obj[k]
      BY <1>0, <2>1 DEF CreateK8sObject, TypeOK
    <3>2. q = k => obj'[k].uid = created[k] + 1 /\ obj'[k].state = "New" /\ created[k] \in Int
      <4>1. obj'[q].uid = created[q] + 1 /\ obj'[q].state = "New"
        BY <1>0, <2>1 DEF CreateK8sObject, TypeOK, Absent
      <4>2. created[q] \in Int
        BY <1>0, <2>1 DEF TypeOK
      <4> QED BY <4>1, <4>2
    <3> QED BY <1>0, <3>1, <3>2 DEF Version, Objects
  <2>2. ASSUME NEW q \in Requests, Withdraw(q)
        PROVE  obj'[k] = obj[k] \/ (obj'[k].state = "New" /\ obj'[k].uid # worker.copy.uid)
    BY <1>0, <2>2 DEF Withdraw, TypeOK, Absent
  <2> QED BY <2>1, <2>2
<1>3. obj'[k].state \in Granted => Current'
  BY <1>0, <1>2 DEF Achieved, Current, Granted
<1>4. Current' => Current /\ obj'[k] = obj[k]
  BY <1>0, <1>2 DEF Current
<1>11. First' => First
  BY <1>0, <1>4, PrecededBefore DEF First, Current
<1>5. Current' => cache'[k].uid = worker.copy.uid
  BY <1>0, <1>4, OneCopyStep DEF Achieved, Current
<1>6. At("update") /\ worker.target = "Pending" /\ First' => BindingsOf(k)' = {}
  BY <1>0, <1>11 DEF Achieved, BindingsOf
<1>7. At("update") /\ worker.target = "Succeeded" /\ First' => Bound(Request.namespaces)'
  BY <1>0, <1>11, BoundStays DEF Achieved, Bound, Request, RoleBinding, First
<1>8. At("bind") /\ First' => Bound(Request.namespaces \ worker.left)'
  BY <1>0, <1>11, BoundStays DEF Achieved, Bound, Request, RoleBinding, First
<1>9. At("callback") /\ Current' => obj'[k].state = worker.copy.state
  BY <1>0, <1>4 DEF Achieved
<1>10. At("delete") => worker.copy.state = "Rejected" \/ Request'.end <= now'
  <2>1. Request.end \in Int
    BY <1>0, RequestType, ConstantsAssumption DEF Times
  <2> QED BY <1>0, <2>1, TimeStep DEF Achieved, Request
<1> QED BY <1>0, <1>1, <1>3, <1>5, <1>6, <1>7, <1>8, <1>9, <1>10 DEF Achieved, At, Current

\* A reconcile starts from the informer's copy, which is not that of a predecessor of
\* an accepted JitRequest.
LEMMA ReconcileAchieves ==
  ASSUME PInv, [Next]_vars, NEW r \in Requests, Reconcile(r), ~At("idle")'
  PROVE  Achieved'
<1>0. IInv /\ TypeOK /\ Recorded(r, cache[r]) /\ Sole(r)
  BY DEF PInv, IInv, RecordsOK, SoleOK
<1>1. worker' = [Idle EXCEPT !.pc = "dispatch", !.key = r, !.copy = cache[r]]
  BY IdleType DEF Reconcile, At
<1>2. worker'.key = r /\ worker'.copy = cache[r] /\ worker'.pc = "dispatch"
  BY <1>1 DEF Idle
<1>3. UNCHANGED <<obj, spec, cache>>
  BY DEF Reconcile, cluster
<1> QED BY <1>0, <1>2, <1>3 DEF Achieved, Recorded, Sole, Current, At

\* A JitRequest that is not preceded is accepted while no RoleBinding of its name
\* exists: the start is ahead.
LEMMA NewRequestAchieves ==
  ASSUME PInv, HandleNewRequest \/ NamespaceLookupFails
  PROVE  Achieved'
<1>0. IInv /\ TypeOK /\ Achieved /\ worker \in Workers /\ ~At("idle")
  BY DEF PInv, IInv, TypeOK, AchievedOK, HandleNewRequest, NamespaceLookupFails, At
<1>1. /\ UNCHANGED <<now, spec, obj, bindings, present, cache>>
      /\ worker'.pc = "update" /\ worker'.key = worker.key /\ worker'.copy = worker.copy
      /\ worker'.target = "Pending" => Upcoming(Request)
  BY <1>0 DEF HandleNewRequest, NamespaceLookupFails, Verdict, cluster, Workers
<1>2. worker'.target # "Succeeded"
  BY <1>0 DEF HandleNewRequest, NamespaceLookupFails, Verdict, Workers
<1>3. Upcoming(Request) /\ First => BindingsOf(worker.key) = {}
  <2> SUFFICES ASSUME First, NEW b \in BindingsOf(worker.key) PROVE Request.start <= now
    BY DEF Upcoming, Due
  <2>1. b \in bindings /\ b.req = worker.key /\ b.owner \in 1 .. created[worker.key]
        /\ spec[worker.key][b.owner].start <= now
    BY <1>0 DEF IInv, BindingsOK, BindingOK, BindingsOf
  <2>2. Request.start <= spec[worker.key][b.owner].start
    BY <2>1 DEF First, Current, NotPreceded, Request
  <2>3. b.owner \in Incarnations
    BY <1>0, <2>1 DEF TypeOK, Bindings
  <2>4. spec[worker.key][b.owner].start \in Int /\ Request.start \in Int /\ now \in Int
    BY <1>0, <2>3, RequestType, ConstantsAssumption DEF TypeOK, Spectra, Times
  <2> QED BY <2>1, <2>2, <2>4
<1>4. First' => First
  BY <1>0, <1>1 DEF First, Current, NotPreceded, HandleNewRequest, NamespaceLookupFails, cluster
<1> QED BY <1>0, <1>1, <1>2, <1>3, <1>4 DEF Achieved, Recorded, Current, BindingsOf, At

\* The other ways to go on after dispatch: nothing was bound yet, a rejection is
\* final, and clean-up comes after the end.
LEMMA DispatchAchieves ==
  ASSUME PInv, HandleRejected \/ HandlePreApproved \/ HandleCleanup
  PROVE  Achieved'
<1>0. /\ IInv /\ TypeOK /\ Achieved /\ worker \in Workers /\ ~At("idle")
      /\ worker.copy.state = "Succeeded" => worker.copy.end = Request.end
  BY DEF PInv, IInv, TypeOK, AchievedOK, HandleRejected, HandlePreApproved, HandleCleanup, At,
     Achieved, Recorded, Granted, Request
<1>1. /\ UNCHANGED <<now, spec, obj, bindings, present, cache>>
      /\ worker'.key = worker.key /\ worker'.copy = worker.copy
      /\ \/ worker'.pc = "callback" /\ worker.copy.state = "Rejected"
         \/ worker'.pc = "bind" /\ worker'.left = Request.namespaces
         \/ worker'.pc = "requeueAfter"
         \/ worker'.pc = "delete" /\ worker.copy.state = "Succeeded" /\ worker.copy.end <= now
  BY <1>0 DEF HandleRejected, HandlePreApproved, HandleCleanup, Goto, Due, cluster, Workers
<1>2. /\ Recorded(worker.key, worker.copy)'
      /\ obj'[worker.key].state \in Granted => Current'
      /\ Current' => cache'[worker.key].uid = worker.copy.uid
      /\ Current' => Current
  BY <1>0, <1>1 DEF Achieved, Recorded, Current
<1>3. CASE worker'.pc = "bind" /\ worker'.left = Request.namespaces
  <2>1. Bound(Request.namespaces \ worker.left)'
    BY <1>1, <1>3 DEF Bound, Request
  <2> QED BY <1>1, <1>2, <1>3, <2>1 DEF Achieved, At
<1>4. CASE worker'.pc = "callback" /\ worker.copy.state = "Rejected"
  <2>1. Current => obj[worker.key].state = "Rejected"
    BY <1>0, <1>4 DEF Achieved, Recorded, Current
  <2> QED BY <1>1, <1>2, <1>4, <2>1 DEF Achieved, At
<1>5. CASE worker'.pc = "requeueAfter"
  BY <1>1, <1>2, <1>5 DEF Achieved, At
<1>6. CASE worker'.pc = "delete" /\ worker.copy.state = "Succeeded" /\ worker.copy.end <= now
  <2>1. Request'.end <= now'
    BY <1>0, <1>1, <1>6 DEF Request
  <2> QED BY <1>1, <1>2, <1>6, <2>1 DEF Achieved, At
<1> QED BY <1>1, <1>3, <1>4, <1>5, <1>6

\* AlreadyExists is success: the RoleBinding that exists is the JitRequest's own.
LEMMA BindingAchieves ==
  ASSUME PInv, [Next]_vars, NEW n \in worker.left, CreateRoleBinding(n)
  PROVE  Achieved'
<1> DEFINE k == worker.key
<1>0. /\ IInv /\ TypeOK /\ Achieved /\ worker \in Workers /\ ~At("idle") /\ At("bind")
      /\ k \in Requests /\ worker.copy \in Objects /\ Version(k, worker.copy) /\ Sole(k)
      /\ worker.copy.state = "Pending"
  BY DEF PInv, IInv, TypeOK, AchievedOK, CreateRoleBinding, At, WorkerOK, Intention, SoleOK,
     Workers
<1>1. /\ UNCHANGED <<now, spec, obj, present, cache>>
      /\ bindings' = NewBinding(n)
      /\ worker'.pc = "bind" /\ worker'.key = k /\ worker'.copy = worker.copy
      /\ worker'.left = worker.left \ {n}
  BY <1>0 DEF CreateRoleBinding, Workers, At
<1>2. First => RoleBinding(k, n, worker.copy.uid) \in bindings'
  <2> SUFFICES ASSUME First PROVE RoleBinding(k, n, worker.copy.uid) \in bindings'
    OBVIOUS
  <2>1. \A b \in BindingsOf(k) : b.owner = worker.copy.uid
    BY <1>0 DEF Version, First, Current, Granted, Sole
  <2>2. ASSUME NEW b \in BindingsOf(k), b.ns = n PROVE b = RoleBinding(k, n, worker.copy.uid)
    <3>1. b \in Bindings /\ b.req = k
      BY <1>0 DEF TypeOK, BindingsOf
    <3> QED BY <2>1, <2>2, <3>1 DEF Bindings, RoleBinding
  <2> QED BY <1>1, <2>2 DEF NewBinding, BindingsOf
<1>3. First => Bound(Request.namespaces \ worker.left)'
  BY <1>0, <1>1, <1>2, BoundStays DEF Achieved, Bound, Request, RoleBinding, First
<1>4. First' => First
  BY <1>1 DEF First, Current, NotPreceded, CreateRoleBinding
<1> QED BY <1>0, <1>1, <1>3, <1>4 DEF Achieved, Recorded, Current, At

\* When no namespace is left, all are bound.
LEMMA AllBoundAchieves ==
  ASSUME PInv, RoleBindingsCreated
  PROVE  Achieved'
<1>0. IInv /\ TypeOK /\ Achieved /\ worker \in Workers /\ At("bind")
  BY DEF PInv, IInv, TypeOK, AchievedOK, RoleBindingsCreated, At
<1>1. /\ UNCHANGED <<now, spec, obj, bindings, present, cache>>
      /\ worker.left = {}
      /\ worker'.pc = "update" /\ worker'.target = "Succeeded"
      /\ worker'.key = worker.key /\ worker'.copy = worker.copy
  BY <1>0 DEF RoleBindingsCreated, cluster, Workers
<1>2. First => Bound(Request.namespaces)
  BY <1>0, <1>1 DEF Achieved, Bound
<1>3. First' => First
  BY <1>1 DEF First, Current, NotPreceded, RoleBindingsCreated, cluster
<1> QED BY <1>0, <1>1, <1>2, <1>3 DEF Achieved, Recorded, Current, Bound, Request, At

\* A handler that goes on after its status update holds what is persisted.
LEMMA UpdateAchieves ==
  ASSUME PInv, [Next]_vars, UpdateStatus, ~At("idle")'
  PROVE  Achieved'
<1> DEFINE k == worker.key
<1>0. /\ IInv /\ TypeOK /\ RecordsOK /\ Achieved /\ worker \in Workers /\ ~At("idle")
      /\ k \in Requests
  BY DEF PInv, IInv, TypeOK, AchievedOK, UpdateStatus, At
<1>1. /\ At("update") /\ UpToDate
      /\ UNCHANGED <<now, spec, bindings, present, cache>>
      /\ obj'[k] = NewStatus
      /\ worker'.pc = "callback" /\ worker'.key = k /\ worker'.copy = NewStatus
  BY <1>0, IdleType DEF UpdateStatus, Workers, TypeOK, At
<1>2. NewStatus.uid = worker.copy.uid /\ Current
  BY <1>0, <1>1, WriteStep DEF Current
<1>3. Recorded(worker.key, worker.copy)'
  BY <1>0, <1>1, RecordsAreKept DEF Recorded
<1> QED BY <1>0, <1>1, <1>2, <1>3 DEF Achieved, Current, At

\* After a callback the copy is what it was; only a rejected one is deleted.
LEMMA CallbackAchieves ==
  ASSUME PInv, CallbackToApi
  PROVE  Achieved'
<1>0. IInv /\ TypeOK /\ Achieved /\ worker \in Workers /\ ~At("idle")
  BY DEF PInv, IInv, TypeOK, AchievedOK, CallbackToApi, At
<1>1. /\ UNCHANGED <<now, spec, obj, bindings, present, cache>>
      /\ worker'.key = worker.key /\ worker'.copy = worker.copy
      /\ worker'.pc \in {"delete", "dispatch", "requeueAfter"}
      /\ worker'.pc = "delete" => worker.copy.state = "Rejected"
  BY <1>0 DEF CallbackToApi, cluster, Workers
<1> QED BY <1>0, <1>1 DEF Achieved, Recorded, Current, At

\* A step does not touch the reconcile in progress, ends it, starts it, or is one of
\* the handlers' steps above.
LEMMA WorkerSteps ==
  ASSUME [Next]_vars
  PROVE  \/ /\ worker' = worker
            /\ bindings' \subseteq bindings
            /\ obj' = obj \/ \E q \in Requests : CreateK8sObject(q) \/ Withdraw(q)
         \/ worker' = Idle
         \/ \E r \in Requests : Reconcile(r)
         \/ HandleNewRequest \/ NamespaceLookupFails
         \/ HandleRejected \/ HandlePreApproved \/ HandleCleanup
         \/ \E n \in worker.left : CreateRoleBinding(n)
         \/ RoleBindingsCreated \/ UpdateStatus \/ CallbackToApi
BY DEF Next, Environment, Runtime, Handlers, vars, cluster, process, Tick, CreateK8sObject,
   Withdraw, Evict, Crash, Restart, Sync, TimerFires, ConfigUnreadable, GarbageCollect,
   CreateRoleBindingFails, UpdateStatusFails, RequeueAfter, DeleteJitRequest,
   DeleteJitRequestFails, Requeue, Done

\* Every step leaves the reconcile in progress with what it achieved, or ends it.
LEMMA AchievedStep ==
  ASSUME PInv, [Next]_vars
  PROVE  AchievedOK'
<1> SUFFICES ASSUME ~At("idle")' PROVE Achieved'
  BY DEF AchievedOK
<1>1. worker' # Idle
  BY IdleType DEF At
<1>2. worker' = worker => ~At("idle")
  BY DEF At
<1> QED
  BY <1>1, <1>2, WorkerSteps, AchievedUntouched, ReconcileAchieves, NewRequestAchieves,
     DispatchAchieves, BindingAchieves, AllBoundAchieves, UpdateAchieves, CallbackAchieves
-----------------------------------------------------------------------------
(* Theorems *)

\* Initially there is no JitRequest, no RoleBinding and no reconcile.
LEMMA InitEstablishesPInv == Init => PInv
<1> SUFFICES ASSUME Init PROVE PInv
  OBVIOUS
<1>1. IInv
  BY InitEstablishesIInv
<1>2. Absent.state = "New" /\ Idle.pc = "idle"
  BY IdleType DEF Absent
<1> QED
  BY <1>1, <1>2 DEF Init, PInv, RecordsOK, Recorded, SoleOK, Sole, BoundUnlessPreceded, AchievedOK,
     At, Granted

\* The inductive invariant holds in every reachable state, whatever each JitRequest of
\* a name asks for: the informer has left the predecessors of an accepted JitRequest
\* behind, and one no other window precedes is alone with its RoleBindings.
THEOREM AcceptedIsAlone == Spec => []PInv
<1>1. PInv /\ [Next]_vars => PInv'
  <2> SUFFICES ASSUME PInv, [Next]_vars PROVE PInv'
    OBVIOUS
  <2>1. IInv'
    BY TypeStep, VersionsStep, WorkerStep, BindingsStep DEF PInv, IInv
  <2> QED BY <2>1, RecordsStep, SoleStep, SucceededStep, AchievedStep DEF PInv
<1> QED BY InitEstablishesPInv, <1>1, PTL DEF Spec

\* A Succeeded JitRequest has its own RoleBinding in every namespace it names that
\* still exists, although createRoleBinding takes AlreadyExists for success, unless
\* another JitRequest of the name started before it.
THEOREM SuccessIsBound == Spec => []BoundUnlessPreceded
<1>1. PInv => BoundUnlessPreceded
  BY DEF PInv
<1> QED BY AcceptedIsAlone, <1>1, PTL

\* callbackToApi reports what the JitRequest's status says, for every JitRequest that
\* is still there.
THEOREM CallbacksAreTrue == Spec => ReportsAreTrue
<1> DEFINE True(r) == reported'[r] # reported[r] /\ obj[r].uid = worker.copy.uid
                        => reported'[r] = obj[r].state
<1>1. ASSUME PInv, Next, NEW r \in Requests PROVE True(r)
  <2>1. reported' = reported \/ CallbackToApi
    BY <1>1 DEF Next, Environment, Runtime, Handlers, vars, cluster, process, Tick,
       CreateK8sObject, Withdraw, Evict, Crash, Restart, Sync, TimerFires, Reconcile,
       ConfigUnreadable, GarbageCollect, HandleNewRequest, NamespaceLookupFails, HandleRejected,
       HandlePreApproved, HandleCleanup, CreateRoleBinding, CreateRoleBindingFails,
       RoleBindingsCreated, UpdateStatus, UpdateStatusFails, RequeueAfter, DeleteJitRequest,
       DeleteJitRequestFails
  <2>2. ASSUME CallbackToApi, reported'[r] # reported[r], obj[r].uid = worker.copy.uid
        PROVE  reported'[r] = obj[r].state
    <3>1. r = worker.key /\ reported'[r] = worker.copy.state
      BY <1>1, <2>2 DEF CallbackToApi, PInv, IInv, TypeOK
    <3>2. At("callback") /\ Achieved /\ Current
      BY <1>1, <2>2, <3>1 DEF CallbackToApi, PInv, AchievedOK, At, Current
    <3> QED BY <3>1, <3>2 DEF Achieved
  <2> QED BY <2>1, <2>2
<1>2. PInv /\ [Next]_vars => [\A r \in Requests : True(r)]_vars
  BY <1>1
<1> QED BY AcceptedIsAlone, <1>2, PTL DEF Spec, ReportsAreTrue
-----------------------------------------------------------------------------
(* The operator implements AccessGrant *)

\* The grants in force, as the refinement mapping of Promise has them.
Grants == {<<r, obj[r].uid>> : r \in {q \in Requests : Exists(obj[q])}}

Accepted == {<<r, obj[r].uid>> : r \in {q \in Requests : obj[q].state \in {"Pending", "Succeeded"}}}

\* A grant is in force for the UID its JitRequest has, and accepted when that is.
LEMMA GrantsInForce ==
  ASSUME TypeOK
  PROVE  \A r \in Requests : \A k :
           /\ <<r, k>> \in Grants <=> (k = obj[r].uid /\ k # 0)
           /\ <<r, k>> \in Accepted <=> (k = obj[r].uid /\ obj[r].state \in Granted)
BY DEF Grants, Accepted, Granted, Exists

\* Creating a JitRequest opens a grant.
LEMMA CreateOpens ==
  ASSUME IInv, NEW q \in Requests, CreateK8sObject(q)
  PROVE  /\ Grants' = Grants \union {<<q, created[q] + 1>>}
         /\ Accepted' = Accepted
         /\ ~\E g \in Grants : g[1] = q
<1>1. /\ obj'[q].uid = created[q] + 1 /\ created[q] + 1 # 0 /\ obj'[q].state = "New"
      /\ \A r \in Requests : r # q => obj'[r] = obj[r]
  BY DEF CreateK8sObject, IInv, TypeOK, Absent
<1>2. obj[q].uid = 0 /\ obj[q].state = "New"
  BY DEF CreateK8sObject, Exists, IInv, VersionsOK, Version, Absent
<1>3. Grants' = Grants \union {<<q, created[q] + 1>>} /\ ~\E g \in Grants : g[1] = q
  BY <1>1, <1>2 DEF Grants, Exists
<1>4. Accepted' = Accepted
  BY <1>1, <1>2 DEF Accepted
<1> QED BY <1>3, <1>4

\* Removing a JitRequest closes its grant.
LEMMA RemovalCloses ==
  ASSUME TypeOK, NEW q \in Requests, obj' = [obj EXCEPT ![q] = Absent], Exists(obj[q])
  PROVE  /\ <<q, obj[q].uid>> \in Grants
         /\ Grants' = Grants \ {<<q, obj[q].uid>>}
         /\ Accepted' = Accepted \ {<<q, obj[q].uid>>}
<1>1. obj'[q].uid = 0 /\ obj'[q].state = "New" /\ \A r \in Requests : r # q => obj'[r] = obj[r]
  BY DEF TypeOK, Absent
<1>2. <<q, obj[q].uid>> \in Grants /\ Grants' = Grants \ {<<q, obj[q].uid>>}
  BY <1>1 DEF Grants, Exists
<1>3. Accepted' = Accepted \ {<<q, obj[q].uid>>}
  BY <1>1 DEF Accepted
<1> QED BY <1>2, <1>3

\* What the promise does not see.
Unpromised ==
  /\ UNCHANGED <<now, spec, obj, created, bindings>>
  /\ spent'.withdrawals = spent.withdrawals /\ spent'.evictions = spent.evictions

\* The steps a promise is about; all others leave what it speaks of alone.
LEMMA PromisedSteps ==
  ASSUME TypeOK, [Next]_vars
  PROVE  \/ Tick
         \/ \E q \in Requests : CreateK8sObject(q) \/ Withdraw(q)
         \/ \E n \in Namespaces : Evict(n)
         \/ \E b \in bindings : GarbageCollect(b)
         \/ \E n \in worker.left : CreateRoleBinding(n) \/ CreateRoleBindingFails(n)
         \/ UpdateStatus \/ UpdateStatusFails
         \/ DeleteJitRequest \/ DeleteJitRequestFails
         \/ Unpromised
<1>1. CASE Crash \/ NamespaceLookupFails \/ \E r \in Requests : ConfigUnreadable(r)
  BY <1>1 DEF Crash, NamespaceLookupFails, ConfigUnreadable, Fails, cluster, Unpromised, TypeOK
<1>2. CASE \/ Restart \/ (\E r \in Requests : Sync(r) \/ TimerFires(r) \/ Reconcile(r))
           \/ HandleNewRequest \/ HandleRejected \/ HandlePreApproved \/ HandleCleanup
           \/ RoleBindingsCreated \/ CallbackToApi \/ RequeueAfter \/ UNCHANGED vars
  BY <1>2 DEF Restart, Sync, TimerFires, Reconcile, HandleNewRequest, HandleRejected,
     HandlePreApproved, HandleCleanup, RoleBindingsCreated, CallbackToApi, RequeueAfter, vars,
     cluster, Unpromised
<1> QED BY <1>1, <1>2 DEF Next, Environment, Runtime, Handlers

\* A step the promise does not see is a stutter of it.
LEMMA UnpromisedStutters ==
  ASSUME UNCHANGED <<now, spec, created, bindings>>, Grants' = Grants, Accepted' = Accepted,
         spent'.withdrawals = spent.withdrawals, spent'.evictions = spent.evictions
  PROVE  UNCHANGED Promise!vars
BY DEF Promise!vars, Grants, Accepted

\* Time passes for the promise as well.
LEMMA TickAdvances ==
  ASSUME Tick
  PROVE  Promise!Advance
BY DEF Tick, Promise!Advance, cluster

\* Approval of a ticket opens a grant.
LEMMA CreateIsOpen ==
  ASSUME IInv, NEW q \in Requests, CreateK8sObject(q)
  PROVE  Promise!Open(q)
<1>1. created'[q] = created[q] + 1 /\ created' = [created EXCEPT ![q] = @ + 1]
      /\ UNCHANGED <<now, spec, bindings, spent>>
  BY DEF CreateK8sObject, IInv, TypeOK
<1>2. /\ Grants' = Grants \union {<<q, created'[q]>>} /\ ~\E g \in Grants : g[1] = q
      /\ Accepted' = Accepted
  BY <1>1, CreateOpens
<1> QED BY <1>1, <1>2 DEF Promise!Open, Grants, Accepted

\* Somebody's deletion of a JitRequest withdraws its grant.
LEMMA WithdrawIsWithdraw ==
  ASSUME TypeOK, NEW q \in Requests, Withdraw(q)
  PROVE  Promise!Next
<1> PICK g : g = <<q, obj[q].uid>>
  OBVIOUS
<1>1. g \in Grants /\ Grants' = Grants \ {g} /\ Accepted' = Accepted \ {g}
  BY RemovalCloses DEF Withdraw
<1>2. UNCHANGED <<now, spec, created, bindings>> /\ spent'.withdrawals = spent.withdrawals + 1
      /\ spent'.evictions = spent.evictions
  BY DEF Withdraw, TypeOK
<1>3. Promise!Withdraw(g)
  BY <1>1, <1>2 DEF Promise!Withdraw, Promise!Remove, Grants, Accepted
<1> QED BY <1>1, <1>3 DEF Promise!Next, Grants

\* A namespace takes its access with it.
LEMMA EvictIsEvict ==
  ASSUME TypeOK, NEW n \in Namespaces, Evict(n)
  PROVE  Promise!Next
<1>1. UNCHANGED <<now, spec, obj, created>> /\ spent'.withdrawals = spent.withdrawals
      /\ spent'.evictions = spent.evictions + 1 /\ bindings' = {b \in bindings : b.ns # n}
  BY DEF Evict, TypeOK
<1>2. Promise!Evict(n)
  BY <1>1 DEF Promise!Evict
<1> QED BY <1>2 DEF Promise!Next

\* The garbage collector only revokes access whose grant is not in force.
LEMMA CollectIsRevoke ==
  ASSUME IInv, NEW b \in bindings, GarbageCollect(b)
  PROVE  Promise!Next
<1>1. UNCHANGED <<now, spec, obj, created, spent>> /\ bindings' = bindings \ {b}
  BY DEF GarbageCollect
<1>2. <<b.req, b.owner>> \notin Grants
  BY GrantsInForce DEF GarbageCollect, OwnerAlive, IInv, TypeOK, Bindings
<1>3. Promise!Revoke(b)
  BY <1>1, <1>2 DEF Promise!Revoke, Grants, Accepted
<1> QED BY <1>3 DEF Promise!Next

\* createRoleBinding gives access after the start, to a grant that was accepted, where
\* there is none.
LEMMA BindIsGive ==
  ASSUME IInv, [Next]_vars, NEW n \in worker.left, CreateRoleBinding(n) \/ CreateRoleBindingFails(n)
  PROVE  [Promise!Next]_(Promise!vars)
<1>0. TypeOK /\ At("bind") /\ worker.key \in Requests /\ worker.copy.uid \in Nat
      /\ UNCHANGED <<now, spec, obj, created>>
      /\ spent'.withdrawals = spent.withdrawals /\ spent'.evictions = spent.evictions
  BY DEF IInv, TypeOK, CreateRoleBinding, CreateRoleBindingFails, Fails, At, Workers, Objects
<1>1. CASE bindings' = bindings
  BY <1>0, <1>1, UnpromisedStutters DEF Grants, Accepted
<1>2. CASE bindings' # bindings
  <2>1. /\ ~\E b \in bindings : b.req = worker.key /\ b.ns = n
        /\ bindings' = bindings \union {RoleBinding(worker.key, n, worker.copy.uid)}
    BY <1>2 DEF CreateRoleBinding, CreateRoleBindingFails, NewBinding, BindingsOf
  <2>2. BindingOK(RoleBinding(worker.key, n, worker.copy.uid))
    BY <1>0, NewBindingIsOK
  <2>3. /\ worker.copy.uid \in 1 .. created[worker.key]
        /\ spec[worker.key][worker.copy.uid].start <= now
        /\ worker.copy.uid = obj[worker.key].uid => obj[worker.key].state \in Granted
        /\ n \in Namespaces
    BY <1>0, <2>2 DEF BindingOK, OwnerAlive, RoleBinding, TypeOK, Workers
  <2> DEFINE g == <<worker.key, worker.copy.uid>>
  <2>5. g \in Grants => g \in Accepted
    BY <1>0, <2>3, GrantsInForce
  <2>4. Promise!Give(g, n)
    BY <1>0, <2>1, <2>3, <2>5 DEF Promise!Give, Promise!WindowOf, RoleBinding, Grants, Accepted
  <2> QED BY <1>0, <2>3, <2>4 DEF Promise!Next
<1> QED BY <1>1, <1>2

\* Writing Pending accepts the grant; the other status updates are none of the
\* promise's business.
LEMMA UpdateAccepts ==
  ASSUME IInv, UpdateStatus \/ UpdateStatusFails
  PROVE  [Promise!Next]_(Promise!vars)
<1> DEFINE k == worker.key
<1> PICK g : g = <<k, obj[k].uid>>
  OBVIOUS
<1>0. /\ TypeOK /\ UNCHANGED <<now, spec, created, bindings>>
      /\ spent'.withdrawals = spent.withdrawals /\ spent'.evictions = spent.evictions
      /\ At("update")
      /\ obj' = obj \/ (UpToDate /\ obj' = [obj EXCEPT ![k] = NewStatus])
  BY DEF IInv, TypeOK, UpdateStatus, UpdateStatusFails, Fails
<1>1. CASE obj' = obj
  BY <1>0, <1>1, UnpromisedStutters DEF Grants, Accepted
<1>2. CASE UpToDate /\ obj' = [obj EXCEPT ![k] = NewStatus]
  <2>1. /\ k \in Requests /\ obj'[k].uid = obj[k].uid /\ obj[k].uid # 0 /\ obj'[k].state = worker.target
        /\ \A r \in Requests : r # k => obj'[r] = obj[r]
        /\ \/ worker.target = "Rejected" /\ obj[k].state = "New"
           \/ worker.target = "Pending" /\ obj[k].state = "New"
           \/ worker.target = "Succeeded" /\ obj[k].state = "Pending"
    BY <1>0, <1>2, WriteIsCurrent, WriteStep DEF TypeOK
  <2>2. Grants' = Grants /\ g \in Grants
    BY <2>1 DEF Grants, Exists
  <2>3. CASE worker.target = "Pending"
    <3>1. Accepted' = Accepted \union {g}
      BY <2>1, <2>3 DEF Accepted
    <3>2. Promise!Accept(g)
      BY <1>0, <2>2, <3>1 DEF Promise!Accept, Grants, Accepted
    <3> QED BY <2>2, <3>2 DEF Promise!Next, Grants
  <2>4. CASE worker.target # "Pending"
    <3>1. Accepted' = Accepted
      BY <2>1, <2>4 DEF Accepted
    <3> QED BY <1>0, <2>2, <3>1, UnpromisedStutters
  <2> QED BY <2>3, <2>4
<1> QED BY <1>0, <1>1, <1>2

\* The operator closes an accepted grant after its end, and else one that was not
\* accepted: the JitRequest it deletes by name is its own, or one it has not looked at.
LEMMA DeleteIsClose ==
  ASSUME PInv, DeleteJitRequest \/ DeleteJitRequestFails
  PROVE  [Promise!Next]_(Promise!vars)
<1> DEFINE k == worker.key
<1> PICK g : g = <<k, obj[k].uid>>
  OBVIOUS
<1>0. /\ IInv /\ TypeOK /\ Achieved /\ k \in Requests /\ At("delete")
      /\ UNCHANGED <<now, spec, created, bindings>>
      /\ spent'.withdrawals = spent.withdrawals /\ spent'.evictions = spent.evictions
      /\ obj' = obj \/ (Exists(obj[k]) /\ obj' = [obj EXCEPT ![k] = Absent])
  BY DEF PInv, IInv, TypeOK, AchievedOK, DeleteJitRequest, DeleteJitRequestFails, Fails, At
<1>1. CASE obj' = obj
  BY <1>0, <1>1, UnpromisedStutters DEF Grants, Accepted
<1>2. CASE Exists(obj[k]) /\ obj' = [obj EXCEPT ![k] = Absent]
  <2>1. g \in Grants /\ Grants' = Grants \ {g} /\ Accepted' = Accepted \ {g}
    BY <1>0, <1>2, RemovalCloses
  <2>2. obj[k].state \in Granted => spec[k][obj[k].uid].end <= now
    BY <1>0 DEF Achieved, Recorded, Current, Request, At, Granted
  <2>3. g \in Accepted => spec[k][obj[k].uid].end <= now
    BY <1>0, <2>2, GrantsInForce
  <2>5. Promise!Close(g)
    <3>1. g[1] = k /\ g[2] = obj[k].uid
      OBVIOUS
    <3> QED
      BY <1>0, <2>1, <2>3, <3>1
      DEF Promise!Close, Promise!Remove, Promise!WindowOf, Grants, Accepted
  <2> QED BY <2>1, <2>5 DEF Promise!Next, Grants
<1> QED BY <1>0, <1>1, <1>2

\* The operator implements AccessGrant: access is given no earlier than its start and
\* to accepted JitRequests only; an accepted one lasts until its end, with the access
\* it gave, unless it is withdrawn or the namespace goes.
THEOREM PromiseIsKept == Spec => KeepsPromise
<1>1. Init => Promise!Init
  BY DEF Init, Promise!Init, Absent, Exists
<1>2. PInv /\ [Next]_vars => [Promise!Next]_(Promise!vars)
  <2> SUFFICES ASSUME PInv, [Next]_vars PROVE [Promise!Next]_(Promise!vars)
    OBVIOUS
  <2>0. IInv /\ TypeOK
    BY DEF PInv, IInv
  <2>1. Tick => Promise!Next
    BY TickAdvances DEF Promise!Next
  <2>2. \A q \in Requests : CreateK8sObject(q) => Promise!Next
    BY <2>0, CreateIsOpen DEF Promise!Next
  <2>3. Unpromised => UNCHANGED Promise!vars
    BY UnpromisedStutters DEF Unpromised, Grants, Accepted
  <2> QED
    BY <2>0, <2>1, <2>2, <2>3, PromisedSteps, WithdrawIsWithdraw, EvictIsEvict, CollectIsRevoke,
       BindIsGive, UpdateAccepts, DeleteIsClose
<1> QED BY AcceptedIsAlone, <1>1, <1>2, PTL DEF Spec, KeepsPromise, Promise!Spec
=============================================================================
