------------------------ MODULE JitGroupCache_proofs ------------------------
(***************************************************************************)
(* Safety of JitGroupCache for any number of namespaces, groups, edits,    *)
(* deletions, crashes and failures.  The argument: a namespace that was    *)
(* not missed is listed as it should be, or something still to come will   *)
(* write its entry (Pending), and whatever can overwrite the entry         *)
(* meanwhile holds the right one or is followed by an event (HeldOK).      *)
(***************************************************************************)
EXTENDS JitGroupCache, TLAPS

Runs == [pc : PCs, key : Namespaces \union {Rebuild}, groups : Lists, fresh : BOOLEAN,
         tries : 0 .. Steps]

w == run["worker"]
b == run["boot"]

Reconciling == {"fetchCache", "createCache", "readNamespace", "updateCache"}
WorksOn(n) == w.key = n /\ w.pc \in Reconciling

\* Nothing is in progress while the operator is down; a rebuild has the empty request.
ProcessesOK ==
  /\ ~up => queue = {} /\ w.pc = "idle" /\ b.pc = "idle"
  /\ w.pc \in Rebuilding \union {"list"} => w.key = Rebuild
  /\ w.pc \in Reconciling => w.key \in Namespaces
  /\ b.pc \in Rebuilding \union {"list", "idle"} /\ b.key = Rebuild

\* Who has the latest object has its content, but for the entry in work.
FreshOK ==
  /\ copy.fresh => ~copy.gone /\ copy.exists = cache.exists /\ copy.groups = cache.groups
  /\ copy.gone => up
  /\ w.fresh => cache.exists /\ w.pc \in {"readNamespace", "updateCache", "updateListed"}
  /\ b.fresh => cache.exists /\ b.pc = "updateListed"
  /\ w.fresh /\ w.pc \in {"readNamespace", "updateCache"} =>
       \A m \in Namespaces \ {w.key} : w.groups[m] = cache.groups[m]

\* A rebuild that has not listed yet is to come, or one that has is not done.
RebuildDue ==
  \/ ~up \/ copy.gone \/ Rebuild \in queue
  \/ w.pc \in Rebuilding \union {"list"} \/ b.pc \in Rebuilding \union {"list"}

\* A write of n's entry is to come that will be right.
Pending(n) ==
  \/ ~up \/ copy.gone \/ Rebuild \in queue \/ n \in queue
  \/ w.pc = "list" \/ b.pc = "list"
  \/ b.pc \in Rebuilding
  \/ w.pc \in Rebuilding /\ w.groups[n] = Wanted(n)
  \/ WorksOn(n) /\ (w.pc = "updateCache" => w.groups[n] = Wanted(n))

\* What is held of n is right, or n is reconciled again.
HeldOK(n) ==
  /\ b.pc \in Rebuilding => b.groups[n] = Wanted(n)
  /\ w.pc \in Rebuilding => w.groups[n] = Wanted(n) \/ n \in queue
  /\ WorksOn(n) /\ w.pc = "updateCache" => w.groups[n] = Wanted(n) \/ n \in queue
  /\ WorksOn(n) \/ n \in queue => EntryOf(n) = Wanted(n)

NamespacesOK == \A n \in Namespaces \ lost : HeldOK(n) /\ (Listed(n) \/ Pending(n))

\* The inductive invariant.
IInv ==
  /\ TypeOK /\ ProcessesOK /\ FreshOK
  /\ ~cache.exists => RebuildDue /\ cache.groups = Empty
  /\ NamespacesOK
-----------------------------------------------------------------------------
(* Types *)

\* The processes at rest.
LEMMA IdleType == Idle \in Runs /\ Empty \in Lists
  BY ConstantsAssumption DEF Idle, Runs, PCs, Empty, Lists, Entries

\* What is listed or read of a namespace is an entry.
LEMMA EntryTypes ==
  ASSUME TypeOK, NEW n \in Namespaces
  PROVE  Wanted(n) \in Entries /\ EntryOf(n) \in Entries
  BY ConstantsAssumption DEF TypeOK, Wanted, EntryOf, Entries, Namespace

\* The two processes, one by one.
LEMMA RunType ==
  ASSUME TypeOK PROVE w \in Runs /\ b \in Runs /\ "worker" \in Processes /\ "boot" \in Processes
  BY DEF TypeOK, Runs, w, b, Processes

\* The initial state.
LEMMA InitOK == Init => IInv
<1> SUFFICES ASSUME Init PROVE IInv
  OBVIOUS
<1>1. w = Idle /\ b = Idle
  BY DEF Init, w, b, Processes
<1>2. TypeOK
  BY IdleType, <1>1 DEF Init, TypeOK, Runs, Processes
<1>3. ProcessesOK /\ FreshOK /\ RebuildDue /\ cache.groups = Empty
  BY <1>1 DEF Init, ProcessesOK, FreshOK, RebuildDue, Idle, Rebuilding, Reconciling
<1>4. NamespacesOK
  BY <1>1 DEF Init, NamespacesOK, HeldOK, Pending, Idle, Rebuilding, WorksOn, Reconciling
<1> QED BY <1>2, <1>3, <1>4 DEF IInv

\* A request is taken from the queue.
LEMMA DequeueStep ==
  ASSUME IInv, Dequeue
  PROVE  IInv'
<1>1. PICK k \in queue : /\ queue' = queue \ {k}
                      /\ run' = [run EXCEPT !["worker"].key = k,
                                   !["worker"].pc = IF k = Rebuild THEN "list" ELSE "fetchCache"]
  BY DEF Dequeue
<1>2. /\ ns' = ns /\ cache' = cache /\ copy' = copy /\ up' = up /\ lost' = lost /\ spent' = spent
      /\ b' = b
      /\ up /\ w.pc = "idle" /\ k \in Namespaces \union {Rebuild} /\ queue' = queue \ {k}
      /\ w'.pc = (IF k = Rebuild THEN "list" ELSE "fetchCache") /\ w'.key = k
      /\ w'.groups = w.groups /\ w'.fresh = w.fresh /\ w'.tries = w.tries
  BY <1>1, RunType, IdleType, EntryTypes DEF IInv, ProcessesOK, TypeOK, Processes, w, b, Runs,
     Rebuilding, At, Dequeue
<1>3. w' \in Runs /\ b' \in Runs /\ run' \in [Processes -> Runs]
  BY <1>1, <1>2, RunType, IdleType, EntryTypes, ConstantsAssumption DEF IInv, ProcessesOK, TypeOK,
     Processes, w, b, Runs, Rebuilding, At, PCs, Lists, Dequeue
<1>4. TypeOK'
  BY <1>1, <1>2, <1>3, IdleType, RunType DEF IInv, TypeOK, Runs
<1>5. ProcessesOK'
  BY <1>1, <1>2, RunType DEF IInv, TypeOK, ProcessesOK, Rebuilding, Reconciling
<1>6. FreshOK'
  BY <1>1, <1>2, RunType DEF IInv, FreshOK, ProcessesOK, Rebuilding, Reconciling
<1>7. ~cache'.exists => RebuildDue' /\ cache'.groups = Empty
  BY <1>1, <1>2, RunType DEF IInv, ProcessesOK, RebuildDue, Rebuilding, Reconciling
<1>8. NamespacesOK'
  <2> SUFFICES ASSUME NEW n \in Namespaces \ lost' PROVE HeldOK(n)' /\ (Listed(n)' \/ Pending(n)')
    BY DEF NamespacesOK
  <2>1. n \notin lost => HeldOK(n) /\ (Listed(n) \/ Pending(n))
    BY DEF IInv, NamespacesOK
  <2> QED BY <1>1, <1>2, <2>1, RunType, EntryTypes DEF IInv, HeldOK, Pending, Listed, Wanted,
     EntryOf, WorksOn, ProcessesOK, FreshOK, Rebuilding, Reconciling, Runs, Lists
<1> QED BY <1>4, <1>5, <1>6, <1>7, <1>8 DEF IInv

\* One process moves and nothing is written.
LEMMA Moved ==
  ASSUME TypeOK, NEW p \in Processes, NEW r \in Runs, run' = [run EXCEPT ![p] = r]
  PROVE  /\ run' \in [Processes -> Runs] /\ w' \in Runs /\ b' \in Runs
         /\ p = "worker" => w' = r /\ b' = b
         /\ p = "boot" => b' = r /\ w' = w
  BY DEF TypeOK, Runs, Processes, w, b

\* One process writes: copies that are still the latest are copies of what it wrote.
LEMMA Written ==
  ASSUME TypeOK, NEW p \in Processes, NEW r \in Runs, NEW g \in Lists, Put(p, g, r)
  PROVE  /\ run' \in [Processes -> Runs] /\ w' \in Runs /\ b' \in Runs
         /\ cache' \in [exists : BOOLEAN, groups : Lists] /\ cache'.exists /\ cache'.groups = g
         /\ copy' \in [exists : BOOLEAN, groups : Lists, fresh : BOOLEAN, gone : BOOLEAN]
         /\ copy'.exists = copy.exists /\ copy'.groups = copy.groups /\ copy'.gone = copy.gone
         /\ copy'.fresh => copy.fresh /\ cache.exists /\ cache.groups = g
         /\ p = "worker" => /\ w' = r /\ b'.pc = b.pc /\ b'.key = b.key /\ b'.groups = b.groups
                            /\ b'.fresh => b.fresh /\ cache.exists /\ cache.groups = g
         /\ p = "boot" => /\ b' = r /\ w'.pc = w.pc /\ w'.key = w.key /\ w'.groups = w.groups
                          /\ w'.fresh => w.fresh /\ cache.exists /\ cache.groups = g
<1>1. cache' = [exists |-> TRUE, groups |-> g] /\ copy' = [copy EXCEPT !.fresh = copy.fresh /\ cache' = cache]
      /\ run' = [q \in Processes |->
                   IF q = p THEN r ELSE [run[q] EXCEPT !.fresh = run[q].fresh /\ cache' = cache]]
  BY DEF Put
<1> DEFINE same == cache' = cache
<1>2. same \in BOOLEAN /\ (same => cache.exists /\ cache.groups = g)
  BY <1>1
<1>3. cache' \in [exists : BOOLEAN, groups : Lists] /\ cache'.exists /\ cache'.groups = g
  BY <1>1
<1>4. copy' = [copy EXCEPT !.fresh = copy.fresh /\ same]
      /\ run' = [q \in Processes |-> IF q = p THEN r ELSE [run[q] EXCEPT !.fresh = run[q].fresh
      /\ same]]
  BY <1>1
<1> HIDE DEF same
<1>5. \A q \in Processes : run[q] \in Runs /\ [run[q] EXCEPT !.fresh = run[q].fresh /\ same] \in Runs
  BY <1>2 DEF TypeOK, Runs
<1>6. run' \in [Processes -> Runs] /\ w' \in Runs /\ b' \in Runs
  BY <1>4, <1>5 DEF Processes, w, b
<1>7. /\ copy' \in [exists : BOOLEAN, groups : Lists, fresh : BOOLEAN, gone : BOOLEAN]
      /\ copy'.exists = copy.exists /\ copy'.groups = copy.groups /\ copy'.gone = copy.gone
      /\ copy'.fresh => copy.fresh /\ same
  BY <1>2, <1>4 DEF TypeOK
<1>8. \A q \in Processes \ {p} :
        /\ run'[q].pc = run[q].pc /\ run'[q].key = run[q].key /\ run'[q].groups = run[q].groups
        /\ run'[q].fresh => run[q].fresh /\ same
  BY <1>2, <1>4, <1>5 DEF Runs
<1>9. run'[p] = r
  BY <1>4
<1> QED BY <1>2, <1>3, <1>6, <1>7, <1>8, <1>9 DEF Processes, w, b

\* A listing sees what was missed, except what something else may still write.
LEMMA SeenByList ==
  ASSUME IInv, NEW p \in Processes, List(p)
  PROVE  /\ lost' \subseteq lost
         /\ \A n \in lost \ lost' : n \notin queue /\ n # w.key
                                  /\ \A q \in Processes \ {p} : run[q].pc \notin Rebuilding
<1>1. lost' = lost \intersect
                (queue \union {w.key} \union UNION {InHand(q) : q \in Processes \ {p}})
  BY DEF List, w
<1>2. ASSUME NEW n \in lost \ lost', NEW q \in Processes \ {p} PROVE run[q].pc \notin Rebuilding
  <2>1. n \notin InHand(q) /\ n \in Namespaces
    BY <1>1, <1>2 DEF IInv, TypeOK
  <2> QED BY <2>1 DEF InHand
<1> QED BY <1>1, <1>2

\* An error of the worker: the request is put back.
LEMMA ErrorStep ==
  ASSUME IInv, Error("worker"), up, w.pc # "idle",
         spent' \in [edits : Nat, deletions : Nat, crashes : Nat, failures : Nat]
  PROVE  IInv'
<1>1. run' = [run EXCEPT !["worker"] = Idle] /\ queue' = queue \union {w.key}
  BY DEF Error, w
<1>2. /\ run' \in [Processes -> Runs] /\ w' \in Runs /\ b' \in Runs /\ w' = Idle /\ b' = b
  BY <1>1, Moved, RunType, IdleType DEF IInv
<1>3. /\ ns' = ns /\ cache' = cache /\ copy' = copy /\ up' = up /\ lost' = lost
      /\ b' = b
      /\ up /\ w.pc \in Rebuilding \union Reconciling \union {"list"}
      /\ queue' = queue \union {w.key}
      /\ spent' \in [edits : Nat, deletions : Nat, crashes : Nat, failures : Nat]
      /\ w.key \in Namespaces \union {Rebuild}
      /\ w'.pc = "idle" /\ w'.key = Rebuild /\ w'.groups = Empty /\ w'.fresh = FALSE
      /\ w'.tries = 0
  BY <1>1, <1>2, RunType, IdleType, EntryTypes DEF IInv, ProcessesOK, TypeOK, Processes, w, b,
     Runs, Rebuilding, At, Error, Idle, PCs, Reconciling
<1>4. w' \in Runs /\ b' \in Runs /\ run' \in [Processes -> Runs]
  BY <1>2
<1>5. TypeOK'
  BY <1>1, <1>2, <1>3, <1>4, IdleType, RunType DEF IInv, TypeOK, Runs
<1>6. ProcessesOK'
  BY <1>1, <1>2, <1>3, RunType DEF IInv, TypeOK, ProcessesOK, Rebuilding, Reconciling
<1>7. FreshOK'
  BY <1>1, <1>2, <1>3, RunType DEF IInv, FreshOK, ProcessesOK, Rebuilding, Reconciling
<1>8. ~cache'.exists => RebuildDue' /\ cache'.groups = Empty
  BY <1>1, <1>2, <1>3, RunType DEF IInv, ProcessesOK, RebuildDue, Rebuilding, Reconciling
<1>9. NamespacesOK'
  <2> SUFFICES ASSUME NEW n \in Namespaces \ lost' PROVE HeldOK(n)' /\ (Listed(n)' \/ Pending(n)')
    BY DEF NamespacesOK
  <2>1. n \notin lost => HeldOK(n) /\ (Listed(n) \/ Pending(n))
    BY DEF IInv, NamespacesOK
  <2> QED BY <1>1, <1>2, <1>3, <2>1, ConstantsAssumption, RunType, EntryTypes DEF IInv, HeldOK,
     Pending, Listed, Wanted, EntryOf, WorksOn, ProcessesOK, FreshOK, Rebuilding, Reconciling,
     Runs, Lists
<1> QED BY <1>5, <1>6, <1>7, <1>8, <1>9 DEF IInv

\* The operator stops.
LEMMA StopStep ==
  ASSUME IInv, Stop, ns' = ns, cache' = cache, lost' = lost,
         spent' \in [edits : Nat, deletions : Nat, crashes : Nat, failures : Nat]
  PROVE  IInv'
<1>1. /\ ns' = ns /\ cache' = cache /\ lost' = lost /\ up' = FALSE /\ queue' = {}
      /\ ~copy'.fresh /\ ~copy'.gone /\ queue' \subseteq Namespaces /\ up' \in BOOLEAN
      /\ copy' \in [exists : BOOLEAN, groups : Lists, fresh : BOOLEAN, gone : BOOLEAN]
      /\ spent' \in [edits : Nat, deletions : Nat, crashes : Nat, failures : Nat]
      /\ w'.pc = "idle" /\ w'.key = Rebuild /\ w'.groups = Empty /\ w'.fresh = FALSE
      /\ w'.tries = 0
      /\ b'.pc = "idle" /\ b'.key = Rebuild /\ b'.groups = Empty /\ b'.fresh = FALSE
      /\ b'.tries = 0
  BY RunType, IdleType, EntryTypes DEF IInv, ProcessesOK, TypeOK, Processes, w, b, Runs,
     Rebuilding, At, Stop, Idle
<1>2. w' \in Runs /\ b' \in Runs /\ run' \in [Processes -> Runs]
  BY <1>1, RunType, IdleType, EntryTypes, ConstantsAssumption DEF IInv, ProcessesOK, TypeOK,
     Processes, w, b, Runs, Rebuilding, At, PCs, Lists, Stop, Idle
<1>3. TypeOK'
  BY <1>1, <1>2, IdleType, RunType DEF IInv, TypeOK, Runs
<1>4. ProcessesOK'
  BY <1>1, RunType DEF IInv, TypeOK, ProcessesOK, Rebuilding, Reconciling
<1>5. FreshOK'
  BY <1>1, RunType DEF IInv, FreshOK, ProcessesOK, Rebuilding, Reconciling
<1>6. ~cache'.exists => RebuildDue' /\ cache'.groups = Empty
  BY <1>1, RunType DEF IInv, ProcessesOK, RebuildDue, Rebuilding, Reconciling
<1>7. NamespacesOK'
  <2> SUFFICES ASSUME NEW n \in Namespaces \ lost' PROVE HeldOK(n)' /\ (Listed(n)' \/ Pending(n)')
    BY DEF NamespacesOK
  <2>1. n \notin lost => HeldOK(n) /\ (Listed(n) \/ Pending(n))
    BY DEF IInv, NamespacesOK
  <2> QED BY <1>1, <2>1, RunType, EntryTypes DEF IInv, HeldOK, Pending, Listed, Wanted, EntryOf,
     WorksOn, ProcessesOK, FreshOK, Rebuilding, Reconciling, Runs, Lists
<1> QED BY <1>3, <1>4, <1>5, <1>6, <1>7 DEF IInv

\* The informer's copy is taken, if there is one.
LEMMA FetchStep ==
  ASSUME IInv, FetchCache
  PROVE  IInv'
<1>1. /\ ns' = ns /\ cache' = cache /\ copy' = copy /\ up' = up /\ queue' = queue
      /\ lost' = lost /\ spent' = spent
      /\ b' = b
      /\ up /\ w.pc = "fetchCache"
      /\ w'.pc = (IF copy.exists THEN "readNamespace" ELSE "createCache") /\ w'.key = w.key
      /\ w'.groups = (IF copy.exists THEN copy.groups ELSE w.groups)
      /\ w'.fresh = (IF copy.exists THEN copy.fresh ELSE w.fresh) /\ w'.tries = w.tries
  BY RunType, IdleType, EntryTypes DEF IInv, ProcessesOK, TypeOK, Processes, w, b, Runs,
     Rebuilding, At, FetchCache, Go
<1>2. w' \in Runs /\ b' \in Runs /\ run' \in [Processes -> Runs]
  BY <1>1, RunType, IdleType, EntryTypes, ConstantsAssumption DEF IInv, ProcessesOK, TypeOK,
     Processes, w, b, Runs, Rebuilding, At, PCs, Lists, FetchCache, Go
<1>3. TypeOK'
  BY <1>1, <1>2, IdleType, RunType DEF IInv, TypeOK, Runs
<1>4. ProcessesOK'
  BY <1>1, RunType DEF IInv, TypeOK, ProcessesOK, Rebuilding, Reconciling
<1>5. FreshOK'
  BY <1>1, RunType DEF IInv, FreshOK, ProcessesOK, Rebuilding, Reconciling
<1>6. ~cache'.exists => RebuildDue' /\ cache'.groups = Empty
  BY <1>1, RunType DEF IInv, ProcessesOK, RebuildDue, Rebuilding, Reconciling
<1>7. NamespacesOK'
  <2> SUFFICES ASSUME NEW n \in Namespaces \ lost' PROVE HeldOK(n)' /\ (Listed(n)' \/ Pending(n)')
    BY DEF NamespacesOK
  <2>1. n \notin lost => HeldOK(n) /\ (Listed(n) \/ Pending(n))
    BY DEF IInv, NamespacesOK
  <2> QED BY <1>1, <2>1, RunType, EntryTypes DEF IInv, HeldOK, Pending, Listed, Wanted, EntryOf,
     WorksOn, ProcessesOK, FreshOK, Rebuilding, Reconciling, Runs, Lists
<1> QED BY <1>3, <1>4, <1>5, <1>6, <1>7 DEF IInv

\* An empty object is created.
LEMMA CreateStep ==
  ASSUME IInv, CreateCache, ~cache.exists
  PROVE  IInv'
<1> DEFINE r == [w EXCEPT !.pc = "readNamespace", !.groups = Empty, !.fresh = TRUE]
               g == Empty
<1>1. up /\ w.pc = "createCache" /\ Put("worker", g, r) /\ spent' = spent
  BY DEF CreateCache, At, w, b, Rebuilding
<1>2. r \in Runs /\ g \in Lists
  BY RunType, IdleType DEF IInv, TypeOK, Runs, PCs
<1>3. /\ ns' = ns /\ up' = up /\ queue' = queue /\ lost' = lost /\ spent' = spent /\ w' = r
  BY <1>1, <1>2, Written, RunType DEF IInv, Put
<1>4. /\ up /\ w.pc = "createCache"
      /\ cache'.exists /\ cache'.groups = g
      /\ copy'.exists = copy.exists /\ copy'.groups = copy.groups /\ copy'.gone = copy.gone
      /\ copy'.fresh => copy.fresh /\ cache.exists /\ cache.groups = g
      /\ b'.pc = b.pc /\ b'.key = b.key /\ b'.groups = b.groups
      /\ b'.fresh => b.fresh /\ cache.exists /\ cache.groups = g
      /\ w'.pc = "readNamespace" /\ w'.key = w.key /\ w'.groups = Empty /\ w'.fresh = TRUE
      /\ w'.tries = w.tries
      /\ cache' \in [exists : BOOLEAN, groups : Lists]
      /\ copy' \in [exists : BOOLEAN, groups : Lists, fresh : BOOLEAN, gone : BOOLEAN]
      /\ run' \in [Processes -> Runs] /\ w' \in Runs /\ b' \in Runs
  <2>1. /\ w'.pc = "readNamespace" /\ w'.key = w.key /\ w'.groups = Empty /\ w'.fresh = TRUE
        /\ w'.tries = w.tries
    BY <1>3, RunType DEF IInv, Idle, Runs
  <2>2. TypeOK /\ "worker" \in Processes
    BY RunType DEF IInv
  <2> HIDE DEF r, g
  <2> QED BY <1>1, <1>2, <1>3, <2>1, <2>2, Written
<1>5. w' \in Runs /\ b' \in Runs /\ run' \in [Processes -> Runs]
  BY <1>4
<1>6. TypeOK'
  BY <1>3, <1>4, <1>5, IdleType, RunType DEF IInv, TypeOK, Runs
<1>7. ProcessesOK'
  BY <1>3, <1>4, RunType DEF IInv, TypeOK, ProcessesOK, Rebuilding, Reconciling
<1>8. FreshOK'
  BY <1>3, <1>4, RunType DEF IInv, FreshOK, ProcessesOK, Rebuilding, Reconciling
<1>9. ~cache'.exists => RebuildDue' /\ cache'.groups = Empty
  BY <1>3, <1>4, RunType DEF IInv, ProcessesOK, RebuildDue, Rebuilding, Reconciling
<1>10. NamespacesOK'
  <2> SUFFICES ASSUME NEW n \in Namespaces \ lost' PROVE HeldOK(n)' /\ (Listed(n)' \/ Pending(n)')
    BY DEF NamespacesOK
  <2>1. n \notin lost => HeldOK(n) /\ (Listed(n) \/ Pending(n))
    BY DEF IInv, NamespacesOK
  <2> QED BY <1>3, <1>4, <2>1, RunType, EntryTypes DEF IInv, HeldOK, Pending, Listed, Wanted,
     EntryOf, WorksOn, ProcessesOK, FreshOK, Rebuilding, Reconciling, Runs, Lists
<1> QED BY <1>6, <1>7, <1>8, <1>9, <1>10 DEF IInv

\* The entry is made of the namespace as it is now.
LEMMA ReadStep ==
  ASSUME IInv, ReadNamespace
  PROVE  IInv'
<1>1. /\ ns' = ns /\ cache' = cache /\ copy' = copy /\ up' = up /\ queue' = queue
      /\ lost' = lost /\ spent' = spent
      /\ b' = b
      /\ up /\ w.pc = "readNamespace" /\ w.key \in Namespaces
      /\ w'.pc = "updateCache" /\ w'.key = w.key
      /\ w'.groups = [w.groups EXCEPT ![w.key] = EntryOf(w.key)] /\ w'.fresh = w.fresh
      /\ w'.tries = w.tries
  BY RunType, IdleType, EntryTypes DEF IInv, ProcessesOK, TypeOK, Processes, w, b, Runs,
     Rebuilding, At, ReadNamespace, Go, Reconciling
<1>2. w' \in Runs /\ b' \in Runs /\ run' \in [Processes -> Runs]
  BY <1>1, RunType, IdleType, EntryTypes, ConstantsAssumption DEF IInv, ProcessesOK, TypeOK,
     Processes, w, b, Runs, Rebuilding, At, PCs, Lists, ReadNamespace, Go, Reconciling
<1>3. TypeOK'
  BY <1>1, <1>2, IdleType, RunType DEF IInv, TypeOK, Runs
<1>4. ProcessesOK'
  BY <1>1, RunType DEF IInv, TypeOK, ProcessesOK, Rebuilding, Reconciling
<1>5. FreshOK'
  BY <1>1, RunType DEF IInv, FreshOK, ProcessesOK, Rebuilding, Reconciling
<1>6. ~cache'.exists => RebuildDue' /\ cache'.groups = Empty
  BY <1>1, RunType DEF IInv, ProcessesOK, RebuildDue, Rebuilding, Reconciling
<1>7. NamespacesOK'
  <2> SUFFICES ASSUME NEW n \in Namespaces \ lost' PROVE HeldOK(n)' /\ (Listed(n)' \/ Pending(n)')
    BY DEF NamespacesOK
  <2>1. n \notin lost => HeldOK(n) /\ (Listed(n) \/ Pending(n))
    BY DEF IInv, NamespacesOK
  <2> QED BY <1>1, <2>1, RunType, EntryTypes DEF IInv, HeldOK, Pending, Listed, Wanted, EntryOf,
     WorksOn, ProcessesOK, FreshOK, Rebuilding, Reconciling, Runs, Lists
<1> QED BY <1>3, <1>4, <1>5, <1>6, <1>7 DEF IInv

\* The list with the new entry is written.
LEMMA UpdateStep ==
  ASSUME IInv, UpdateCache, cache.exists, w.fresh
  PROVE  IInv'
<1> DEFINE r == Idle
               g == w.groups
<1>1. up /\ w.pc = "updateCache" /\ cache.exists /\ w.fresh /\ Put("worker", g, r) /\ spent' = spent
  BY DEF UpdateCache, At, w, b, Rebuilding
<1>2. r \in Runs /\ g \in Lists
  BY RunType, IdleType DEF IInv, TypeOK, Runs, PCs
<1>3. /\ ns' = ns /\ up' = up /\ queue' = queue /\ lost' = lost /\ spent' = spent /\ w' = r
  BY <1>1, <1>2, Written, RunType DEF IInv, Put
<1>4. /\ up /\ w.pc = "updateCache" /\ cache.exists /\ w.fresh
      /\ cache'.exists /\ cache'.groups = g
      /\ copy'.exists = copy.exists /\ copy'.groups = copy.groups /\ copy'.gone = copy.gone
      /\ copy'.fresh => copy.fresh /\ cache.exists /\ cache.groups = g
      /\ b'.pc = b.pc /\ b'.key = b.key /\ b'.groups = b.groups
      /\ b'.fresh => b.fresh /\ cache.exists /\ cache.groups = g
      /\ w'.pc = "idle" /\ w'.key = Rebuild /\ w'.groups = Empty /\ w'.fresh = FALSE
      /\ w'.tries = 0
      /\ cache' \in [exists : BOOLEAN, groups : Lists]
      /\ copy' \in [exists : BOOLEAN, groups : Lists, fresh : BOOLEAN, gone : BOOLEAN]
      /\ run' \in [Processes -> Runs] /\ w' \in Runs /\ b' \in Runs
  <2>1. /\ w'.pc = "idle" /\ w'.key = Rebuild /\ w'.groups = Empty /\ w'.fresh = FALSE
        /\ w'.tries = 0
    BY <1>3, RunType DEF IInv, Idle, Runs
  <2>2. TypeOK /\ "worker" \in Processes
    BY RunType DEF IInv
  <2> HIDE DEF r, g
  <2> QED BY <1>1, <1>2, <1>3, <2>1, <2>2, Written
<1>5. w' \in Runs /\ b' \in Runs /\ run' \in [Processes -> Runs]
  BY <1>4
<1>6. TypeOK'
  BY <1>3, <1>4, <1>5, IdleType, RunType DEF IInv, TypeOK, Runs
<1>7. ProcessesOK'
  BY <1>3, <1>4, RunType DEF IInv, TypeOK, ProcessesOK, Rebuilding, Reconciling
<1>8. FreshOK'
  BY <1>3, <1>4, RunType DEF IInv, FreshOK, ProcessesOK, Rebuilding, Reconciling
<1>9. ~cache'.exists => RebuildDue' /\ cache'.groups = Empty
  BY <1>3, <1>4, RunType DEF IInv, ProcessesOK, RebuildDue, Rebuilding, Reconciling
<1>10. NamespacesOK'
  <2> SUFFICES ASSUME NEW n \in Namespaces \ lost' PROVE HeldOK(n)' /\ (Listed(n)' \/ Pending(n)')
    BY DEF NamespacesOK
  <2>1. n \notin lost => HeldOK(n) /\ (Listed(n) \/ Pending(n))
    BY DEF IInv, NamespacesOK
  <2> QED BY <1>3, <1>4, <2>1, RunType, EntryTypes DEF IInv, HeldOK, Pending, Listed, Wanted,
     EntryOf, WorksOn, ProcessesOK, FreshOK, Rebuilding, Reconciling, Runs, Lists
<1> QED BY <1>6, <1>7, <1>8, <1>9, <1>10 DEF IInv

\* The namespaces are listed (worker).
LEMMA WorkerListStep ==
  ASSUME IInv, List("worker")
  PROVE  IInv'
<1> DEFINE r == [w EXCEPT !.pc = "getLatest", !.groups = [n \in Namespaces |-> Wanted(n)],
                            !.tries = Steps]
<1>1. /\ up /\ w.pc = "list"
      /\ run' = [run EXCEPT !["worker"] = r]
  BY DEF List, At, w, b
<1>2. r \in Runs
  <2>1. [n \in Namespaces |-> Wanted(n)] \in Lists /\ Steps \in 0 .. Steps
    BY EntryTypes, ConstantsAssumption DEF IInv, Lists
  <2> QED BY <2>1, RunType DEF IInv, Runs, PCs, Rebuilding
<1>3. /\ run' \in [Processes -> Runs] /\ w' \in Runs /\ b' \in Runs /\ w' = r /\ b' = b
  BY <1>1, <1>2, Moved, RunType DEF IInv
<1>4. /\ ns' = ns /\ cache' = cache /\ copy' = copy /\ up' = up /\ queue' = queue
      /\ spent' = spent
      /\ b' = b /\ up /\ w.pc = "list"
      /\ w'.pc = "getLatest" /\ w'.key = w.key /\ w'.fresh = w.fresh
      /\ \A n \in Namespaces : w'.groups[n] = Wanted(n)
      /\ lost' \subseteq lost
      /\ \A n \in lost \ lost' : n \notin queue /\ n # w.key /\ b.pc \notin Rebuilding
  <2>1. /\ ns' = ns /\ cache' = cache /\ copy' = copy /\ up' = up /\ queue' = queue
        /\ spent' = spent
    BY DEF List
  <2>2. /\ w'.pc = "getLatest" /\ w'.key = w.key /\ w'.fresh = w.fresh
        /\ \A n \in Namespaces : w'.groups[n] = Wanted(n)
    BY <1>3, RunType DEF IInv, Runs
  <2>3. lost' \subseteq lost /\ \A n \in lost \ lost' : n \notin queue /\ n # w.key /\ b.pc \notin Rebuilding
    BY SeenByList, RunType DEF IInv, Processes, w, b
  <2> QED BY <1>1, <1>3, <2>1, <2>2, <2>3
<1>5. w' \in Runs /\ b' \in Runs /\ run' \in [Processes -> Runs]
  BY <1>3
<1>6. TypeOK'
  BY <1>4, <1>5, IdleType, RunType DEF IInv, TypeOK, Runs
<1>7. ProcessesOK'
  BY <1>4, RunType DEF IInv, TypeOK, ProcessesOK, Rebuilding, Reconciling
<1>8. FreshOK'
  BY <1>4, RunType DEF IInv, FreshOK, ProcessesOK, Rebuilding, Reconciling
<1>9. ~cache'.exists => RebuildDue' /\ cache'.groups = Empty
  BY <1>4, RunType DEF IInv, ProcessesOK, RebuildDue, Rebuilding, Reconciling
<1>10. NamespacesOK'
  <2> SUFFICES ASSUME NEW n \in Namespaces \ lost' PROVE HeldOK(n)' /\ (Listed(n)' \/ Pending(n)')
    BY DEF NamespacesOK
  <2>1. n \notin lost => HeldOK(n) /\ (Listed(n) \/ Pending(n))
    BY DEF IInv, NamespacesOK
  <2> QED BY <1>4, <2>1, RunType, EntryTypes DEF IInv, HeldOK, Pending, Listed, Wanted, EntryOf,
     WorksOn, ProcessesOK, FreshOK, Rebuilding, Reconciling, Runs, Lists
<1> QED BY <1>6, <1>7, <1>8, <1>9, <1>10 DEF IInv

\* The rebuild reads the informer's copy (worker).
LEMMA WorkerLatestStep ==
  ASSUME IInv, GetLatest("worker")
  PROVE  IInv'
<1>1. /\ ns' = ns /\ cache' = cache /\ copy' = copy /\ up' = up /\ queue' = queue
      /\ lost' = lost /\ spent' = spent
      /\ b' = b
      /\ up /\ w.pc = "getLatest"
      /\ w'.pc = (IF copy.exists THEN "updateListed" ELSE "createListed") /\ w'.key = w.key
      /\ w'.groups = w.groups /\ w'.fresh = (IF copy.exists THEN copy.fresh ELSE w.fresh)
      /\ w'.tries = w.tries
  BY RunType, IdleType, EntryTypes DEF IInv, ProcessesOK, TypeOK, Processes, w, b, Runs,
     Rebuilding, At, GetLatest, Go
<1>2. w' \in Runs /\ b' \in Runs /\ run' \in [Processes -> Runs]
  BY <1>1, RunType, IdleType, EntryTypes, ConstantsAssumption DEF IInv, ProcessesOK, TypeOK,
     Processes, w, b, Runs, Rebuilding, At, PCs, Lists, GetLatest, Go
<1>3. TypeOK'
  BY <1>1, <1>2, IdleType, RunType DEF IInv, TypeOK, Runs
<1>4. ProcessesOK'
  BY <1>1, RunType DEF IInv, TypeOK, ProcessesOK, Rebuilding, Reconciling
<1>5. FreshOK'
  BY <1>1, RunType DEF IInv, FreshOK, ProcessesOK, Rebuilding, Reconciling
<1>6. ~cache'.exists => RebuildDue' /\ cache'.groups = Empty
  BY <1>1, RunType DEF IInv, ProcessesOK, RebuildDue, Rebuilding, Reconciling
<1>7. NamespacesOK'
  <2> SUFFICES ASSUME NEW n \in Namespaces \ lost' PROVE HeldOK(n)' /\ (Listed(n)' \/ Pending(n)')
    BY DEF NamespacesOK
  <2>1. n \notin lost => HeldOK(n) /\ (Listed(n) \/ Pending(n))
    BY DEF IInv, NamespacesOK
  <2> QED BY <1>1, <2>1, RunType, EntryTypes DEF IInv, HeldOK, Pending, Listed, Wanted, EntryOf,
     WorksOn, ProcessesOK, FreshOK, Rebuilding, Reconciling, Runs, Lists
<1> QED BY <1>3, <1>4, <1>5, <1>6, <1>7 DEF IInv

\* The rebuild writes its list (worker).
LEMMA WorkerDoneStep ==
  ASSUME IInv, up, w.pc \in Rebuilding,
         Put("worker", w.groups, Idle), spent' = spent
  PROVE  IInv'
<1> DEFINE r == Idle
               g == w.groups
<1>1. up /\ w.pc \in Rebuilding /\ Put("worker", g, r) /\ spent' = spent
  BY DEF Rebuilding, At, w, b, Rebuilding
<1>2. r \in Runs /\ g \in Lists
  BY RunType, IdleType DEF IInv, TypeOK, Runs, PCs
<1>3. /\ ns' = ns /\ up' = up /\ queue' = queue /\ lost' = lost /\ spent' = spent /\ w' = r
  BY <1>1, <1>2, Written, RunType DEF IInv, Put
<1>4. /\ up /\ w.pc \in Rebuilding
      /\ cache'.exists /\ cache'.groups = g
      /\ copy'.exists = copy.exists /\ copy'.groups = copy.groups /\ copy'.gone = copy.gone
      /\ copy'.fresh => copy.fresh /\ cache.exists /\ cache.groups = g
      /\ b'.pc = b.pc /\ b'.key = b.key /\ b'.groups = b.groups
      /\ b'.fresh => b.fresh /\ cache.exists /\ cache.groups = g
      /\ w'.pc = "idle" /\ w'.key = Rebuild /\ w'.groups = Empty /\ w'.fresh = FALSE
      /\ w'.tries = 0
      /\ cache' \in [exists : BOOLEAN, groups : Lists]
      /\ copy' \in [exists : BOOLEAN, groups : Lists, fresh : BOOLEAN, gone : BOOLEAN]
      /\ run' \in [Processes -> Runs] /\ w' \in Runs /\ b' \in Runs
  <2>1. /\ w'.pc = "idle" /\ w'.key = Rebuild /\ w'.groups = Empty /\ w'.fresh = FALSE
        /\ w'.tries = 0
    BY <1>3, RunType DEF IInv, Idle, Runs
  <2>2. TypeOK /\ "worker" \in Processes
    BY RunType DEF IInv
  <2> HIDE DEF r, g
  <2> QED BY <1>1, <1>2, <1>3, <2>1, <2>2, Written
<1>5. w' \in Runs /\ b' \in Runs /\ run' \in [Processes -> Runs]
  BY <1>4
<1>6. TypeOK'
  BY <1>3, <1>4, <1>5, IdleType, RunType DEF IInv, TypeOK, Runs
<1>7. ProcessesOK'
  BY <1>3, <1>4, RunType DEF IInv, TypeOK, ProcessesOK, Rebuilding, Reconciling
<1>8. FreshOK'
  BY <1>3, <1>4, RunType DEF IInv, FreshOK, ProcessesOK, Rebuilding, Reconciling
<1>9. ~cache'.exists => RebuildDue' /\ cache'.groups = Empty
  BY <1>3, <1>4, RunType DEF IInv, ProcessesOK, RebuildDue, Rebuilding, Reconciling
<1>10. NamespacesOK'
  <2> SUFFICES ASSUME NEW n \in Namespaces \ lost' PROVE HeldOK(n)' /\ (Listed(n)' \/ Pending(n)')
    BY DEF NamespacesOK
  <2>1. n \notin lost => HeldOK(n) /\ (Listed(n) \/ Pending(n))
    BY DEF IInv, NamespacesOK
  <2> QED BY <1>3, <1>4, <2>1, RunType, EntryTypes DEF IInv, HeldOK, Pending, Listed, Wanted,
     EntryOf, WorksOn, ProcessesOK, FreshOK, Rebuilding, Reconciling, Runs, Lists
<1> QED BY <1>6, <1>7, <1>8, <1>9, <1>10 DEF IInv

\* The rebuild tries again (worker).
LEMMA WorkerRetryStep ==
  ASSUME IInv, up, w.pc = "updateListed", ~w.fresh, w.tries > 1,
         Go("worker", [w EXCEPT !.pc = "getLatest", !.tries = w.tries - 1]), spent' = spent
  PROVE  IInv'
<1> DEFINE r == [w EXCEPT !.pc = "getLatest", !.tries = w.tries - 1]
<1>1. /\ up /\ w.pc = "updateListed" /\ w.tries > 1 /\ ~w.fresh
      /\ run' = [run EXCEPT !["worker"] = r]
  BY DEF Go, Go, At, w, b
<1>2. r \in Runs
  <2>1. w.tries - 1 \in 0 .. Steps
    BY <1>1, RunType, EntryTypes, ConstantsAssumption DEF IInv, Runs, Lists
  <2> QED BY <2>1, RunType DEF IInv, Runs, PCs, Rebuilding
<1>3. /\ run' \in [Processes -> Runs] /\ w' \in Runs /\ b' \in Runs /\ w' = r /\ b' = b
  BY <1>1, <1>2, Moved, RunType DEF IInv
<1>4. /\ ns' = ns /\ cache' = cache /\ copy' = copy /\ up' = up /\ queue' = queue
      /\ lost' = lost /\ spent' = spent
      /\ b' = b
      /\ up /\ w.pc = "updateListed" /\ w.tries > 1 /\ ~w.fresh
      /\ w'.pc = "getLatest" /\ w'.key = w.key /\ w'.groups = w.groups /\ w'.fresh = w.fresh
      /\ w'.tries = w.tries - 1
  <2>1. /\ ns' = ns /\ cache' = cache /\ copy' = copy /\ up' = up /\ queue' = queue
        /\ lost' = lost /\ spent' = spent
    BY <1>1, <1>2, <1>3, RunType DEF IInv, Go, Go, w, b, Processes
  <2>2. /\ w'.pc = "getLatest" /\ w'.key = w.key /\ w'.groups = w.groups /\ w'.fresh = w.fresh
        /\ w'.tries = w.tries - 1
    BY <1>3, RunType DEF IInv, Runs
  <2> QED BY <1>1, <1>3, <2>1, <2>2
<1>5. w' \in Runs /\ b' \in Runs /\ run' \in [Processes -> Runs]
  BY <1>3
<1>6. TypeOK'
  BY <1>1, <1>3, <1>4, <1>5, IdleType, RunType DEF IInv, TypeOK, Runs
<1>7. ProcessesOK'
  BY <1>1, <1>3, <1>4, RunType DEF IInv, TypeOK, ProcessesOK, Rebuilding, Reconciling
<1>8. FreshOK'
  BY <1>1, <1>3, <1>4, RunType DEF IInv, FreshOK, ProcessesOK, Rebuilding, Reconciling
<1>9. ~cache'.exists => RebuildDue' /\ cache'.groups = Empty
  BY <1>1, <1>3, <1>4, RunType DEF IInv, ProcessesOK, RebuildDue, Rebuilding, Reconciling
<1>10. NamespacesOK'
  <2> SUFFICES ASSUME NEW n \in Namespaces \ lost' PROVE HeldOK(n)' /\ (Listed(n)' \/ Pending(n)')
    BY DEF NamespacesOK
  <2>1. n \notin lost => HeldOK(n) /\ (Listed(n) \/ Pending(n))
    BY DEF IInv, NamespacesOK
  <2> QED BY <1>1, <1>3, <1>4, <2>1, RunType, EntryTypes DEF IInv, HeldOK, Pending, Listed,
     Wanted, EntryOf, WorksOn, ProcessesOK, FreshOK, Rebuilding, Reconciling, Runs, Lists
<1> QED BY <1>6, <1>7, <1>8, <1>9, <1>10 DEF IInv

\* The namespaces are listed (boot).
LEMMA BootListStep ==
  ASSUME IInv, List("boot")
  PROVE  IInv'
<1> DEFINE r == [b EXCEPT !.pc = "getLatest", !.groups = [n \in Namespaces |-> Wanted(n)],
                            !.tries = Steps]
<1>1. /\ up /\ b.pc = "list"
      /\ run' = [run EXCEPT !["boot"] = r]
  BY DEF List, At, w, b
<1>2. r \in Runs
  <2>1. [n \in Namespaces |-> Wanted(n)] \in Lists /\ Steps \in 0 .. Steps
    BY EntryTypes, ConstantsAssumption DEF IInv, Lists
  <2> QED BY <2>1, RunType DEF IInv, Runs, PCs, Rebuilding
<1>3. /\ run' \in [Processes -> Runs] /\ w' \in Runs /\ b' \in Runs /\ b' = r /\ w' = w
  BY <1>1, <1>2, Moved, RunType DEF IInv
<1>4. /\ ns' = ns /\ cache' = cache /\ copy' = copy /\ up' = up /\ queue' = queue
      /\ spent' = spent
      /\ w' = w /\ up /\ b.pc = "list"
      /\ b'.pc = "getLatest" /\ b'.key = b.key /\ b'.fresh = b.fresh
      /\ \A n \in Namespaces : b'.groups[n] = Wanted(n)
      /\ lost' \subseteq lost
      /\ \A n \in lost \ lost' : n \notin queue /\ n # w.key /\ w.pc \notin Rebuilding
  <2>1. /\ ns' = ns /\ cache' = cache /\ copy' = copy /\ up' = up /\ queue' = queue
        /\ spent' = spent
    BY DEF List
  <2>2. /\ b'.pc = "getLatest" /\ b'.key = b.key /\ b'.fresh = b.fresh
        /\ \A n \in Namespaces : b'.groups[n] = Wanted(n)
    BY <1>3, RunType DEF IInv, Runs
  <2>3. lost' \subseteq lost /\ \A n \in lost \ lost' : n \notin queue /\ n # w.key /\ w.pc \notin Rebuilding
    BY SeenByList, RunType DEF IInv, Processes, w, b
  <2> QED BY <1>1, <1>3, <2>1, <2>2, <2>3
<1>5. w' \in Runs /\ b' \in Runs /\ run' \in [Processes -> Runs]
  BY <1>3
<1>6. TypeOK'
  BY <1>4, <1>5, IdleType, RunType DEF IInv, TypeOK, Runs
<1>7. ProcessesOK'
  BY <1>4, RunType DEF IInv, TypeOK, ProcessesOK, Rebuilding, Reconciling
<1>8. FreshOK'
  BY <1>4, RunType DEF IInv, FreshOK, ProcessesOK, Rebuilding, Reconciling
<1>9. ~cache'.exists => RebuildDue' /\ cache'.groups = Empty
  BY <1>4, RunType DEF IInv, ProcessesOK, RebuildDue, Rebuilding, Reconciling
<1>10. NamespacesOK'
  <2> SUFFICES ASSUME NEW n \in Namespaces \ lost' PROVE HeldOK(n)' /\ (Listed(n)' \/ Pending(n)')
    BY DEF NamespacesOK
  <2>1. n \notin lost => HeldOK(n) /\ (Listed(n) \/ Pending(n))
    BY DEF IInv, NamespacesOK
  <2> QED BY <1>4, <2>1, RunType, EntryTypes DEF IInv, HeldOK, Pending, Listed, Wanted, EntryOf,
     WorksOn, ProcessesOK, FreshOK, Rebuilding, Reconciling, Runs, Lists
<1> QED BY <1>6, <1>7, <1>8, <1>9, <1>10 DEF IInv

\* The rebuild reads the informer's copy (boot).
LEMMA BootLatestStep ==
  ASSUME IInv, GetLatest("boot")
  PROVE  IInv'
<1>1. /\ ns' = ns /\ cache' = cache /\ copy' = copy /\ up' = up /\ queue' = queue
      /\ lost' = lost /\ spent' = spent
      /\ w' = w
      /\ up /\ b.pc = "getLatest"
      /\ b'.pc = (IF copy.exists THEN "updateListed" ELSE "createListed") /\ b'.key = b.key
      /\ b'.groups = b.groups /\ b'.fresh = (IF copy.exists THEN copy.fresh ELSE b.fresh)
      /\ b'.tries = b.tries
  BY RunType, IdleType, EntryTypes DEF IInv, ProcessesOK, TypeOK, Processes, w, b, Runs,
     Rebuilding, At, GetLatest, Go
<1>2. w' \in Runs /\ b' \in Runs /\ run' \in [Processes -> Runs]
  BY <1>1, RunType, IdleType, EntryTypes, ConstantsAssumption DEF IInv, ProcessesOK, TypeOK,
     Processes, w, b, Runs, Rebuilding, At, PCs, Lists, GetLatest, Go
<1>3. TypeOK'
  BY <1>1, <1>2, IdleType, RunType DEF IInv, TypeOK, Runs
<1>4. ProcessesOK'
  BY <1>1, RunType DEF IInv, TypeOK, ProcessesOK, Rebuilding, Reconciling
<1>5. FreshOK'
  BY <1>1, RunType DEF IInv, FreshOK, ProcessesOK, Rebuilding, Reconciling
<1>6. ~cache'.exists => RebuildDue' /\ cache'.groups = Empty
  BY <1>1, RunType DEF IInv, ProcessesOK, RebuildDue, Rebuilding, Reconciling
<1>7. NamespacesOK'
  <2> SUFFICES ASSUME NEW n \in Namespaces \ lost' PROVE HeldOK(n)' /\ (Listed(n)' \/ Pending(n)')
    BY DEF NamespacesOK
  <2>1. n \notin lost => HeldOK(n) /\ (Listed(n) \/ Pending(n))
    BY DEF IInv, NamespacesOK
  <2> QED BY <1>1, <2>1, RunType, EntryTypes DEF IInv, HeldOK, Pending, Listed, Wanted, EntryOf,
     WorksOn, ProcessesOK, FreshOK, Rebuilding, Reconciling, Runs, Lists
<1> QED BY <1>3, <1>4, <1>5, <1>6, <1>7 DEF IInv

\* The rebuild writes its list (boot).
LEMMA BootDoneStep ==
  ASSUME IInv, up, b.pc \in Rebuilding,
         Put("boot", b.groups, Idle), spent' = spent
  PROVE  IInv'
<1> DEFINE r == Idle
               g == b.groups
<1>1. up /\ b.pc \in Rebuilding /\ Put("boot", g, r) /\ spent' = spent
  BY DEF Rebuilding, At, w, b, Rebuilding
<1>2. r \in Runs /\ g \in Lists
  BY RunType, IdleType DEF IInv, TypeOK, Runs, PCs
<1>3. /\ ns' = ns /\ up' = up /\ queue' = queue /\ lost' = lost /\ spent' = spent /\ b' = r
  BY <1>1, <1>2, Written, RunType DEF IInv, Put
<1>4. /\ up /\ b.pc \in Rebuilding
      /\ cache'.exists /\ cache'.groups = g
      /\ copy'.exists = copy.exists /\ copy'.groups = copy.groups /\ copy'.gone = copy.gone
      /\ copy'.fresh => copy.fresh /\ cache.exists /\ cache.groups = g
      /\ w'.pc = w.pc /\ w'.key = w.key /\ w'.groups = w.groups
      /\ w'.fresh => w.fresh /\ cache.exists /\ cache.groups = g
      /\ b'.pc = "idle" /\ b'.key = Rebuild /\ b'.groups = Empty /\ b'.fresh = FALSE
      /\ b'.tries = 0
      /\ cache' \in [exists : BOOLEAN, groups : Lists]
      /\ copy' \in [exists : BOOLEAN, groups : Lists, fresh : BOOLEAN, gone : BOOLEAN]
      /\ run' \in [Processes -> Runs] /\ w' \in Runs /\ b' \in Runs
  <2>1. /\ b'.pc = "idle" /\ b'.key = Rebuild /\ b'.groups = Empty /\ b'.fresh = FALSE
        /\ b'.tries = 0
    BY <1>3, RunType DEF IInv, Idle, Runs
  <2>2. TypeOK /\ "boot" \in Processes
    BY RunType DEF IInv
  <2> HIDE DEF r, g
  <2> QED BY <1>1, <1>2, <1>3, <2>1, <2>2, Written
<1>5. w' \in Runs /\ b' \in Runs /\ run' \in [Processes -> Runs]
  BY <1>4
<1>6. TypeOK'
  BY <1>3, <1>4, <1>5, IdleType, RunType DEF IInv, TypeOK, Runs
<1>7. ProcessesOK'
  BY <1>3, <1>4, RunType DEF IInv, TypeOK, ProcessesOK, Rebuilding, Reconciling
<1>8. FreshOK'
  <2>1. w'.fresh => w.fresh /\ cache'.groups = cache.groups
    BY <1>4
  <2>2. w'.fresh /\ w'.pc \in {"readNamespace", "updateCache"} =>
          \A m \in Namespaces \ {w'.key} : w'.groups[m] = cache'.groups[m]
    BY <1>4, <2>1 DEF IInv, FreshOK
  <2> QED BY <1>3, <1>4, <2>2, RunType DEF IInv, FreshOK, ProcessesOK, Rebuilding, Reconciling
<1>9. ~cache'.exists => RebuildDue' /\ cache'.groups = Empty
  BY <1>3, <1>4, RunType DEF IInv, ProcessesOK, RebuildDue, Rebuilding, Reconciling
<1>10. NamespacesOK'
  <2> SUFFICES ASSUME NEW n \in Namespaces \ lost' PROVE HeldOK(n)' /\ (Listed(n)' \/ Pending(n)')
    BY DEF NamespacesOK
  <2>1. n \notin lost => HeldOK(n) /\ (Listed(n) \/ Pending(n))
    BY DEF IInv, NamespacesOK
  <2> QED BY <1>3, <1>4, <2>1, RunType, EntryTypes DEF IInv, HeldOK, Pending, Listed, Wanted,
     EntryOf, WorksOn, ProcessesOK, FreshOK, Rebuilding, Reconciling, Runs, Lists
<1> QED BY <1>6, <1>7, <1>8, <1>9, <1>10 DEF IInv

\* The rebuild tries again (boot).
LEMMA BootRetryStep ==
  ASSUME IInv, up, b.pc = "updateListed", ~b.fresh, b.tries > 1,
         Go("boot", [b EXCEPT !.pc = "getLatest", !.tries = b.tries - 1]), spent' = spent
  PROVE  IInv'
<1> DEFINE r == [b EXCEPT !.pc = "getLatest", !.tries = b.tries - 1]
<1>1. /\ up /\ b.pc = "updateListed" /\ b.tries > 1 /\ ~b.fresh
      /\ run' = [run EXCEPT !["boot"] = r]
  BY DEF Go, Go, At, w, b
<1>2. r \in Runs
  <2>1. b.tries - 1 \in 0 .. Steps
    BY <1>1, RunType, EntryTypes, ConstantsAssumption DEF IInv, Runs, Lists
  <2> QED BY <2>1, RunType DEF IInv, Runs, PCs, Rebuilding
<1>3. /\ run' \in [Processes -> Runs] /\ w' \in Runs /\ b' \in Runs /\ b' = r /\ w' = w
  BY <1>1, <1>2, Moved, RunType DEF IInv
<1>4. /\ ns' = ns /\ cache' = cache /\ copy' = copy /\ up' = up /\ queue' = queue
      /\ lost' = lost /\ spent' = spent
      /\ w' = w
      /\ up /\ b.pc = "updateListed" /\ b.tries > 1 /\ ~b.fresh
      /\ b'.pc = "getLatest" /\ b'.key = b.key /\ b'.groups = b.groups /\ b'.fresh = b.fresh
      /\ b'.tries = b.tries - 1
  <2>1. /\ ns' = ns /\ cache' = cache /\ copy' = copy /\ up' = up /\ queue' = queue
        /\ lost' = lost /\ spent' = spent
    BY <1>1, <1>2, <1>3, RunType DEF IInv, Go, Go, w, b, Processes
  <2>2. /\ b'.pc = "getLatest" /\ b'.key = b.key /\ b'.groups = b.groups /\ b'.fresh = b.fresh
        /\ b'.tries = b.tries - 1
    BY <1>3, RunType DEF IInv, Runs
  <2> QED BY <1>1, <1>3, <2>1, <2>2
<1>5. w' \in Runs /\ b' \in Runs /\ run' \in [Processes -> Runs]
  BY <1>3
<1>6. TypeOK'
  BY <1>1, <1>3, <1>4, <1>5, IdleType, RunType DEF IInv, TypeOK, Runs
<1>7. ProcessesOK'
  BY <1>1, <1>3, <1>4, RunType DEF IInv, TypeOK, ProcessesOK, Rebuilding, Reconciling
<1>8. FreshOK'
  BY <1>1, <1>3, <1>4, RunType DEF IInv, FreshOK, ProcessesOK, Rebuilding, Reconciling
<1>9. ~cache'.exists => RebuildDue' /\ cache'.groups = Empty
  BY <1>1, <1>3, <1>4, RunType DEF IInv, ProcessesOK, RebuildDue, Rebuilding, Reconciling
<1>10. NamespacesOK'
  <2> SUFFICES ASSUME NEW n \in Namespaces \ lost' PROVE HeldOK(n)' /\ (Listed(n)' \/ Pending(n)')
    BY DEF NamespacesOK
  <2>1. n \notin lost => HeldOK(n) /\ (Listed(n) \/ Pending(n))
    BY DEF IInv, NamespacesOK
  <2> QED BY <1>1, <1>3, <1>4, <2>1, RunType, EntryTypes DEF IInv, HeldOK, Pending, Listed,
     Wanted, EntryOf, WorksOn, ProcessesOK, FreshOK, Rebuilding, Reconciling, Runs, Lists
<1> QED BY <1>6, <1>7, <1>8, <1>9, <1>10 DEF IInv

\* The informer delivers.
LEMMA ObserveStep ==
  ASSUME IInv, Observe
  PROVE  IInv'
<1>1. /\ ns' = ns /\ cache' = cache /\ up' = up /\ run' = run /\ lost' = lost /\ spent' = spent
      /\ w' = w /\ b' = b
      /\ up /\ copy' \in [exists : BOOLEAN, groups : Lists, fresh : BOOLEAN, gone : BOOLEAN]
      /\ ~copy'.gone
      /\ copy'.fresh => copy'.exists = cache.exists /\ copy'.groups = cache.groups
      /\ queue' = queue \/ queue' = queue \union {Rebuild}
      /\ copy.gone => queue' = queue \union {Rebuild}
  <2>1. CASE copy.gone
    <3>1. copy' = [exists |-> FALSE, groups |-> Empty, fresh |-> ~cache.exists, gone |-> FALSE]
          /\ queue' = queue \union {Rebuild}
      BY <2>1 DEF Observe
    <3>2. ~cache.exists => cache.groups = Empty
      BY DEF IInv
    <3> QED BY <2>1, <3>1, <3>2, IdleType DEF Observe, IInv, TypeOK, w, b
  <2>2. CASE ~copy.gone
    <3>1. copy' = [exists |-> cache.exists, groups |-> cache.groups, fresh |-> TRUE, gone |-> FALSE]
          /\ queue' = queue
      BY <2>2 DEF Observe
    <3> QED BY <2>2, <3>1 DEF Observe, IInv, TypeOK, w, b
  <2> QED BY <2>1, <2>2
<1>2. w' \in Runs /\ b' \in Runs /\ run' \in [Processes -> Runs]
  BY <1>1, RunType DEF IInv, TypeOK, Runs
<1>3. TypeOK'
  BY <1>1, <1>2, IdleType, RunType DEF IInv, TypeOK, Runs
<1>4. ProcessesOK'
  BY <1>1, RunType DEF IInv, TypeOK, ProcessesOK, Rebuilding, Reconciling
<1>5. FreshOK'
  BY <1>1, RunType DEF IInv, FreshOK, ProcessesOK, Rebuilding, Reconciling
<1>6. ~cache'.exists => RebuildDue' /\ cache'.groups = Empty
  BY <1>1, RunType DEF IInv, ProcessesOK, RebuildDue, Rebuilding, Reconciling
<1>7. NamespacesOK'
  <2> SUFFICES ASSUME NEW n \in Namespaces \ lost' PROVE HeldOK(n)' /\ (Listed(n)' \/ Pending(n)')
    BY DEF NamespacesOK
  <2>1. n \notin lost => HeldOK(n) /\ (Listed(n) \/ Pending(n))
    BY DEF IInv, NamespacesOK
  <2> QED BY <1>1, <2>1, ConstantsAssumption, RunType, EntryTypes DEF IInv, HeldOK, Pending,
     Listed, Wanted, EntryOf, WorksOn, ProcessesOK, FreshOK, Rebuilding, Reconciling, Runs, Lists
<1> QED BY <1>3, <1>4, <1>5, <1>6, <1>7 DEF IInv

\* The JitGroupCache is deleted: the operator, if it runs, will be told.
LEMMA DeleteStep ==
  ASSUME IInv, DeleteCache
  PROVE  IInv'
<1>1. run' = [q \in Processes |-> [run[q] EXCEPT !.fresh = FALSE]]
  BY DEF DeleteCache
<1>2. \A q \in Processes : run[q] \in Runs /\ [run[q] EXCEPT !.fresh = FALSE] \in Runs
  BY DEF IInv, TypeOK, Runs
<1>3. /\ run' \in [Processes -> Runs] /\ w' \in Runs /\ b' \in Runs
      /\ w' = [w EXCEPT !.fresh = FALSE] /\ b' = [b EXCEPT !.fresh = FALSE]
  BY <1>1, <1>2 DEF Processes, w, b
<1>4. /\ ns' = ns /\ up' = up /\ queue' = queue /\ lost' = lost
      /\ cache' = [exists |-> FALSE, groups |-> Empty]
      /\ copy' = [copy EXCEPT !.fresh = FALSE, !.gone = up]
      /\ copy' \in [exists : BOOLEAN, groups : Lists, fresh : BOOLEAN, gone : BOOLEAN]
      /\ ~copy'.fresh /\ copy'.gone = up
      /\ spent' \in [edits : Nat, deletions : Nat, crashes : Nat, failures : Nat]
      /\ w'.pc = w.pc /\ w'.key = w.key /\ w'.groups = w.groups /\ w'.fresh = FALSE
      /\ w'.tries = w.tries
      /\ b'.pc = b.pc /\ b'.key = b.key /\ b'.groups = b.groups /\ b'.fresh = FALSE
      /\ b'.tries = b.tries
  <2>1. /\ w'.pc = w.pc /\ w'.key = w.key /\ w'.groups = w.groups /\ w'.fresh = FALSE
        /\ w'.tries = w.tries
        /\ b'.pc = b.pc /\ b'.key = b.key /\ b'.groups = b.groups /\ b'.fresh = FALSE
        /\ b'.tries = b.tries
    BY <1>3, RunType DEF IInv, Runs
  <2>2. copy' = [copy EXCEPT !.fresh = FALSE, !.gone = up] /\ up \in BOOLEAN
    BY DEF DeleteCache, IInv, TypeOK
  <2>3. copy' \in [exists : BOOLEAN, groups : Lists, fresh : BOOLEAN, gone : BOOLEAN] /\ ~copy'.fresh /\ copy'.gone = up
    BY <2>2 DEF IInv, TypeOK
  <2>4. spent' \in [edits : Nat, deletions : Nat, crashes : Nat, failures : Nat]
    BY DEF DeleteCache, IInv, TypeOK
  <2>5. cache' = [exists |-> FALSE, groups |-> Empty] /\ ns' = ns /\ up' = up /\ queue' = queue /\ lost' = lost
    BY DEF DeleteCache
  <2> QED BY <2>1, <2>2, <2>3, <2>4, <2>5
<1>5. w' \in Runs /\ b' \in Runs /\ run' \in [Processes -> Runs]
  BY <1>3
<1>6. TypeOK'
  BY <1>3, <1>4, <1>5, IdleType, RunType DEF IInv, TypeOK, Runs
<1>7. ProcessesOK'
  BY <1>3, <1>4, RunType DEF IInv, TypeOK, ProcessesOK, Rebuilding, Reconciling
<1>8. FreshOK'
  BY <1>3, <1>4, RunType DEF IInv, FreshOK, ProcessesOK, Rebuilding, Reconciling
<1>9. ~cache'.exists => RebuildDue' /\ cache'.groups = Empty
  BY <1>3, <1>4, RunType DEF IInv, ProcessesOK, RebuildDue, Rebuilding, Reconciling
<1>10. NamespacesOK'
  <2> SUFFICES ASSUME NEW n \in Namespaces \ lost' PROVE HeldOK(n)' /\ (Listed(n)' \/ Pending(n)')
    BY DEF NamespacesOK
  <2>1. n \notin lost => HeldOK(n) /\ (Listed(n) \/ Pending(n))
    BY DEF IInv, NamespacesOK
  <2> QED BY <1>3, <1>4, <2>1, RunType, EntryTypes DEF IInv, HeldOK, Pending, Listed, Wanted,
     EntryOf, WorksOn, ProcessesOK, FreshOK, Rebuilding, Reconciling, Runs, Lists
<1> QED BY <1>6, <1>7, <1>8, <1>9, <1>10 DEF IInv

\* The operator starts.
LEMMA StartStep ==
  ASSUME IInv, Start
  PROVE  IInv'
<1>1. run' = [run EXCEPT !["boot"] = [b EXCEPT !.pc = "list"]]
  BY DEF Start, b
<1>2. [b EXCEPT !.pc = "list"] \in Runs
  BY RunType DEF IInv, Runs, PCs
<1>3. /\ run' \in [Processes -> Runs] /\ w' \in Runs /\ b' \in Runs
      /\ b' = [b EXCEPT !.pc = "list"] /\ w' = w
  BY <1>1, <1>2, Moved, RunType DEF IInv
<1>4. /\ ns' = ns /\ cache' = cache /\ lost' = lost /\ spent' = spent /\ w' = w
      /\ ~up /\ up' /\ up' \in BOOLEAN
      /\ copy' = [exists |-> cache.exists, groups |-> cache.groups, fresh |-> TRUE, gone |-> FALSE]
      /\ queue' = {n \in Namespaces : ns[n] # NoNamespace /\ CreateFunc(ns[n])}
      /\ b'.pc = "list" /\ b'.key = b.key /\ b'.groups = b.groups /\ b'.fresh = b.fresh
      /\ b'.tries = b.tries
  BY <1>1, <1>3, RunType, IdleType, EntryTypes DEF IInv, ProcessesOK, TypeOK, Processes, w, b,
     Runs, Rebuilding, At, Start
<1>5. w' \in Runs /\ b' \in Runs /\ run' \in [Processes -> Runs]
  BY <1>3
<1>6. TypeOK'
  BY <1>1, <1>3, <1>4, <1>5, IdleType, RunType DEF IInv, TypeOK, Runs
<1>7. ProcessesOK'
  BY <1>1, <1>3, <1>4, RunType DEF IInv, TypeOK, ProcessesOK, Rebuilding, Reconciling
<1>8. FreshOK'
  BY <1>1, <1>3, <1>4, RunType DEF IInv, FreshOK, ProcessesOK, Rebuilding, Reconciling
<1>9. ~cache'.exists => RebuildDue' /\ cache'.groups = Empty
  BY <1>1, <1>3, <1>4, RunType DEF IInv, ProcessesOK, RebuildDue, Rebuilding, Reconciling
<1>10. NamespacesOK'
  <2> SUFFICES ASSUME NEW n \in Namespaces \ lost' PROVE HeldOK(n)' /\ (Listed(n)' \/ Pending(n)')
    BY DEF NamespacesOK
  <2>1. n \notin lost => HeldOK(n) /\ (Listed(n) \/ Pending(n))
    BY DEF IInv, NamespacesOK
  <2> QED BY <1>1, <1>3, <1>4, <2>1, ConstantsAssumption, RunType, EntryTypes DEF CreateFunc,
     IInv, HeldOK, Pending, Listed, Wanted, EntryOf, WorksOn, ProcessesOK, FreshOK, Rebuilding,
     Reconciling, Runs, Lists
<1> QED BY <1>6, <1>7, <1>8, <1>9, <1>10 DEF IInv

\* A namespace changes: it is reconciled, or counts as missed.
LEMMA ChangeStep ==
  ASSUME IInv, NEW n \in Namespaces, ChangeNamespace(n)
  PROVE  IInv'
<1>1. PICK new \in States \union {NoNamespace} :
        LET announced == up /\ NamespacePredicate(ns[n], new)
        IN  /\ ns' = [ns EXCEPT ![n] = new]
            /\ queue' = IF announced THEN queue \union {n} ELSE queue
            /\ lost' = IF announced /\ n \notin InHand("boot") THEN lost \ {n} ELSE lost \union {n}
  BY DEF ChangeNamespace
<1>2. cache' = cache /\ copy' = copy /\ up' = up /\ run' = run /\ w' = w /\ b' = b
  BY DEF ChangeNamespace, w, b
<1>3. spent' \in [edits : Nat, deletions : Nat, crashes : Nat, failures : Nat]
  BY DEF ChangeNamespace, IInv, TypeOK
<1>4. new \in Namespace \union {NoNamespace} /\ ns \in [Namespaces -> Namespace \union {NoNamespace}]
  BY ConstantsAssumption DEF IInv, TypeOK
<1>5. /\ \A m \in Namespaces \ {n} : ns'[m] = ns[m] /\ (m \in lost' <=> m \in lost)
      /\ ns'[n] = new /\ queue \subseteq queue' /\ queue' \subseteq queue \union {n}
      /\ queue' # queue => up
  BY <1>1, <1>4
<1>6. n \notin lost' => up /\ NamespacePredicate(ns[n], new) /\ n \in queue' /\ b.pc \notin Rebuilding
  BY <1>1 DEF InHand, b
<1>7. TypeOK'
  BY <1>1, <1>2, <1>3, <1>4 DEF IInv, TypeOK
<1>8. ProcessesOK' /\ FreshOK' /\ (~cache'.exists => RebuildDue' /\ cache'.groups = Empty)
  BY <1>2, <1>5 DEF IInv, ProcessesOK, FreshOK, RebuildDue
<1>9. NamespacesOK'
  <2>1. ASSUME NEW m \in Namespaces \ lost', m # n PROVE HeldOK(m)' /\ (Listed(m)' \/ Pending(m)')
    <3>1. HeldOK(m) /\ (Listed(m) \/ Pending(m))
      BY <1>5, <2>1 DEF IInv, NamespacesOK
    <3>2. Wanted(m)' = Wanted(m) /\ EntryOf(m)' = EntryOf(m) /\ (m \in queue' <=> m \in queue)
      BY <1>5, <2>1 DEF Wanted, EntryOf
    <3> QED BY <1>2, <1>5, <3>1, <3>2 DEF HeldOK, Listed, Pending, WorksOn
  <2>2. ASSUME n \notin lost' PROVE HeldOK(n)' /\ Pending(n)'
    <3>1. EntryOf(n)' = Wanted(n)'
      BY <1>4, <1>5, <1>6, <2>2, ConstantsAssumption
         DEF NamespacePredicate, CreateFunc, UpdateFunc, DeleteFunc, EntryOf, Wanted
    <3> QED BY <1>2, <1>6, <2>2, <3>1 DEF HeldOK, Pending, Rebuilding
  <2> QED BY <2>1, <2>2 DEF NamespacesOK
<1> QED BY <1>7, <1>8, <1>9 DEF IInv

\* The steps of the worker, its errors included.
LEMMA WorkerStep ==
  ASSUME IInv, Worker
  PROVE  IInv'
<1>1. CASE CreateCache \/ UpdateCache \/ CreateListed("worker") \/ UpdateListed("worker")
  <2>1. CASE Error("worker")
    BY <1>1, <2>1, ErrorStep DEF CreateCache, UpdateCache, CreateListed, UpdateListed, At, w,
       IInv, TypeOK
  <2>2. CASE ~Error("worker")
    BY <1>1, <2>2, CreateStep, UpdateStep, WorkerDoneStep, WorkerRetryStep
       DEF CreateCache, UpdateCache, CreateListed, UpdateListed, At, w, Rebuilding
  <2> QED BY <2>1, <2>2
<1> QED BY <1>1, DequeueStep, FetchStep, ReadStep, WorkerListStep, WorkerLatestStep
        DEF Worker, Reconcile, RebuildJitGroupCache

\* The steps of the rebuild at the start; its error stops the operator.
LEMMA BootStep ==
  ASSUME IInv, Boot
  PROVE  IInv'
<1>1. CASE CreateListed("boot") \/ UpdateListed("boot")
  <2>1. CASE Error("boot")
    BY <1>1, <2>1, StopStep DEF Error, CreateListed, UpdateListed, IInv, TypeOK
  <2>2. CASE ~Error("boot")
    BY <1>1, <2>2, BootDoneStep, BootRetryStep DEF CreateListed, UpdateListed, At, b, Rebuilding
  <2> QED BY <2>1, <2>2
<1> QED BY <1>1, BootListStep, BootLatestStep DEF Boot, RebuildJitGroupCache

\* Calls fail and the operator crashes.
LEMMA FailureStep ==
  ASSUME IInv, NEW p \in Processes, CallFails(p) \/ Crash
  PROVE  IInv'
<1>1. spent' \in [edits : Nat, deletions : Nat, crashes : Nat, failures : Nat]
  BY DEF CallFails, Crash, IInv, TypeOK
<1>2. CASE Crash
  BY <1>1, <1>2, StopStep DEF Crash
<1>3. CASE CallFails(p)
  <2>1. Error(p) /\ up /\ run[p].pc # "idle"
    BY <1>3 DEF CallFails
  <2>2. CASE p = "worker"
    BY <1>1, <2>1, <2>2, ErrorStep DEF w
  <2>3. CASE p = "boot"
    BY <1>1, <2>1, <2>3, StopStep DEF Error
  <2> QED BY <2>2, <2>3 DEF Processes
<1> QED BY <1>2, <1>3
-----------------------------------------------------------------------------
(* The theorems *)

\* The invariant is inductive.
THEOREM Inductive == Spec => []IInv
<1>1. ASSUME IInv, [Next]_vars PROVE IInv'
  <2>1. CASE UNCHANGED vars
    BY <1>1, <2>1 DEF vars, IInv, TypeOK, ProcessesOK, FreshOK, RebuildDue, NamespacesOK, HeldOK,
       Listed, Pending, WorksOn, Wanted, EntryOf, w, b
  <2>2. CASE Crash \/ \E p \in Processes : CallFails(p)
    BY <1>1, <2>2, FailureStep DEF Processes
  <2> QED BY <1>1, <2>1, <2>2, WorkerStep, BootStep, ObserveStep, StartStep, DeleteStep,
     ChangeStep
          DEF Next
<1> QED BY <1>1, InitOK, PTL DEF Spec

\* The variables keep their types, for any number of steps of any kind.
THEOREM TypeCorrect == Spec => []TypeOK
BY Inductive, PTL DEF IInv

\* A controller that has nothing to do leaves a cache that lists what was not missed.
THEOREM SettledIsListed == Spec => []SettledMeansListed
<1>1. IInv => SettledMeansListed
  BY RunType DEF IInv, SettledMeansListed, Settled, ProcessesOK, FreshOK, RebuildDue,
     NamespacesOK,
     Pending, WorksOn, Reconciling, Rebuilding, w, b
<1> QED BY <1>1, Inductive, PTL

\* A reconcile of one namespace changes no other entry.
THEOREM OtherEntriesStay == Spec => OnlyItsEntry
<1>1. IInv /\ [Next]_vars =>
        [cache.exists /\ cache'.exists =>
           \A n \in Namespaces : cache'.groups[n] # cache.groups[n] =>
             \E p \in Processes : run'[p] # run[p] /\ run[p].key \in {n, Rebuild}]_vars
  <2> SUFFICES ASSUME IInv, Next, cache.exists, cache'.exists, NEW n \in Namespaces,
                      cache'.groups[n] # cache.groups[n]
               PROVE  \E p \in Processes : run'[p] # run[p] /\ run[p].key \in {n, Rebuild}
    OBVIOUS
  <2>1. UpdateCache \/ \E p \in Processes : UpdateListed(p)
    <3>1. cache' # cache /\ Next
      OBVIOUS
    <3>2. CASE Worker \/ Boot
      BY <3>1, <3>2 DEF Worker, Boot, Reconcile, RebuildJitGroupCache, Dequeue, FetchCache,
         CreateCache, ReadNamespace, List, GetLatest, CreateListed, Go, Error, Processes
    <3>3. CASE \E p \in Processes : CallFails(p)
      BY <3>1, <3>3 DEF CallFails, Error
    <3>4. CASE Observe \/ Start \/ Crash \/ \E m \in Namespaces : ChangeNamespace(m)
      BY <3>1, <3>4 DEF Observe, Start, Crash, ChangeNamespace
    <3>5. CASE DeleteCache
      BY <3>5 DEF DeleteCache
    <3> QED BY <3>1, <3>2, <3>3, <3>4, <3>5 DEF Next
  <2>2. CASE UpdateCache
    <3>1. w.pc = "updateCache" /\ w.fresh /\ Put("worker", w.groups, Idle)
      BY <2>2 DEF UpdateCache, Error, At, w
    <3>2. w' = Idle /\ cache'.groups = w.groups
      BY <3>1, Written, RunType, IdleType DEF IInv, Runs
    <3>3. w.key = n
      BY <3>1, <3>2 DEF IInv, FreshOK
    <3>4. w' # w
      BY <3>1, <3>2 DEF Idle
    <3> QED BY <3>3, <3>4, RunType DEF IInv, w
  <2>3. ASSUME NEW p \in Processes, UpdateListed(p)
        PROVE  \E q \in Processes : run'[q] # run[q] /\ run[q].key \in {n, Rebuild}
    <3>1. run[p].pc = "updateListed" /\ Put(p, run[p].groups, Idle)
      BY <2>3 DEF UpdateListed, Go, Error, At
    <3>2. run'[p].pc = "idle"
      BY <3>1 DEF Put, Idle
    <3>3. run[p].key = Rebuild
      BY <3>1 DEF IInv, ProcessesOK, Rebuilding, Processes, w, b
    <3> QED BY <3>1, <3>2, <3>3
  <2> QED BY <2>1, <2>2, <2>3
<1> QED BY <1>1, Inductive, PTL DEF Spec, OnlyItsEntry
=============================================================================
