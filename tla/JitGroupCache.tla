--------------------------- MODULE JitGroupCache ---------------------------
(***************************************************************************)
(* The JitGroupCache controller of the kube-jit operator                   *)
(* (controller/kube-jit-operator/internal/groupCache).  One cluster-wide   *)
(* object lists, for every adopted namespace, the group that decides about *)
(* it; the API asks it who may approve.                                    *)
(*                                                                         *)
(* Two processes write the object: the one worker of the controller, and   *)
(* the rebuild started beside it when the manager starts.  Both read the   *)
(* informers' copies and write to the API server, so their steps           *)
(* interleave, and what they read may be old when they write.  What the    *)
(* informer of the namespaces has not delivered has not happened for the   *)
(* operator: ns is the namespaces as delivered.                            *)
(*                                                                         *)
(* A write needs the object's latest resourceVersion.  Instead of a        *)
(* version, whoever holds a copy keeps whether it is still the latest      *)
(* (fresh); a write that changes nothing makes no new version.             *)
(***************************************************************************)
EXTENDS Naturals, FiniteSets

CONSTANTS
  Namespaces,     \* the names of namespaces
  Groups,         \* the pairs of a group's ID and name
  Partial,        \* annotations that lack the ID, the name or both
  NoNamespace,    \* a namespace that does not exist
  NoEntry,        \* the cache has no entry for a namespace
  Rebuild,        \* the empty request, which asks for a rebuild
  States,         \* the states of a namespace its owners choose from
  Steps,          \* the attempts of retry.DefaultBackoff
  MaxEdits,       \* bound: changes of namespaces
  MaxDeletions,   \* bound: deletions of the JitGroupCache
  MaxCrashes,     \* bound: crashes of the operator
  MaxFailures     \* bound: failing calls

\* A namespace with its adopt label and its annotations.
Namespace == [adopt : BOOLEAN, group : Groups \union {Partial}]

ASSUME ConstantsAssumption ==
  /\ States \subseteq Namespace \union {NoNamespace}
  /\ NoNamespace \notin Namespace
  /\ NoEntry \notin Groups \union {Partial}
  /\ Rebuild \notin Namespaces
  /\ Steps \in Nat \ {0}

VARIABLES
  ns,      \* ns[n]: the namespace n, as the informer has delivered it
  cache,   \* the JitGroupCache in the API server
  copy,    \* the informer's copy of it; gone: its deletion is still to be delivered
  up,      \* is the operator running?
  queue,   \* the controller's work queue
  run,     \* the worker's reconcile and the rebuild at the start ("boot")
  lost,    \* history: namespaces whose last change the controller may have missed
  spent    \* how much of each bound was used

vars == <<ns, cache, copy, up, queue, run, lost, spent>>

Entries == Groups \union {Partial, NoEntry}
Lists == [Namespaces -> Entries]
Empty == [n \in Namespaces |-> NoEntry]

Processes == {"worker", "boot"}
Rebuilding == {"getLatest", "createListed", "updateListed"}
PCs == {"idle", "list", "fetchCache", "createCache", "readNamespace", "updateCache"} \union Rebuilding
Idle == [pc |-> "idle", key |-> Rebuild, groups |-> Empty, fresh |-> FALSE, tries |-> 0]

\* The group a namespace should be listed with.
Wanted(n) ==
  IF ns[n] # NoNamespace /\ ns[n].adopt /\ ns[n].group \in Groups THEN ns[n].group ELSE NoEntry
-----------------------------------------------------------------------------
(* The events that pass namespacePredicate *)

CreateFunc(new) == new.adopt /\ new.group \in Groups
UpdateFunc(old, new) == new.adopt /\ old.group # new.group /\ new.group \in Groups
DeleteFunc(old) == old.adopt

NamespacePredicate(old, new) ==
  \/ old = NoNamespace /\ new # NoNamespace /\ CreateFunc(new)
  \/ old # NoNamespace /\ new # NoNamespace /\ UpdateFunc(old, new)
  \/ old # NoNamespace /\ new = NoNamespace /\ DeleteFunc(old)
-----------------------------------------------------------------------------
(* Steps of the two processes *)

At(p, pc) == up /\ run[p].pc = pc

\* The namespaces p may still write what it read of.
InHand(p) ==
  IF run[p].pc \in Rebuilding THEN Namespaces
  ELSE IF run[p].pc = "updateCache" THEN {run[p].key} ELSE {}

\* p goes on as next and nothing is written.
Go(p, next) ==
  /\ run' = [run EXCEPT ![p] = next]
  /\ UNCHANGED <<ns, cache, copy, up, queue, lost>>

\* The API server stores groups; p goes on as next, all other copies are old.
Put(p, groups, next) ==
  /\ cache' = [exists |-> TRUE, groups |-> groups]
  /\ copy' = [copy EXCEPT !.fresh = copy.fresh /\ cache' = cache]
  /\ run' = [q \in Processes |->
               IF q = p THEN next ELSE [run[q] EXCEPT !.fresh = run[q].fresh /\ cache' = cache]]
  /\ UNCHANGED <<ns, up, queue, lost>>

\* The operator stops: with it go the queue, the informers and what was in progress.
Stop ==
  /\ up' = FALSE
  /\ queue' = {}
  /\ run' = [q \in Processes |-> Idle]
  /\ copy' = [exists |-> FALSE, groups |-> Empty, fresh |-> FALSE, gone |-> FALSE]

\* A mutant of Error: the error is logged, and nil returned.
ErrorSwallowed(p) ==
  /\ IF p = "worker" THEN run' = [run EXCEPT ![p] = Idle] /\ UNCHANGED <<copy, up, queue>> ELSE Stop
  /\ UNCHANGED <<ns, cache, lost>>

\* An error: the worker's request is retried, that of the start ends the manager.
Error(p) ==
  /\ IF p = "worker"
       THEN /\ queue' = queue \union {run[p].key}
            /\ run' = [run EXCEPT ![p] = Idle]
            /\ UNCHANGED <<copy, up>>
       ELSE Stop
  /\ UNCHANGED <<ns, cache, lost>>
-----------------------------------------------------------------------------
(* Reconcile of a namespace *)

Dequeue ==
  /\ At("worker", "idle")
  /\ \E k \in queue :
       /\ queue' = queue \ {k}
       /\ run' = [run EXCEPT !["worker"].key = k,
                             !["worker"].pc = IF k = Rebuild THEN "list" ELSE "fetchCache"]
  /\ UNCHANGED <<ns, cache, copy, up, lost, spent>>

\* fetchOrCreateJitGroupCache reads the informer's copy ...
FetchCache ==
  /\ At("worker", "fetchCache")
  /\ Go("worker", IF copy.exists
                    THEN [run["worker"] EXCEPT !.pc = "readNamespace", !.groups = copy.groups,
                                               !.fresh = copy.fresh]
                    ELSE [run["worker"] EXCEPT !.pc = "createCache"])
  /\ UNCHANGED spent

\* ... and creates an empty object when there is none.
CreateCache ==
  /\ At("worker", "createCache")
  /\ IF cache.exists
       THEN Error("worker")
       ELSE Put("worker", Empty, [run["worker"] EXCEPT !.pc = "readNamespace",
                                                       !.groups = Empty, !.fresh = TRUE])
  /\ UNCHANGED spent

\* removeNamespaceFromCache, or addOrUpdateNamespaceInCache with the annotations as
\* they are now: neither the label nor their presence is looked at again.
EntryOf(n) == IF ns[n] = NoNamespace THEN NoEntry ELSE ns[n].group

ReadNamespace ==
  /\ At("worker", "readNamespace")
  /\ Go("worker", [run["worker"] EXCEPT !.pc = "updateCache",
                                        !.groups[run["worker"].key] = EntryOf(run["worker"].key)])
  /\ UNCHANGED spent

\* A mutant of UpdateCache: the list is patched, without the resourceVersion.
PatchCache ==
  /\ At("worker", "updateCache")
  /\ IF cache.exists THEN Put("worker", run["worker"].groups, Idle) ELSE Error("worker")
  /\ UNCHANGED spent

\* updateJitGroupCache; a conflict and an object that is gone are errors.
UpdateCache ==
  /\ At("worker", "updateCache")
  /\ IF cache.exists /\ run["worker"].fresh
       THEN Put("worker", run["worker"].groups, Idle)
       ELSE Error("worker")
  /\ UNCHANGED spent
-----------------------------------------------------------------------------
(* RebuildJitGroupCache *)

\* A mutant of List: the attempts are counted from one too many.
ListOneMore(p) ==
  /\ At(p, "list")
  /\ run' = [run EXCEPT ![p].pc = "getLatest", ![p].groups = [n \in Namespaces |-> Wanted(n)],
                        ![p].tries = Steps + 1]
  /\ lost' = lost \intersect
               (queue \union {run["worker"].key} \union UNION {InHand(q) : q \in Processes \ {p}})
  /\ UNCHANGED <<ns, cache, copy, up, queue, spent>>

\* The adopted namespaces are listed once, before the attempts to write.  What was
\* missed before is seen now, except what something else may still write.
List(p) ==
  /\ At(p, "list")
  /\ run' = [run EXCEPT ![p].pc = "getLatest", ![p].groups = [n \in Namespaces |-> Wanted(n)],
                        ![p].tries = Steps]
  /\ lost' = lost \intersect
               (queue \union {run["worker"].key} \union UNION {InHand(q) : q \in Processes \ {p}})
  /\ UNCHANGED <<ns, cache, copy, up, queue, spent>>

GetLatest(p) ==
  /\ At(p, "getLatest")
  /\ Go(p, IF copy.exists THEN [run[p] EXCEPT !.pc = "updateListed", !.fresh = copy.fresh]
                          ELSE [run[p] EXCEPT !.pc = "createListed"])
  /\ UNCHANGED spent

CreateListed(p) ==
  /\ At(p, "createListed")
  /\ IF cache.exists THEN Error(p) ELSE Put(p, run[p].groups, Idle)
  /\ UNCHANGED spent

\* Only a conflict is retried, and only Steps times in all.
UpdateListed(p) ==
  /\ At(p, "updateListed")
  /\ \/ cache.exists /\ run[p].fresh /\ Put(p, run[p].groups, Idle)
     \/ /\ cache.exists /\ ~run[p].fresh /\ run[p].tries > 1
        /\ Go(p, [run[p] EXCEPT !.pc = "getLatest", !.tries = run[p].tries - 1])
     \/ (~cache.exists \/ (~run[p].fresh /\ run[p].tries = 1)) /\ Error(p)
  /\ UNCHANGED spent

\* A call to the API server fails.
CallFails(p) ==
  /\ up /\ run[p].pc \in {"createCache", "updateCache", "createListed", "updateListed"}
  /\ spent.failures < MaxFailures
  /\ spent' = [spent EXCEPT !.failures = spent.failures + 1]
  /\ Error(p)
-----------------------------------------------------------------------------
(* The cluster, the informers and the operator's process *)

\* A namespace is created, changed or deleted.
ChangeNamespace(n) ==
  /\ spent.edits < MaxEdits
  /\ \E new \in States \union {NoNamespace} :
       LET announced == up /\ NamespacePredicate(ns[n], new)
       IN  /\ new # ns[n]
           /\ ns' = [ns EXCEPT ![n] = new]
           /\ queue' = IF announced THEN queue \union {n} ELSE queue
           /\ lost' = IF announced /\ n \notin InHand("boot") THEN lost \ {n} ELSE lost \union {n}
  /\ spent' = [spent EXCEPT !.edits = spent.edits + 1]
  /\ UNCHANGED <<cache, copy, up, run>>

\* Somebody deletes the JitGroupCache.
DeleteCache ==
  /\ cache.exists /\ spent.deletions < MaxDeletions
  /\ cache' = [exists |-> FALSE, groups |-> Empty]
  /\ copy' = [copy EXCEPT !.fresh = FALSE, !.gone = up]
  /\ run' = [q \in Processes |-> [run[q] EXCEPT !.fresh = FALSE]]
  /\ spent' = [spent EXCEPT !.deletions = spent.deletions + 1]
  /\ UNCHANGED <<ns, up, queue, lost>>

\* A mutant of Observe: deletions of the JitGroupCache are not watched.
ObserveObject ==
  /\ up /\ ~copy.fresh
  /\ copy' = [exists |-> cache.exists, groups |-> cache.groups, fresh |-> TRUE, gone |-> FALSE]
  /\ UNCHANGED <<ns, cache, up, queue, run, lost, spent>>

\* The informer delivers: a deletion, which asks for a rebuild, or the latest object.
Observe ==
  /\ up /\ ~copy.fresh
  /\ IF copy.gone
       THEN /\ copy' = [exists |-> FALSE, groups |-> Empty, fresh |-> ~cache.exists, gone |-> FALSE]
            /\ queue' = queue \union {Rebuild}
       ELSE /\ copy' = [exists |-> cache.exists, groups |-> cache.groups, fresh |-> TRUE, gone |-> FALSE]
            /\ UNCHANGED queue
  /\ UNCHANGED <<ns, cache, up, run, lost, spent>>

Crash ==
  /\ up /\ spent.crashes < MaxCrashes
  /\ Stop
  /\ spent' = [spent EXCEPT !.crashes = spent.crashes + 1]
  /\ UNCHANGED <<ns, cache, lost>>

\* The operator starts: the informers list everything, which makes a create event of
\* every namespace, and the rebuild runs beside the controller.
Start ==
  /\ ~up
  /\ up' = TRUE
  /\ copy' = [exists |-> cache.exists, groups |-> cache.groups, fresh |-> TRUE, gone |-> FALSE]
  /\ queue' = {n \in Namespaces : ns[n] # NoNamespace /\ CreateFunc(ns[n])}
  /\ run' = [run EXCEPT !["boot"].pc = "list"]
  /\ UNCHANGED <<ns, cache, lost, spent>>
-----------------------------------------------------------------------------
(* The specification *)

Init ==
  /\ ns = [n \in Namespaces |-> NoNamespace]
  /\ cache = [exists |-> FALSE, groups |-> Empty]
  /\ copy = [exists |-> FALSE, groups |-> Empty, fresh |-> FALSE, gone |-> FALSE]
  /\ up = FALSE
  /\ queue = {}
  /\ run = [q \in Processes |-> Idle]
  /\ lost = {}
  /\ spent = [edits |-> 0, deletions |-> 0, crashes |-> 0, failures |-> 0]

Reconcile == FetchCache \/ CreateCache \/ ReadNamespace \/ UpdateCache
RebuildJitGroupCache(p) == List(p) \/ GetLatest(p) \/ CreateListed(p) \/ UpdateListed(p)
Worker == Dequeue \/ Reconcile \/ RebuildJitGroupCache("worker")
Boot == RebuildJitGroupCache("boot")

Next ==
  \/ Worker \/ Boot \/ Observe \/ Start \/ Crash \/ DeleteCache
  \/ \E p \in Processes : CallFails(p)
  \/ \E n \in Namespaces : ChangeNamespace(n)

Spec == Init /\ [][Next]_vars

\* The operator's goroutines run, its informers deliver, and Kubernetes restarts it.
FairSpec ==
  Spec /\ WF_vars(Worker) /\ WF_vars(Boot) /\ WF_vars(Observe) /\ WF_vars(Start)
-----------------------------------------------------------------------------
(* Properties *)

TypeOK ==
  /\ ns \in [Namespaces -> Namespace \union {NoNamespace}]
  /\ cache \in [exists : BOOLEAN, groups : Lists]
  /\ copy \in [exists : BOOLEAN, groups : Lists, fresh : BOOLEAN, gone : BOOLEAN]
  /\ up \in BOOLEAN
  /\ queue \subseteq Namespaces \union {Rebuild}
  /\ run \in [Processes -> [pc : PCs, key : Namespaces \union {Rebuild}, groups : Lists,
                            fresh : BOOLEAN, tries : 0 .. Steps]]
  /\ lost \subseteq Namespaces
  /\ spent \in [edits : Nat, deletions : Nat, crashes : Nat, failures : Nat]

\* Everything delivered has been worked on, and nothing is in progress.
Settled == up /\ copy.fresh /\ queue = {} /\ \A p \in Processes : run[p].pc = "idle"

Listed(n) == cache.exists /\ cache.groups[n] = Wanted(n)

\* When the controller has nothing to do, the cache lists every namespace with its
\* group and nothing else, whatever was retried, deleted or restarted; except for
\* namespaces whose last change passed no event, or came while the rebuild of the
\* start held a list made before it.
SettledMeansListed == Settled => cache.exists /\ \A n \in Namespaces \ lost : Listed(n)

\* A reconcile of a namespace changes no other entry, although it writes the whole list
\* from a copy: lost updates of Update without RetryOnConflict.
OnlyItsEntry ==
  [][cache.exists /\ cache'.exists =>
       \A n \in Namespaces : cache'.groups[n] # cache.groups[n] =>
         \E p \in Processes : run'[p] # run[p] /\ run[p].key \in {n, Rebuild}]_vars

\* In the end the cache lists every namespace that was not missed, and exists: deletions,
\* conflicts, failing calls and an operator that stops itself are made up for.
Converges == <>[](cache.exists /\ \A n \in Namespaces \ lost : Listed(n))

\* Every namespace of the cluster is listed as it is (the tests of the controller).
ChangesAreReflected == Settled => \A n \in Namespaces : Listed(n)
=============================================================================
