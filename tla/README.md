# kube-jit in TLA+

A verification development for kube-jit, which grants Kubernetes RBAC permissions for a limited
time: users ask for access to namespaces, the groups that own the namespaces approve, and an
operator in the target cluster creates RoleBindings at the start of the window and removes them at
its end.

The modules are read beside the code. Source paths below are relative to the repository.

## 1. The system

### Components

| Component | State | Operations | What makes it correct |
|---|---|---|---|
| **JitRequest controller** `controller/kube-jit-operator/internal/controller` | `JitRequest` objects (spec, `status.state`, UID, resourceVersion), RoleBindings; in memory: informer cache, work queue, `RequeueAfter` timers, the reconcile in progress | `Reconcile` and its handlers, `updateStatus`, `callbackToApi`, `createRoleBinding`, `deleteJitRequest`, `deleteOwnedObjects` | no access before the start, only for what was validated; access lasts until the end and not longer; a status only moves forward; every request ends |
| **Approval workflow** `api/kube-jit/internal/handlers/request.go`, `pending_records.go`, `admin.go`, `common.go` | tables `request_data`, `request_namespaces`; the handlers in progress | `SubmitRequest`, `GetPendingApprovals`, `ApproveOrRejectRequests`/`processApproval`, `K8sCallback`, `CleanExpiredRequests` | a JitRequest is created exactly for requests whose namespaces are all approved by their owners |
| **JitGroupCache controller** `internal/groupCache` | the `JitGroupCache` object | `Reconcile` per namespace, `RebuildJitGroupCache` | the cache converges to the annotated namespaces |
| **Configuration controller** `internal/config`, `pkg/configuration` | the regex in memory, `config.json` | `Reconcile`, `SaveConfigToFile`; readers in `utils/utils.go` | readers see one configuration, and an invalid one allows nothing new |
| **Cluster access of the API** `api/kube-jit/pkg/k8s` | cached dynamic clients, cached JitGroups with expiry | `createDynamicClient`, `GetJitGroups`, `InvalidateJitGroupsCache`, `CreateK8sObject` | a request is routed to the current owners within the time to live |
| **Login, permissions, sessions** `handlers/auth.go`, provider files, `pkg/sessioncookie` | session cookies | login, `CommonPermissions`, split and combine cookies | a session is what was saved, or none |
| **Approve tab** `web/kube-jit/src/components/approve`, `requestTable` | React state: list, ticks, filters, dialog; the calls in flight | fetch, filter, tick, confirm, handle answers | what is decided is what the dialog showed; what is reported is what was decided |
| **Request, history, admin tabs** `components/request`, `inputTag`, `history`, `admin` | form fields and the tags behind them, a file being read, dialogs, timers, calls in flight; shared: active tab, loader | fill in, upload, submit, redirect; search; clean | a request is sent complete and with offered options only; a search happens when asked for or after a submission |
| **Web session** `App.tsx`, `login`, `profile` | session cookie, `tokenExpiry` and `loginMethod` in the local storage, the code in the address bar, React state | load, log in, exchange the code, sign out, the 401 interceptor | a code is sent once; signing out holds; a lost session leads to the login page |
| signed URLs, e-mail, routes, database setup, charts | none of their own | | |

### Interaction

The web application calls the API over HTTP. The API keeps requests in PostgreSQL (GORM, no
transactions) and, when the last namespace is approved, creates `jit-<id>` in the target cluster
with a callback URL signed until the end date. The operator's informer delivers the object; the
controller validates it, writes `Pending`, calls back, waits for the start (`RequeueAfter`), creates
the RoleBindings, writes `Succeeded`, calls back, waits for the end and deletes the object; the
garbage collector removes the RoleBindings it owns. A request that fails validation becomes
`Rejected`, is reported and deleted by the next reconcile, which the status update itself triggers.

### What is hard about it

* The reconciler works on the informer's copy and writes with optimistic concurrency; between two
  of its calls everything may change, and the process may stop.
* Timers and queue are in memory. Callbacks are sent once and may be lost.
* RoleBindings are created one by one, under a name derived from the JitRequest's, so that a
  JitRequest created anew, for whatever it now asks, meets the RoleBindings of its predecessor.
* HTTP handlers interleave between statements, and decide from rows they read earlier.
* Creating the JitRequest and updating the request row are two steps in two systems.
* In the browser everything between an await and what follows it may change: lists are refreshed,
  dialogs opened, tabs hidden, pages left; hidden tabs stay mounted and share one loader.
* What says that a user is logged in is kept in five places, which a reload, a 401, an expiry and a
  late answer change one at a time.

`PROJECT.json` lists the hazards at their lines, with the properties that watch them. Behaviours of
the web application that the models reach, or leave out, and no property judges: ticks and buttons
stay enabled during a call, so requests may be decided twice; the answer of an older refresh lists
decided requests again; ticks made during a call are cleared by its success; of two searches the
older answer may replace the newer; the first answer ends the loader of all; a reload during the
exchange of a code spends it; a profile without a name leaves a blank page; several tags pasted at
once are added to the tags of one render; the earliest end time is computed from the start and can
wrap at midnight; the dialog of a request stays open during the call, and a second click sends it again;
after a 401 the approve tab says "successfully" until the page is gone.

## 2. The modules

| Module | Role |
|---|---|
| `JitRequestOperator` | the JitRequest controller and the part of the cluster it works on |
| `AccessGrant` | the abstract promise about access; `JitRequestOperator` implements it |
| `JitRequestOperator_proofs` | inductive invariant and theorems |
| `JitRequestOperator_promise` | extends it by what depends on names that are used again: success, callbacks, the refinement of `AccessGrant` |
| `MCJitRequestOperator` + `Operator*.cfg` | small instances |
| `Approval` | the approval workflow of the API |
| `Approval_proofs` | inductive invariant and theorems |
| `Approval_serial` | extends it by what holds of calls that do not overlap |
| `MCApproval` + `Approval*.cfg` | small instances |
| `JitGroupCache` | the JitGroupCache controller with its rebuilds |
| `JitGroupCache_proofs` | inductive invariant and theorems |
| `MCJitGroupCache` + `GroupCache*.cfg` | small instances |
| `ApproveTab` | the approve tab with the pending mode of the request table |
| `ApproveTab_proofs` | inductive invariant and theorems |
| `AppTabs` | what `App.tsx` hands down to its tabs: active tab, origin tab, loader |
| `RequestForm`, `HistoryTab`, `AdminTab` | one tab each |
| `WebTabs` | the three composed: shared tabs and loader, each tab's actions beside the others' |
| `WebTabs_proofs` | inductive invariant and theorems |
| `WebSession` | signing in and out, storage, cookie, page loads |
| `WebSession_proofs` | inductive invariant and theorems |
| `MCApproveTab`, `MCWebTabs`, `MCWebSession` + cfg | small instances |

### JitRequestOperator

State. `obj[r]` is the JitRequest named `r` in the API server: UID (counted per name, 0 when there
is none), resourceVersion, `status.state` (`"New"` stands for the empty state of an object whose
status was never written) and the start and end copied to the status. `spec[r][k]` is what the
`k`-th JitRequest named `r` asks for, if it is ever created. Two of one name have nothing in common but
the name: role, dates, users and cluster come from the body of the approver's call
(request.go:268-269, 283-296, 378-380), the namespaces from the rows of that moment, and other clients
may create JitRequests, too (README.md:97). Assumed is only that nobody edits the spec of a
JitRequest that exists; the operator reads it again in every reconcile and does not check that.
`bindings` are the RoleBindings, with the UID in their owner reference, which says whose spec they
are judged by. `cache`, `queue`, `timer`
and `worker` are the memory of the operator process; `worker.copy` is the Go struct the handlers
pass around, `worker.pc` the next call to leave the process:

| pc | code |
|---|---|
| `dispatch` | the `switch` of `Reconcile`, up to the first outgoing call of the handler |
| `update` | `updateStatus`, with `worker.target` |
| `callback` | `callbackToApi` |
| `bind` | `createRoleBinding`, `worker.left` to do |
| `requeueAfter` | between `t.After(time.Now())` and `time.Until(t)` |
| `delete` | `deleteJitRequest` |

Actions. `Reconcile`, `ConfigUnreadable`, `HandleNewRequest`, `NamespaceLookupFails`,
`HandleRejected`, `HandlePreApproved`, `HandleCleanup`, `CreateRoleBinding`,
`CreateRoleBindingFails`, `RoleBindingsCreated`, `UpdateStatus`, `UpdateStatusFails`,
`CallbackToApi`, `RequeueAfter`, `DeleteJitRequest` and `DeleteJitRequestFails` are the handlers; a
failing call may have taken effect (lost reply) or not. `Sync` (with `JitRequestPredicate`),
`TimerFires`, `Crash`, `Restart` and `GarbageCollect` are the runtime; `CreateK8sObject`,
`Withdraw` (somebody deletes a JitRequest), `Evict` (a namespace is deleted) and `Tick` are the
environment. `deleteOwnedObjects` has no effect in `Reconcile`, because the handler passes it the
empty object (see the findings).

Abstractions. Users, messages, events, annotations and e-mail addresses are left out: no control
depends on them. The namespaces of a request are a set; the code walks a list, whose order is any.
The namespace lookup reads the API server's truth; a lookup in a stale cache is the same as a
namespace deleted right after it. The back-off of a failing key is "later". One worker per
controller, one process (leader election is off by default): several processes are out of scope.
`status.state` other than the four the operator writes is out of scope.

### AccessGrant

The promise without the machinery: a JitRequest opens a grant, which may be accepted. Access is given
under an accepted grant only, and no earlier than its window. A grant that was accepted ends when its
window does, unless it is withdrawn; one that was not may be refused at any time. Access is taken away
when its grant is no more, or with its namespace. `JitRequestOperator!Promise` maps `open` to the
`<<name, UID>>` of the existing objects, `accepted` to those that are Pending or Succeeded, and `access`
to `bindings`. The mapping hides reconciler, caches, queue, timers and crashes. So a reconcile of an
old JitRequest may not delete an accepted successor; one that nobody has looked at yet it may delete
(`Delete` goes by name), and the refinement does not object. That access is given at all is
not part of it: see `BoundUnlessPreceded` and `PendingIsGranted`.

### Approval

State. `requests` and `rows` are the two tables, `inserting` the rest of a `SubmitRequest` in
progress, `shown` what the approvers have on screen, `job[a]` the local variables of
`ApproveOrRejectRequests` and `processApproval`, `object` and `calls` the operator reduced to the
order "write a status, call back, go on". `made` and `consents` are history.

Actions. One per statement sent to the database and per call to the cluster: `SubmitRequest`,
`InsertNamespace`, `FetchNamespaces`, `SaveNamespace`, `NamespacesSaved`, `CreateK8sObject`,
`FetchRequest`, `UpdateRequest`, `K8sCallback`, `CleanExpiredRequests`, and their failures;
`HandlerFails` is a failing statement or a handler that dies with its process.

Abstractions. A decision applies to a set of request ids and carries a status: `"Approved"`,
`"Rejected"`, or any other text (`"Other"`, as the `"approved"` of the examples at
request.go:180-225), which saves the rows as they were read and is written to the request as it
is. Role, dates, users and cluster of the payload go into the JitRequest and are the business of
`JitRequestOperator`, where they are arbitrary. Approver id and name are whatever the payload says
(request.go:269, 296, 335) and are not compared with the session; they are written to rows and
request and decide nothing, so the model leaves them out and has no property about them. Whose
session it is decides (`MayDecide`, `consents`). Group membership and namespace owners are constants (the session and the
JitGroupCache). The end date passes in one step (`Expire`), for the callback URL, the cleaning and
the operator alike.

`spent.overlaps` counts the calls that came while another one was served: `SerialApprovalIsCreated`
and `CreatedOnlyWhileApproved` are about behaviours without any, concurrent calls break both.
`spent.early` counts those that came while `SubmitRequest` was inserting rows: they may create the
JitRequest for a part of the namespaces, and the approval of the rest then meets AlreadyExists and is
never granted. `SerialApprovalIsCreated` is about behaviours without these, too, and asks for more than
that there was a JitRequest: it was made for all rows (`made[r] = Filed(r)`). What the code does and no property judges: `processApproval` never reads the status of a request before it
rewrites its rows and its status (request.go:318-349), so that a decision from an old list changes a
request that was decided before.

### JitGroupCache

State. `ns` is the namespaces as their informer has delivered them: what it has not delivered has not
happened for the operator, so no second copy is needed. `cache` is the object in the API server,
`copy` the informer's copy of it. `run["worker"]` is the one reconcile in progress, `run["boot"]` the
rebuild that `mgr.Add` runs beside the controller at the start. Of a resourceVersion the model keeps
whether it is still the latest (`fresh`), of the list one entry for each namespace, of the two
annotations their pair or `Partial`. `lost` is a history variable: the namespaces whose last change
passed no event (label or annotation removed, label added later, operator down), or came while
`boot` held its list; a later listing takes them out again.

Actions. `NamespacePredicate` decides which changes are queued; `FetchCache`, `CreateCache`,
`ReadNamespace`, `UpdateCache` are the calls of `Reconcile`; `List`, `GetLatest`, `CreateListed`,
`UpdateListed` those of `RebuildJitGroupCache`, for both processes. `Error` is what a returned error
means: the worker's request is retried, the rebuild of the start ends the manager and with it the
operator (`Stop`), which Kubernetes starts again (`Start`). Reads go to the informers and do not
fail; a deletion of the object and its recreation are delivered one after the other. A write that
succeeds although its caller is told otherwise is left out: the retry writes the same list again, or
meets a conflict.

What the code does and no property judges: `Reconcile` looks at neither the label nor the presence of
the annotations again, so that a namespace that loses them between event and reconcile is listed with
an empty group (`EntryOf`).

### ApproveTab

State. The React state under its own names; `filters` are the columns of the request table with a
text in them; `get` is the fetch in flight, `posts[p]` the p-th call of `handleSelected` with what
the handler captured. `confirmed` and `heading` remember what the dialog showed. `page` is
`"leaving"` from the moment the interceptor sets `location.href` until the browser acts on it.

Actions. A handler runs to its first await in one action (`Refresh`, `Confirm`) and goes on after it
in another (`FetchDone`, `PostSucceeds`, `PostFails`). `GetPendingApprovals` and
`ApproveOrRejectRequests` are the API as the page sees it: any list, any subset decided, 200 only if
all were; `GetFails` and `PostReplyLost` are the network. The interceptor turns a 401 into an answer
without content: reading rows from it throws (the list stays), after a decision it counts as success.

### RequestForm, HistoryTab, AdminTab, WebTabs

`RequestForm` keeps a tag field twice, as the code does: `tags` in `InputTag`, `texts` in the form.
`FileLoaded(u)` is the `onload` handler of the `u`-th upload with the options of the render it was
created in (`reading[u].seen`); several files may be read at a time. A file has no value for a tag field
(`None`, the empty text) or a set of them, the empty list included, which clears the field; a handler
that throws half-way, at a value of the wrong type, leaves the tag fields of `reads` set and the rest
alone, and a file that does not parse sets none; `SubmitSucceeds`, `Redirect` and `ResetOrigin` are
the `then` and its two timers.
`HistoryTab.Render` is a React render, which fixes what its effect will see, and `RunEffect` the
effect, which runs later, perhaps after a timer, but before the next render; changes set `effectDue`, so
that several of them may be rendered as one. `WebTabs` adds the choice of the tab and the rule
that a dialog covers what is behind it. Of the dates and the justification the model keeps whether
they are there, of history rows and criteria nothing.

### WebSession

`cookie`, `tokenExpiry`, `loginMethod`, `urlCode` and React's `data`, `login`, `loading`, `role` are
the places where a session is remembered; `codeSpent` is the provider's. `calls[c]` is the call of
kind `c`, with the cookie it carried. `Mount` is the effect of `App` that runs once, `MountLogin` the
effects of `Login`, `LeaveTo` what a page loses when it goes, `Intercept` and `LeaveForLogin` the
two halves of the 401 interceptor, `SignOut` and `SignOutEnds` those of `handleSignOut`. Of several
calls of one kind the model keeps one; `"work"` stands for the calls of all tabs, of which only a 401
matters to the session. A logout expires only the cookies its call carried, so one that arrived after
it was sent may stay (`Logout`); a callback that answers an error may have set the cookie, because the
organisation is looked at after that (`CallFails`); the answer to the permissions sets it anew
unless the session held them already (`AnswerBehindAuth`). `SignOutHolds` is about who is logged in on
the page; that the cookie is gone after a sign-out does not hold of the code. Left out is a code that comes from
elsewhere than the application's own redirection (Login.tsx:41-49 takes `state` for the provider and
compares it with nothing): `ProviderKnown` and `SignOutHolds` are about logins the page began.

## 3. Properties, runs and what they show

Operator: `NoAccessBeforeStart`, `OnlyVettedAccess`, `BoundUnlessPreceded` (invariants),
`StatusMovesForward`, `ReportsAreTrue` (action properties), `KeepsPromise` (refinement),
`ExpiredIsRevoked`, `EveryRequestIsSettled`, `PendingIsGranted` (liveness). Approval:
`NoGrantWithoutConsent`, `SerialApprovalIsCreated` (invariants),
`CreatedOnlyWhileApproved` (action property). JitGroupCache: `SettledMeansListed` (invariant),
`OnlyItsEntry` (action property), `Converges` (liveness). Approve tab: `DecidedAsConfirmed`, `LoaderMeansCall`
(invariants), `ReportedIsDecided` (action property). The other tabs: `TagsMirrored`,
`OnlyOfferedIsSelected`, `LoaderMeansCall` (invariants), `SentIsComplete`, `OnlySubmissionsSearch`
(action properties). Session: `CodeSentOnce`, `ProviderKnown`, `SignOutHolds` (invariants),
`LostSessionEndsAtLogin` (liveness).

| Run | Instance | Result |
|---|---|---|
| `OperatorSafety` | one name created up to twice, each time with any of four specs (a window with a length, a later one without, a role not allowed, a namespace outside the regex), three namespaces; one crash, one failed call, one withdrawal, one deleted namespace; 1.9 million states | all safety properties and the refinement hold |
| `OperatorLiveness` | one JitRequest of four specs, clock to 3, one crash, one failure, one withdrawal, prompt delays, namespaces stay | the three liveness properties hold |
| `OperatorEviction` | as above, a namespace may be deleted | `ExpiredIsRevoked` fails |
| `OperatorLateDelay` | the clock may move between `After` and `Until` | `EveryRequestIsSettled` fails |
| `OperatorReuse` | one name created twice, for an early and for a late window; nothing fails | `SucceededMeansBound` fails |
| `ApprovalSafety` | an approver for each group and an admin; two decisions of any status, of which one may overlap and one may come before the rows are there, and one failure; 2.3 million states | safety holds; calls that neither overlap nor come early create for all rows, exactly when all are approved |
| `ApprovalRace` | two groups at once | `AllApprovedIsCreated` fails |
| `GroupCache` | two namespaces, two groups, labels and annotations in any combination; two edits, one deletion of the cache, one crash, one failed call; a million states | reconciles do not overwrite each other; when nothing is left to do the cache lists what was not missed; it converges |
| `GroupCacheRace` | nothing fails | finding 5 |
| `ApproveTab` | two requests, one filter, two confirmed decisions, one refresh, the session may end; a million states | what is decided was confirmed, what is reported was decided, the loader ends |
| `WebTabs` | one drop-down with an offered and another option, one tag field with a valid and an invalid text, three files; two submissions, one upload, one search, one cleaning; 3.7 million states | the form stays consistent, requests are complete, only submissions search |
| `WebSession` | two logins, one reload, sessions and expiries that end at any time; 360 thousand states | a code is sent once, signing out holds, a lost session leads to the login page |

### Findings

1. **Access may outlive its window** (`OperatorEviction`). A namespace deleted between validation
   and start makes `createRoleBinding` fail on every retry. The RoleBindings created before it in
   the loop stay, the status stays `Pending`, and `handlePreApproved` never looks at the end time.
2. **A key may be forgotten** (`OperatorLateDelay`). A `RequeueAfter` that is not positive ends the
   reconcile without a timer; the next event or restart is needed. The window is the time between
   two calls of `time.Now()`.
3. **Succeeded without access** (`OperatorReuse`). A JitRequest whose name was used before meets the
   RoleBindings of its predecessor as long as the garbage collector has not removed them, and
   `createRoleBinding` takes AlreadyExists for success. Then they are removed: the status says
   "Access granted until end time", and nothing is bound. `BoundUnlessPreceded` is what holds
   instead: it takes a predecessor with an earlier window, because a JitRequest is only accepted before
   its start, and no RoleBinding exists before the start of the JitRequest that owns it.
4. **Two simultaneous approvals lose the request** (`ApprovalRace`). Both handlers see the other
   row undecided; all rows end approved, the status stays `Requested`, nothing is created, and the
   request is on no group approver's list any more (an admin still sees it).
5. **The rebuild of the start removes what was just added** (`GroupCacheRace`). It lists the
   namespaces, loses the first attempt to write to a reconcile of the controller beside it, reads the
   latest object and writes its old list: the namespace stays out until it is annotated anew or the
   operator restarts.

Seen while modelling, and nothing to check: the clean-up of `handleFetchError` cleans nothing, because
the object it is given after NotFound is the empty one (handlers.go:148-152); the garbage collector does
the work.

### Bounds

Every bound is a constant of its module (`MaxTime`, `MaxIncarnations`, `MaxFailures`, `MaxCrashes`,
`MaxWithdrawals`, `MaxEvictions`; `MaxDecisions`, `MaxOverlaps`, `MaxEarly`, `MaxFailures`). One name is enough
for the operator's safety: names share only worker and queue, and what a reconcile of one name does
to another is to delay it, which the interleaving of one name with clock, informer and crash covers
as well. Two incarnations are what name reuse needs, two namespaces what a partial failure needs,
and a clock of two steps has a before, during and after for the shortest window. `MCSpecs` has two
windows that start at different times, so that a name can be used again for the later or the earlier one;
`OperatorReuse` has windows that begin and end further apart. Two decisions are what a lost update needs,
and an approval after a rejection; one of them before the rows are there (`MaxEarly`) is what a partial
JitRequest needs. The theorems below do not depend on the value of any bound.

Two namespaces are what a lost update of another's entry needs, two edits what "announced, then
changed silently before the reconcile reads it" needs. Two attempts of a rebuild stand for the four of
`retry.DefaultBackoff`, one that is retried and a last one; `GroupCacheRace` has all four.

In the browser two calls of a kind are what a race of answers needs (`MaxPosts`, in both tabs), one
refresh or search beside them what a race of different calls needs. Three files (one that is corrected, one whose
option is refused and that has no tags, one whose handler throws after clearing the tags) and one upload cover the asynchronous load; two files read at a time
(`MaxUploads` = 2) are out of TLC's reach beside the rest, more than ten million states, and are covered by the
theorems, which hold for any number; two logins are needed for a
second code after a sign-out, one reload for a page that starts from storage. The properties of
`WebTabs` do not compare two drop-downs or two tag fields, which are handled alike.

`NamespaceSymmetry` (the two matching namespaces) is used in the run without liveness only, where
specs and properties treat them alike. Deadlock checking is off: when the bounds are used up and
every request is settled, the system has stopped.

### Fairness

`FairSpec` assumes that time passes, that the process is restarted (its Deployment), that informer,
timers and garbage collector do their work, and that a reconcile in progress goes on (weak
fairness), and strong fairness of `Reconcile(r)`: the work queue is first in, first out, so a key
that keeps coming back gets its turn. Nothing is assumed of the environment, and failures and
crashes are bounded by their constants: liveness is claimed for systems in which they stop.
`Approval` has no liveness property: no handler is obliged to retry.

`JitGroupCache` assumes that its worker, the rebuild at start, the informer's delivery and the restart
go on (weak fairness). Edits, deletions, failures and crashes are bounded and owe nothing: `Converges`
speaks of the time after them.

`WebSession` assumes that every call is answered or fails, and that the browser runs what is ready:
a promise that is settled, an effect that is due, a navigation that was started (weak fairness).
Nothing is assumed of the user, the clock or the provider. The other web modules have no liveness
property: their loaders end with the answers (`LoaderMeansCall`).

## 4. What is proved

Every invariant, every action property and the refinement that a passing run checks is the statement
of a theorem, for all values of the constants. Each inductive invariant
was first checked by TLC on the instance of the component's safety run.

`JitRequestOperator_proofs` proves, for every set of requests, namespaces, roles and specs and for
every bound (from `ConstantsAssumption` alone):

| Theorem | Statement |
|---|---|
| `Inductive` | `Spec => []IInv` |
| `TypeCorrect` | `Spec => []TypeOK` |
| `StartIsRespected` | `Spec => []NoAccessBeforeStart` |
| `OnlyVettedIsBound` | `Spec => []OnlyVettedAccess` |
| `StatusIsMonotonic` | `Spec => StatusMovesForward` |

None of these is inductive as it stands. A RoleBinding is created from `worker.copy`, which was
read from the informer some time ago, so the invariant has to say what such copies are worth:

* `Version(r, c)`: `c` is what the API server has, or had, under the name `r`. Its UID was issued;
  when it is the current one, its resourceVersion is not newer, equal resourceVersions mean equal
  objects, and a copy that is granted belongs to an object that still is; a granted copy belongs to
  a vetted spec and carries its start.
* `VersionsOK`: every object and every cached copy is a version. `WorkerOK`: so is the copy of a
  reconcile in progress, and `Intention` says what each pc may rely on (what is about to be written
  follows from the copy's state, binding only starts after the start).
* `BindingsOK`: every RoleBinding has an issued owner, a window that has begun, an allowed role and
  namespace, and an owner, if alive, that is granted.

`VersionsAreKept` is the heart: creations, removals and accepted writes keep every version a
version. `WriteIsCurrent` turns the API server's check of UID and resourceVersion into "the copy is
the object", from which `StatusIsMonotonic` follows. Then one lemma per conjunct (`TypeStep`,
`VersionsStep`, `WorkerStep`, `BindingsStep`), split by action.

`JitRequestOperator_promise` goes on from there, again from `ConstantsAssumption` alone:

| Theorem | Statement |
|---|---|
| `AcceptedIsAlone` | `Spec => []PInv` |
| `SuccessIsBound` | `Spec => []BoundUnlessPreceded` |
| `CallbacksAreTrue` | `Spec => ReportsAreTrue` |
| `PromiseIsKept` | `Spec => KeepsPromise`, that is, `Promise!Spec` of `AccessGrant` |

All of these could fail through a name that is used again. `createRoleBinding` takes AlreadyExists for
success, `deleteJitRequest` goes by name, and the informer may hand out the copy of a predecessor, and
what one JitRequest of the name asks for says nothing of the next. That they hold, the first with its
condition, has two reasons that no single handler shows:

* `SoleOK`: once a JitRequest is accepted, the informer, which showed the object that was accepted, has
  left its predecessors behind, and so no reconcile has a copy of them. A JitRequest is accepted
  only before its start, and no RoleBinding exists before the start of its owner. So, if
  no JitRequest of the name starts earlier (`NotPreceded`), all RoleBindings of the name are its own
  and AlreadyExists meets its own. Without that condition `OperatorReuse` refutes it.
* `RecordsOK`: a rejection is final, and an accepted copy has the end of the spec. What
  `deleteJitRequest` finds under the name is therefore past its end, rejected, or not bound at all.
* `AchievedOK`: what the reconcile in progress has done holds for as long as its JitRequest is there:
  which RoleBindings exist, which status was written before the callback.

`PromiseIsKept` maps the initial state and then every step: a creation opens a grant, the status
`Pending` accepts it, a created RoleBinding gives access, the garbage collector and an eviction end one, a withdrawal or a
deletion closes a grant, and everything else is a stutter.

`Approval_proofs` proves `TypeCorrect` and `ConsentIsNeeded` (`NoGrantWithoutConsent`) with no
assumption on the constants, so for any number of requests, namespaces, approvers, handlers in
flight and failures. What makes it hard is that handlers of `processApproval` work on copies of the
namespace rows that others overwrite meanwhile. The invariant therefore speaks of every copy as of the
table:

* `Agreed`: a row that is approved, in the table or in a copy, has the consent of somebody who may decide on
  the namespace. Consents are never withdrawn, so that this stays true of a copy however old it gets, and
  of the table it is written back to (what that loses: see the runs).
* `JobOK`: a handler decides for one request at a time, on rows its user may decide on, with the
  user's consent when it approves; when it goes on to create the object, every row of its own copy is
  approved, and the namespaces of the object are those of that copy.
* `CallsOK`: a callback on its way is that of a status the operator has written.

`JobMoved`, `PcMoved` and `ReturnOK` state once what a step of one handler leaves true of all; one
lemma per group of actions follows.

`Approval_serial` proves `SerialApprovalCreates` (`SerialApprovalIsCreated`) and
`CreatedWhileApproved` (`CreatedOnlyWhileApproved`), with no assumption either. Both are about
behaviours in which no call came while another was served, the first also about those in which none came
before the rows; the run `ApprovalRace` shows that they need the former. The invariant `SInv` adds:

* `FilingOK` and `HoldingsOK`: a row is inserted once, copies are of rows that exist, and nobody has a
  request on screen that was not submitted. A `SubmitRequest` in progress may therefore add rows beside
  a handler, but not change those it has.
* `CompleteOK`: with no early call counted, a request that somebody decides on has all rows it will
  ever have, in the table, in the copy of the handler and in the JitRequest made from it.
* `SerialOK`: with no overlap counted at most one handler is awake, and its copy agrees with the
  table.
* `NoneMissed`: with no failure either, a request all of whose rows are approved has its JitRequest,
  or the handler that approved the last row is still on its way to create it (`Underway`): at
  the end of its loop it judges by its copy, which agrees with the table.

`JitGroupCache_proofs` proves from `ConstantsAssumption` `TypeCorrect`, `SettledIsListed`
(`SettledMeansListed`) and `OtherEntriesStay` (`OnlyItsEntry`), for any number of namespaces and any
number of edits, deletions, crashes and failures. That nothing is missing when nothing is left to do
is not inductive by itself; the invariant says why, namespace by namespace:

* `Pending`: a namespace that is not listed as it should be has a write to come that will be right:
  it is in the queue or being reconciled, or a rebuild is due, has yet to list, or holds the right
  entry.
* `HeldOK`: what a process holds of a namespace is right, or the namespace is queued again. For the
  rebuild of the start only the first will do: nobody reconciles after it, and what changes while it
  holds its list counts as `lost`.
* `FreshOK`: who has the latest object has its entries, except the one in work. It carries
  `OnlyItsEntry`.

`Moved` and `Written` say once what a step without and with a write leaves of both processes; one
lemma per action follows.

`ApproveTab_proofs` proves from `ConstantsAssumption` alone `TypeCorrect`, `ConfirmedOnly`
(`DecidedAsConfirmed`), `ReportsAreTrue` (`ReportedIsDecided`) and `LoaderEnds` (`LoaderMeansCall`).
The invariant behind the first says that a call's payload is what its dialog listed, under the same
decision, and that the API decides a part of the payload only; that the dialog is never open without
a decision chosen; and that an "ok" means the whole payload. `LoaderEnds` needs no more than the
calls themselves: the loader is set with a call and cleared with every answer.

`WebSession_proofs` proves `TypeCorrect`, `OneExchange` (`CodeSentOnce`), `ProviderIsKnown`
(`ProviderKnown`) and `SignOutLasts` (`SignOutHolds`). The invariant:

* `LoginsOK`: of the two calls that log a user in, the profile and the exchange of a code, at most
  one is in flight, and only while the loader stands for login page and application, the second only
  with its code in the address bar; a page that is being loaded has no calls.
* `ProviderOK`: wherever such a call can come from (a code in the address bar, the provider's page, a
  login button) a provider is stored.
* `SignedOutOK`: after a sign-out neither an expiry in the storage nor a profile in flight is left.
* `CodeOK`: a code that was sent and is still in the address bar is still being exchanged.

`CallsAfter` says what a step makes of the calls; one lemma per way of changing them (`DoneCall`,
`SentCalls`, `SentCallsDone`, `LostCalls`, `RepliedCall`), one per group of actions, one step per
action and conjunct.

`WebTabs_proofs` proves `PageTypeCorrect` (`TypeOK`), `TagsAreMirrored` (`TagsMirrored`),
`OfferedOnly` (`OnlyOfferedIsSelected`), `LoaderHasCall` (`LoaderMeansCall`), `CompleteWhenSent`
(`SentIsComplete`) and `SearchesAfterSubmission` (`OnlySubmissionsSearch`), from `FormAssumption`, for
any form, files and numbers of calls. The invariant:

* `ReadingOK`: the options a file is checked against, those of the render its handler was created in,
  are still offered when the file is loaded.
* `DialogOK`: behind an open dialog the form is complete or a file was loaded into it. Answers of
  earlier submissions clear the form, but close the dialog in the same step.
* `OriginOK`: the history tab is told of the request tab only while a submission is between its two
  timers. The effect may run after the second timer; the render that decides it comes between them.

`FormStep` is about the form alone and `LoaderStep` composes `FormLoader`, `HistoryLoader` and
`AdminLoader`: each tab's steps leave its calls and the loader alone, leave a call in flight, or end
the loader, and no tab touches another's calls.

Only model-checked, because the prover has no rules for fairness and ENABLED: the liveness properties
`ExpiredIsRevoked`, `EveryRequestIsSettled`, `PendingIsGranted`, `Converges` and
`LostSessionEndsAtLogin`. The five runs that expect a violation are counterexamples and have nothing
to prove.

## 5. Not modelled, and the plan

The allowed roles, the regex, group owners and group membership are constants. HMAC, OAuth
exchanges, e-mail, routes, logging, charts and generated code are left out: their control is
straight-line or they are I/O. In the web application messages and their timers, drop-downs, help
boxes, the history rows and the CSV export are left out: no other state depends on them.

Next, in this order:

1. `OperatorConfig`: regex and file written by one controller, read by the other.
2. `KubeJit`: composition of `Approval` and the operator's status and callbacks: which status a
   request row ends with when callbacks are lost, late, or overtaken by the handler's own update.
3. `ClusterCaches`, `SessionCookies`, `Permissions`: the API's caches and sessions.

Proofs: with the modules above, theirs. Of today's properties only liveness is
left, out of the prover's reach.

## 6. Running

    tlc -config OperatorSafety.cfg MCJitRequestOperator.tla
    tlc -config WebTabs.cfg MCWebTabs.tla
    tlapm JitRequestOperator_proofs.tla
    tlapm JitRequestOperator_promise.tla

`PROJECT.json` names the module of every run, maps definitions to source lines, and lists the
mutants: for every property a plausible bug in the code (kept beside the definition it mutates,
under a comment `Mutant:`) that makes its run fail.
