----------------------------- MODULE ApproveTab -----------------------------
(***************************************************************************)
(* The approve tab of the web application (ApproveTabPane.tsx, with the    *)
(* pending mode of RequestTable.tsx) in one browser page: an approver      *)
(* fetches the pending requests, filters the table, ticks rows, and        *)
(* confirms an approval or a rejection in a dialog.                        *)
(*                                                                         *)
(* An event handler runs to its first await in one step, and what follows  *)
(* the await is a step of its own: list, ticks and dialog may have changed *)
(* when an answer is handled.  The API is reduced to what the page sees of *)
(* it.  What is pending changes with the decisions of others, so a list    *)
(* may contain any requests; a call that decides may fail for some of its  *)
(* requests and succeed for others; without a session the answer is 401.   *)
(* Messages stand for themselves: their timers are left out.               *)
(***************************************************************************)
EXTENDS Integers, FiniteSets

CONSTANTS
  Requests,      \* the ids a pending list can have
  Columns,       \* the columns with a filter
  Hits,          \* Hits[c]: the requests whose column c contains the filter's text
  MaxPosts,      \* bound: confirmed decisions
  MaxRefreshes,  \* bound: fetches after the first
  MaxExpiries    \* bound: sessions that end

ASSUME ConstantsAssumption ==
  /\ Hits \in [Columns -> SUBSET Requests]
  /\ {MaxPosts, MaxRefreshes, MaxExpiries} \subseteq Nat

VARIABLES
  session,           \* the API accepts the session cookie
  pendingRequests, selectedRequests,
  filters,           \* the columns with a text in the filter of RequestTable
  showConfirmModal, confirmAction,
  isRefreshing, loadingInCard,
  get,               \* GET /approvals
  posts,             \* posts[p]: the p-th POST /approve-reject and its handler
  page,              \* "open", "leaving" once location.href was set, then "gone"
  refreshes          \* fetches after the first

table == <<pendingRequests, selectedRequests, filters>>
dialog == <<showConfirmModal, confirmAction>>
vars == <<session, table, dialog, isRefreshing, loadingInCard, get, posts, page, refreshes>>
-----------------------------------------------------------------------------
Posts == 1..MaxPosts
Decisions == {"Approved", "Rejected"}
Outcomes == {"none", "ok", "error", "unauthorized"}

\* requests, status: the payload; selected: the ticks the handler captured;
\* done: what the API decided; confirmed, heading (history): what the dialog showed.
\* Once the handler has reported the call, nothing of it is kept.
Post == [pc : {"unused", "sent", "answered", "succeeded", "failed"},
         requests : SUBSET Requests, status : Decisions, selected : SUBSET Requests,
         done : SUBSET Requests, outcome : Outcomes, confirmed : SUBSET Requests, heading : Decisions]
NoPost == [pc |-> "unused", requests |-> {}, status |-> "Rejected", selected |-> {},
           done |-> {}, outcome |-> "none", confirmed |-> {}, heading |-> "Rejected"]
Get == [pc : {"idle", "sent", "answered"}, outcome : Outcomes, rows : SUBSET Requests]
NoGet == [pc |-> "idle", outcome |-> "none", rows |-> {}]
NewGet == [NoGet EXCEPT !.pc = "sent"]

\* The first fetch is sent when the tab is mounted.
Init ==
  /\ session = TRUE
  /\ pendingRequests = {} /\ selectedRequests = {} /\ filters = {}
  /\ showConfirmModal = FALSE /\ confirmAction = "none"
  /\ isRefreshing = TRUE /\ loadingInCard = TRUE
  /\ get = NewGet
  /\ posts = [p \in Posts |-> NoPost]
  /\ page = "open"
  /\ refreshes = 0
-----------------------------------------------------------------------------
(* The API *)

SessionEnds ==
  /\ session /\ MaxExpiries > 0 /\ page = "open"
  /\ session' = FALSE
  /\ UNCHANGED <<table, dialog, isRefreshing, loadingInCard, get, posts, page, refreshes>>

GetPendingApprovals ==
  /\ get.pc = "sent"
  /\ IF session
       THEN \E rows \in SUBSET Requests :
              get' = [pc |-> "answered", outcome |-> "ok", rows |-> rows]
       ELSE get' = [pc |-> "answered", outcome |-> "unauthorized", rows |-> {}]
  /\ UNCHANGED <<session, table, dialog, isRefreshing, loadingInCard, posts, page, refreshes>>

\* The statement fails, or the answer does not arrive.
GetFails ==
  /\ get.pc = "sent"
  /\ get' = [pc |-> "answered", outcome |-> "error", rows |-> {}]
  /\ UNCHANGED <<session, table, dialog, isRefreshing, loadingInCard, posts, page, refreshes>>

\* Mutant: the 200 after the loop is the answer.
LastAnswer(requests, done) == "ok"

\* processApproval writes an error and returns, the loop over the requests goes on,
\* and of several statuses the first one written is the answer's.
Answer(requests, done) == IF done = requests THEN "ok" ELSE "error"

\* RequireAuth; then some of the requests are decided.
ApproveOrRejectRequests(p) ==
  /\ posts[p].pc = "sent"
  /\ IF session
       THEN \E done \in SUBSET posts[p].requests :
              posts' = [posts EXCEPT ![p].pc = "answered", ![p].done = done,
                                     ![p].outcome = Answer(posts[p].requests, done)]
       ELSE posts' = [posts EXCEPT ![p].pc = "answered", ![p].outcome = "unauthorized"]
  /\ UNCHANGED <<session, table, dialog, isRefreshing, loadingInCard, get, page, refreshes>>

\* The reply is lost: whatever was decided, the page sees an error.
PostReplyLost(p) ==
  /\ posts[p].pc = "sent"
  /\ \E done \in SUBSET posts[p].requests :
       /\ session \/ done = {}
       /\ posts' = [posts EXCEPT ![p].pc = "answered", ![p].done = done, ![p].outcome = "error"]
  /\ UNCHANGED <<session, table, dialog, isRefreshing, loadingInCard, get, page, refreshes>>
-----------------------------------------------------------------------------
(* The table *)

\* filteredRequests of RequestTable, in pending mode.
Visible == {r \in pendingRequests : \A c \in filters : r \in Hits[c]}

\* The table and its filters are unmounted while the list is empty.
FiltersOf(list) == IF list = {} THEN {} ELSE filters

\* The dialog is modal: table and refresh button are out of reach while it is open.
CanClick == page # "gone" /\ ~showConfirmModal

\* handleFilterChange: a text is typed or removed.
ChangeFilter(c) ==
  /\ CanClick /\ pendingRequests # {}
  /\ filters' = IF c \in filters THEN filters \ {c} ELSE filters \union {c}
  /\ UNCHANGED <<session, pendingRequests, selectedRequests, dialog, isRefreshing,
                 loadingInCard, get, posts, page, refreshes>>

ClearFilters ==
  /\ CanClick /\ filters # {}
  /\ filters' = {}
  /\ UNCHANGED <<session, pendingRequests, selectedRequests, dialog, isRefreshing,
                 loadingInCard, get, posts, page, refreshes>>

\* handleSelectRequest: only rows the filters leave have a checkbox to click.
SelectRequest(r) ==
  /\ CanClick /\ r \in Visible
  /\ selectedRequests' = IF r \in selectedRequests THEN selectedRequests \ {r}
                                                  ELSE selectedRequests \union {r}
  /\ UNCHANGED <<session, pendingRequests, filters, dialog, isRefreshing, loadingInCard,
                 get, posts, page, refreshes>>
-----------------------------------------------------------------------------
(* fetchPendingRequests *)

Refresh ==
  /\ CanClick /\ ~isRefreshing
  /\ refreshes < MaxRefreshes /\ refreshes' = refreshes + 1
  /\ isRefreshing' = TRUE /\ loadingInCard' = TRUE
  /\ get' = NewGet
  /\ UNCHANGED <<session, table, dialog, posts, page>>

\* The interceptor turns a 401 into an answer that is undefined and leaves the page.
Leave(outcome) == page' = IF outcome = "unauthorized" THEN "leaving" ELSE page

\* The ticks stay as they are, also those of requests the list has lost; reading the
\* rows of an undefined answer throws, so that the list stays.
FetchDone ==
  /\ page # "gone" /\ get.pc = "answered"
  /\ IF get.outcome = "ok"
       THEN pendingRequests' = get.rows /\ filters' = FiltersOf(get.rows)
       ELSE UNCHANGED <<pendingRequests, filters>>
  /\ isRefreshing' = FALSE /\ loadingInCard' = FALSE
  /\ get' = NoGet
  /\ Leave(get.outcome)
  /\ UNCHANGED <<session, selectedRequests, dialog, posts, refreshes>>
-----------------------------------------------------------------------------
(* The dialog *)

\* What it lists, and what its heading says.
DialogRows == {r \in pendingRequests : r \in selectedRequests}
DialogHeading == IF confirmAction = "Approved" THEN "Approved" ELSE "Rejected"

\* The buttons are there while the list is not empty.
CanAsk == CanClick /\ pendingRequests # {} /\ selectedRequests # {}

\* Mutant: the buttons open the dialog without setConfirmAction.
AskOnly(action) ==
  /\ CanAsk
  /\ showConfirmModal' = TRUE
  /\ UNCHANGED <<session, table, confirmAction, isRefreshing, loadingInCard, get, posts, page,
                 refreshes>>

Ask(action) ==
  /\ CanAsk
  /\ confirmAction' = action /\ showConfirmModal' = TRUE
  /\ UNCHANGED <<session, table, isRefreshing, loadingInCard, get, posts, page, refreshes>>

Cancel ==
  /\ page # "gone" /\ showConfirmModal
  /\ showConfirmModal' = FALSE
  /\ UNCHANGED <<session, table, confirmAction, isRefreshing, loadingInCard, get, posts, page,
                 refreshes>>
-----------------------------------------------------------------------------
(* handleSelected *)

\* Mutant: the ticks are sent as they are.
PayloadOfTicks == selectedRequests

\* selectedRequestData: the ticked requests that are on the list.
Payload == {r \in pendingRequests : r \in selectedRequests}

\* Nothing is disabled while a call is in flight.
Confirm(p) ==
  /\ page # "gone" /\ showConfirmModal
  /\ posts[p].pc = "unused" /\ \A q \in 1..(p - 1) : posts[q].pc # "unused"
  /\ showConfirmModal' = FALSE
  /\ loadingInCard' = TRUE
  /\ posts' = [posts EXCEPT ![p] =
       [pc |-> "sent", requests |-> Payload, status |-> confirmAction,
        selected |-> selectedRequests, done |-> {}, outcome |-> "none",
        confirmed |-> DialogRows, heading |-> DialogHeading]]
  /\ UNCHANGED <<session, table, confirmAction, isRefreshing, get, page, refreshes>>

\* After the await; an undefined answer is as good as any.
PostSucceeds(p) ==
  /\ page # "gone" /\ posts[p].pc = "answered" /\ posts[p].outcome \in {"ok", "unauthorized"}
  /\ pendingRequests' = pendingRequests \ posts[p].selected
  /\ filters' = FiltersOf(pendingRequests \ posts[p].selected)
  /\ selectedRequests' = {}
  /\ posts' = [posts EXCEPT ![p] = [NoPost EXCEPT !.pc = "succeeded"]]
  /\ loadingInCard' = FALSE
  /\ Leave(posts[p].outcome)
  /\ UNCHANGED <<session, dialog, isRefreshing, get, refreshes>>

\* Mutant: setLoadingInCard(false) is not in the finally block.
PostFailsLoading(p) ==
  /\ page # "gone" /\ posts[p].pc = "answered" /\ posts[p].outcome = "error"
  /\ posts' = [posts EXCEPT ![p] = [NoPost EXCEPT !.pc = "failed"]]
  /\ UNCHANGED <<session, table, dialog, isRefreshing, loadingInCard, get, page, refreshes>>

\* catch: list and ticks stay, also when the API decided some of the requests.
PostFails(p) ==
  /\ page # "gone" /\ posts[p].pc = "answered" /\ posts[p].outcome = "error"
  /\ posts' = [posts EXCEPT ![p] = [NoPost EXCEPT !.pc = "failed"]]
  /\ loadingInCard' = FALSE
  /\ UNCHANGED <<session, table, dialog, isRefreshing, get, page, refreshes>>

\* The browser leaves for the login page; nothing of the tab remains.
Unload ==
  /\ page = "leaving"
  /\ page' = "gone"
  /\ pendingRequests' = {} /\ selectedRequests' = {} /\ filters' = {}
  /\ showConfirmModal' = FALSE /\ confirmAction' = "none"
  /\ isRefreshing' = FALSE /\ loadingInCard' = FALSE
  /\ get' = NoGet /\ posts' = [p \in Posts |-> NoPost]
  /\ UNCHANGED <<session, refreshes>>
-----------------------------------------------------------------------------
Api ==
  \/ SessionEnds
  \/ GetPendingApprovals \/ GetFails
  \/ \E p \in Posts : ApproveOrRejectRequests(p) \/ PostReplyLost(p)

User ==
  \/ \E c \in Columns : ChangeFilter(c)
  \/ ClearFilters
  \/ \E r \in Requests : SelectRequest(r)
  \/ Refresh
  \/ \E action \in Decisions : Ask(action)
  \/ Cancel
  \/ \E p \in Posts : Confirm(p)

Page ==
  \/ FetchDone
  \/ \E p \in Posts : PostSucceeds(p) \/ PostFails(p)
  \/ Unload

Next == Api \/ User \/ Page

Spec == Init /\ [][Next]_vars
-----------------------------------------------------------------------------
(* Properties *)

\* The variables keep their types: the status of a payload is always a decision.
TypeOK ==
  /\ session \in BOOLEAN
  /\ pendingRequests \subseteq Requests /\ selectedRequests \subseteq Requests
  /\ filters \subseteq Columns
  /\ showConfirmModal \in BOOLEAN /\ confirmAction \in Decisions \union {"none"}
  /\ isRefreshing \in BOOLEAN /\ loadingInCard \in BOOLEAN
  /\ get \in Get
  /\ posts \in [Posts -> Post]
  /\ page \in {"open", "leaving", "gone"}
  /\ refreshes \in Nat

\* Whatever the API decides for this page was in the dialog the user confirmed,
\* under the heading of that decision: neither a tick on a request that has left
\* the list, nor a refresh, nor the change of mind between two dialogs slips in.
DecidedAsConfirmed ==
  \A p \in Posts : /\ posts[p].done \subseteq posts[p].confirmed
                   /\ posts[p].pc # "unused" => posts[p].status = posts[p].heading

\* "Request(s) approved successfully" is true of every request of the call, though
\* the API goes on after a request that failed.  A 401 is the exception: the
\* interceptor swallows it, and the message shows until the page is left.
ReportedIsDecided ==
  [][\A p \in Posts :
       posts[p].pc # "succeeded" /\ posts'[p].pc = "succeeded"
         => posts[p].done = posts[p].requests \/ posts[p].outcome = "unauthorized"]_vars

InFlight(p) == posts[p].pc \in {"sent", "answered"}

\* The page does not show its loader when none of its calls is in flight, in
\* whatever order the answers of several calls come and fail.
LoaderMeansCall == loadingInCard => get.pc # "idle" \/ \E p \in Posts : InFlight(p)
=============================================================================
