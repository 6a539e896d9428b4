----------------------------- MODULE HistoryTab -----------------------------
(***************************************************************************)
(* The history tab (HistoryTabPane.tsx): a search on demand, and one on    *)
(* its own when the tab is opened by the request tab after a submission.   *)
(*                                                                         *)
(* The effect that searches on its own depends on the tabs, the criteria   *)
(* and the role; it runs some time after the render of a change of one of  *)
(* them, on the values of that render, and before the next render; several *)
(* changes may be rendered together.  The criteria themselves and the rows *)
(* of an answer are left out.                                              *)
(***************************************************************************)
EXTENDS Integers, AppTabs

CONSTANT MaxFetches   \* bound: searches

ASSUME HistoryAssumption == MaxFetches \in Nat

VARIABLES
  privileged,   \* isAdmin, once the permissions have arrived
  searchDue,    \* the effect of the last render has still to run, and will search
  fetches       \* fetches[i]: the i-th GET /history

historyVars == <<privileged, searchDue, fetches>>
-----------------------------------------------------------------------------
Fetches == 1..MaxFetches

HistoryInit ==
  privileged = FALSE /\ searchDue = FALSE /\ fetches = [i \in Fetches |-> "unused"]

\* fetchRequests, up to the await.
FetchRequests ==
  \E i \in Fetches :
    /\ fetches[i] = "unused" /\ \A j \in 1..(i - 1) : fetches[j] # "unused"
    /\ fetches' = [fetches EXCEPT ![i] = "sent"]
    /\ loadingInCard' = TRUE

\* The answers of several searches may come in any order.
GetRecords(i) ==
  /\ fetches[i] = "sent"
  /\ fetches' = [fetches EXCEPT ![i] = "answered"]
  /\ UNCHANGED <<privileged, searchDue, tabs, loadingInCard>>

\* Mutant: the finally block is missing.
FetchEndsLoading(i) ==
  /\ fetches[i] = "answered"
  /\ fetches' = [fetches EXCEPT ![i] = "done"]
  /\ UNCHANGED <<privileged, searchDue, tabs, loadingInCard>>

\* Rows or an error message; finally, the loader ends.
FetchEnds(i) ==
  /\ fetches[i] = "answered"
  /\ fetches' = [fetches EXCEPT ![i] = "done"]
  /\ loadingInCard' = FALSE
  /\ UNCHANGED <<privileged, searchDue, tabs>>

\* Mutant: the effect asks only for the tab.
OpenedAtAll == activeTab = "history"

OpenedByRequest == activeTab = "history" /\ originTab = "request"

\* The render, which fixes what the effect will see.
Render ==
  /\ effectDue /\ ~searchDue
  /\ effectDue' = FALSE
  /\ searchDue' = OpenedByRequest
  /\ UNCHANGED <<privileged, fetches, activeTab, originTab, loadingInCard>>

\* The effect; beyond the bound no more searches are sent.
RunEffect ==
  /\ searchDue
  /\ searchDue' = FALSE
  /\ IF \E i \in Fetches : fetches[i] = "unused" THEN FetchRequests
     ELSE UNCHANGED <<fetches, loadingInCard>>
  /\ UNCHANGED <<privileged, tabs>>

HandleSearch ==
  /\ activeTab = "history"
  /\ FetchRequests
  /\ UNCHANGED <<privileged, searchDue, tabs>>

\* A user, a date or the limit.
ChangeCriteria ==
  /\ activeTab = "history"
  /\ effectDue' = TRUE
  /\ UNCHANGED <<historyVars, activeTab, originTab, loadingInCard>>

\* The answer of POST /permissions (App.tsx), of an administrator.
PermissionsArrive ==
  /\ ~privileged
  /\ privileged' = TRUE /\ effectDue' = TRUE
  /\ UNCHANGED <<searchDue, fetches, activeTab, originTab, loadingInCard>>
-----------------------------------------------------------------------------
HistoryUser == HandleSearch \/ ChangeCriteria

HistoryPage ==
  \/ \E i \in Fetches : GetRecords(i) \/ FetchEnds(i)
  \/ Render \/ RunEffect \/ PermissionsArrive

HistoryCalls == {i \in Fetches : fetches[i] \in {"sent", "answered"}}

\* A render decides that the tab searches on its own.
RenderSearches == ~searchDue /\ searchDue'

HistoryTypeOK ==
  /\ privileged \in BOOLEAN /\ searchDue \in BOOLEAN
  /\ fetches \in [Fetches -> {"unused", "sent", "answered", "done"}]
=============================================================================
