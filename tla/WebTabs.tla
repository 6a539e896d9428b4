------------------------------ MODULE WebTabs ------------------------------
(***************************************************************************)
(* The page of a user who is logged in (App.tsx): the request, history and *)
(* admin tabs side by side.  They share the loader and the choice of the   *)
(* tab, and stay mounted when they are not shown, so that timers and       *)
(* answers of a hidden tab still act.  ApproveTab models the fourth tab.   *)
(***************************************************************************)
EXTENDS RequestForm, HistoryTab, AdminTab

vars == <<formVars, historyVars, adminVars, tabs, loadingInCard>>

Init == AppTabsInit /\ FormInit /\ HistoryInit /\ AdminInit

\* What is behind a dialog is out of reach; a redirection may bring the history
\* tab behind one.
NoDialog == ~showModal /\ ~showConfirm

\* The link of the admin tab is there once the permissions say so.
SelectTab(t) ==
  /\ NoDialog /\ t # activeTab
  /\ t = "admin" => privileged
  /\ activeTab' = t /\ effectDue' = TRUE
  /\ UNCHANGED <<formVars, historyVars, adminVars, originTab, loadingInCard>>

Form == FormNext /\ UNCHANGED <<historyVars, adminVars>>
History == ((HistoryUser /\ NoDialog) \/ HistoryPage) /\ UNCHANGED <<formVars, adminVars>>
Admin == AdminNext /\ UNCHANGED <<formVars, historyVars>>

Next ==
  \/ \E t \in Pages : SelectTab(t)
  \/ Form \/ History \/ Admin

Spec == Init /\ [][Next]_vars
-----------------------------------------------------------------------------
\* The variables of the tabs keep their types.
TypeOK == AppTabsTypeOK /\ FormTypeOK /\ HistoryTypeOK /\ AdminTypeOK

\* The card does not show the loader when no call of these tabs is in flight, in
\* whatever order the answers of their calls come and fail.
LoaderMeansCall == loadingInCard => FormCalls # {} \/ HistoryCalls # {} \/ AdminCalls # {}

\* The history tab searches on its own because of a submission only, by a render that
\* comes between its two timers: not when the user opens the tab, nor later when the
\* criteria or the permissions change.
OnlySubmissionsSearch ==
  [][RenderSearches => \E p \in Posts : posts[p] = "resetting"]_vars
=============================================================================
