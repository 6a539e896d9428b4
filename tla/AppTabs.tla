------------------------------ MODULE AppTabs ------------------------------
(* What App.tsx hands down to its tabs: which one is shown, and the loader. *)
(* The fourth tab, approve, is a module of its own (ApproveTab).            *)

VARIABLES
  activeTab,     \* the tab that is shown
  originTab,     \* "request" while the request tab opens the history tab
  effectDue,     \* the effect of the history tab waits for the render of a change
  loadingInCard  \* the loader over the card

tabs == <<activeTab, originTab, effectDue>>

Pages == {"request", "history", "admin"}

AppTabsInit ==
  activeTab = "request" /\ originTab = "none" /\ effectDue = FALSE /\ loadingInCard = FALSE

AppTabsTypeOK ==
  /\ activeTab \in Pages /\ originTab \in {"none", "request"}
  /\ effectDue \in BOOLEAN /\ loadingInCard \in BOOLEAN
=============================================================================
