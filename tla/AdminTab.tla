------------------------------ MODULE AdminTab ------------------------------
(* The admin tab (AdminTabPane.tsx): cleaning expired requests, after a dialog. *)
EXTENDS Integers, AppTabs

CONSTANT MaxCleanups   \* bound: confirmed cleanings

ASSUME AdminAssumption == MaxCleanups \in Nat

VARIABLES
  showConfirm,
  cleanups      \* cleanups[i]: the i-th POST /admin/clean-expired

adminVars == <<showConfirm, cleanups>>
-----------------------------------------------------------------------------
Cleanups == 1..MaxCleanups

AdminInit == showConfirm = FALSE /\ cleanups = [i \in Cleanups |-> "unused"]

AskCleanup ==
  /\ activeTab = "admin" /\ ~showConfirm
  /\ showConfirm' = TRUE
  /\ UNCHANGED <<cleanups, tabs, loadingInCard>>

CancelCleanup ==
  /\ showConfirm
  /\ showConfirm' = FALSE
  /\ UNCHANGED <<cleanups, tabs, loadingInCard>>

\* handleCleanExpired, up to the await.
HandleCleanExpired(i) ==
  /\ showConfirm
  /\ cleanups[i] = "unused" /\ \A j \in 1..(i - 1) : cleanups[j] # "unused"
  /\ showConfirm' = FALSE
  /\ cleanups' = [cleanups EXCEPT ![i] = "sent"]
  /\ loadingInCard' = TRUE
  /\ UNCHANGED tabs

\* A result or an error is shown; finally, the loader ends.
CleanExpiredEnds(i) ==
  /\ cleanups[i] = "sent"
  /\ cleanups' = [cleanups EXCEPT ![i] = "done"]
  /\ loadingInCard' = FALSE
  /\ UNCHANGED <<showConfirm, tabs>>

AdminNext ==
  \/ AskCleanup \/ CancelCleanup
  \/ \E i \in Cleanups : HandleCleanExpired(i) \/ CleanExpiredEnds(i)

AdminCalls == {i \in Cleanups : cleanups[i] = "sent"}

AdminTypeOK == showConfirm \in BOOLEAN /\ cleanups \in [Cleanups -> {"unused", "sent", "done"}]
=============================================================================
