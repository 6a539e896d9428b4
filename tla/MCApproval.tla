----------------------------- MODULE MCApproval -----------------------------
(***************************************************************************)
(* Small instances of Approval: two namespaces owned by two groups, one or *)
(* two approvers for each, an admin.                                       *)
(***************************************************************************)
EXTENDS Approval, TLC

CONSTANTS n1, n2, g1, g2, ann, amy, bob, root

TwoNamespaces == {n1, n2}
TwoGroups == {g1, g2}
Owners == n1 :> g1 @@ n2 :> g2

\* Two approvers for the first group.
Team == {ann, amy, bob}
TeamGroups == ann :> {g1} @@ amy :> {g1} @@ bob :> {g2}

\* One approver for each group and an admin.
Staff == {ann, bob, root}
StaffGroups == ann :> {g1} @@ bob :> {g2} @@ root :> {}

TheAdmins == {root}
NoAdmins == {}
=============================================================================
