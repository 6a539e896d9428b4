------------------------ MODULE MCJitRequestOperator ------------------------
(***************************************************************************)
(* Small instances of JitRequestOperator.                                  *)
(***************************************************************************)
EXTENDS JitRequestOperator, TLC

CONSTANTS n1, n2, n3, edit, admin

\* edit is an allowed role, admin is not; n1 and n2 match the regex, n3 does not.
MatchingNamespaces == {n1, n2}
AllNamespaces == {n1, n2, n3}
OneRole == {edit}
TwoRoles == {edit, admin}

SpecOf(role, ns, start, end) == [role |-> role, namespaces |-> ns, start |-> start, end |-> end]

\* A window that has a length and one that has none and starts later; a role that is
\* not allowed and a namespace that is not.
MCSpecs ==
  {SpecOf(edit, {n1, n2}, 1, 2), SpecOf(edit, {n1, n2}, 2, 2),
   SpecOf(admin, {n1, n2}, 1, 2), SpecOf(edit, {n3}, 1, 2)}

\* A window that ends early and one that starts late.
TwoWindows == {SpecOf(edit, {n1, n2}, 1, 1), SpecOf(edit, {n1, n2}, 2, 3)}

\* One window over both namespaces.
OneSpec == {SpecOf(edit, {n1, n2}, 1, 2)}

\* Windows of different length, one that ends before it starts, and a rejected role.
LiveSpecs ==
  {SpecOf(edit, {n1, n2}, 1, 2), SpecOf(edit, {n1}, 1, 3), SpecOf(edit, {n1}, 2, 1),
   SpecOf(admin, {n1}, 1, 2)}

\* n1 and n2 are interchangeable in MCSpecs and OneSpec.
NamespaceSymmetry == Permutations({n1, n2})
=============================================================================
