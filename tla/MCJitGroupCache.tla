-------------------------- MODULE MCJitGroupCache --------------------------
(* Small instances of JitGroupCache: two namespaces, two groups. *)
EXTENDS JitGroupCache

CONSTANTS n1, n2, g1, g2

TwoNamespaces == {n1, n2}
TwoGroups == {g1, g2}

Adopted(group) == [adopt |-> TRUE, group |-> group]

\* Labels and annotations come and go, one of the annotations alone too.
AnyState ==
  [adopt : BOOLEAN, group : TwoGroups] \union {Adopted(Partial)}

\* Namespaces are adopted with both annotations from the start, as in the tests.
AdoptedStates == {Adopted(g1), Adopted(g2)}
=============================================================================
