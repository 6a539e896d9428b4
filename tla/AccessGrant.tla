---------------------------- MODULE AccessGrant ----------------------------
(***************************************************************************)
(* What the operator promises about access, without reconciler, caches,    *)
(* queues or status: a JitRequest opens a grant, which may be accepted.    *)
(* Access is given in its namespaces no earlier than its start, and only   *)
(* when it was accepted.  A grant that was accepted is in force until the  *)
(* end of its window, and what access it gives with it, unless the grant   *)
(* is withdrawn or the namespace goes; one that was not may be refused.    *)
(***************************************************************************)
EXTENDS Integers

CONSTANTS Requests, Namespaces

VARIABLES
  now,          \* the clock
  window,       \* window[r][k].start and .end of the k-th grant of r
  issued,       \* issued[r]: how many grants were opened for r
  open,         \* the grants in force, <<r, number>>
  accepted,     \* those of them that were accepted
  access,       \* the access given, [req, ns, owner]
  withdrawals,  \* how many grants were withdrawn
  evictions     \* how many namespaces were deleted

vars == <<now, window, issued, open, accepted, access, withdrawals, evictions>>

Init ==
  /\ now = 0
  /\ issued = [r \in Requests |-> 0]
  /\ open = {}
  /\ accepted = {}
  /\ access = {}
  /\ withdrawals = 0
  /\ evictions = 0

WindowOf(g) == window[g[1]][g[2]]

Advance ==
  /\ now' = now + 1
  /\ UNCHANGED <<window, issued, open, accepted, access, withdrawals, evictions>>

Open(r) ==
  /\ ~\E g \in open : g[1] = r
  /\ issued' = [issued EXCEPT ![r] = @ + 1]
  /\ open' = open \union {<<r, issued'[r]>>}
  /\ UNCHANGED <<now, window, accepted, access, withdrawals, evictions>>

Accept(g) ==
  /\ accepted' = accepted \union {g}
  /\ UNCHANGED <<now, window, issued, open, access, withdrawals, evictions>>

\* Access is only given to an accepted grant, or to one that was withdrawn a moment ago.
Give(g, n) ==
  /\ g \in open => g \in accepted
  /\ WindowOf(g).start <= now
  /\ ~\E a \in access : a.req = g[1] /\ a.ns = n
  /\ access' = access \union {[req |-> g[1], ns |-> n, owner |-> g[2]]}
  /\ UNCHANGED <<now, window, issued, open, accepted, withdrawals, evictions>>

Remove(g) ==
  /\ open' = open \ {g}
  /\ accepted' = accepted \ {g}

\* An accepted grant ends when its window does; one that was not may be refused.
Close(g) ==
  /\ g \in accepted => WindowOf(g).end <= now
  /\ Remove(g)
  /\ UNCHANGED <<now, window, issued, access, withdrawals, evictions>>

Withdraw(g) ==
  /\ Remove(g)
  /\ withdrawals' = withdrawals + 1
  /\ UNCHANGED <<now, window, issued, access, evictions>>

Revoke(a) ==
  /\ <<a.req, a.owner>> \notin open
  /\ access' = access \ {a}
  /\ UNCHANGED <<now, window, issued, open, accepted, withdrawals, evictions>>

Evict(n) ==
  /\ access' = {a \in access : a.ns # n}
  /\ evictions' = evictions + 1
  /\ UNCHANGED <<now, window, issued, open, accepted, withdrawals>>

Next ==
  \/ Advance
  \/ \E r \in Requests : Open(r)
  \/ \E r \in Requests, n \in Namespaces : \E k \in 1 .. issued[r] : Give(<<r, k>>, n)
  \/ \E g \in open : Accept(g) \/ Close(g) \/ Withdraw(g)
  \/ \E a \in access : Revoke(a)
  \/ \E n \in Namespaces : Evict(n)

Spec == Init /\ [][Next]_vars
=============================================================================
