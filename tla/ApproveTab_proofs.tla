------------------------- MODULE ApproveTab_proofs -------------------------
(***************************************************************************)
(* Safety of ApproveTab for every set of requests, columns and filters and *)
(* every bound.  The argument: an open dialog always has its action, what  *)
(* the payload is filtered from is what the dialog lists, and a record of  *)
(* posts keeps the relation of what was confirmed, sent and decided from   *)
(* the click to the report (PostOK).                                       *)
(***************************************************************************)
EXTENDS ApproveTab, TLAPS

DialogOK == showConfirmModal => confirmAction \in Decisions

PostOK(q) ==
  /\ q.requests = q.confirmed /\ q.status = q.heading
  /\ q.done \subseteq q.requests
  /\ q.pc = "answered" /\ q.outcome = "ok" => q.done = q.requests

PostsOK == \A p \in Posts : PostOK(posts[p])

\* The inductive invariant.
IInv == TypeOK /\ DialogOK /\ PostsOK
-----------------------------------------------------------------------------
(* The records *)

\* A post that is not in flight, and the two of get.
LEMMA RecordTypes ==
  /\ \A s \in {"unused", "succeeded", "failed"} : [NoPost EXCEPT !.pc = s] \in Post
  /\ NoPost \in Post /\ NoGet \in Get /\ NewGet \in Get
  BY DEF NoPost, NoGet, NewGet, Post, Get, Decisions, Outcomes

\* Nothing is claimed of a post that is not in flight.
LEMMA RecordsOK ==
  PostOK(NoPost) /\ \A s \in {"succeeded", "failed"} : PostOK([NoPost EXCEPT !.pc = s])
  BY DEF NoPost, PostOK

\* Changing one post to a record of the type, with what is claimed of it, keeps all.
LEMMA PostChanged ==
  ASSUME TypeOK, PostsOK, NEW p \in Posts, NEW q \in Post, PostOK(q),
         posts' = [posts EXCEPT ![p] = q]
  PROVE  posts' \in [Posts -> Post] /\ PostsOK'
  BY DEF TypeOK, PostsOK, PostOK

\* The payload of a post is what the dialog shows, under its heading.
LEMMA Confirmed ==
  ASSUME TypeOK, DialogOK, showConfirmModal,
         NEW q, q = [pc |-> "sent", requests |-> Payload, status |-> confirmAction,
                     selected |-> selectedRequests, done |-> {}, outcome |-> "none",
                     confirmed |-> DialogRows, heading |-> DialogHeading]
  PROVE  q \in Post /\ PostOK(q)
<1>1. Payload \subseteq Requests /\ DialogRows = Payload
  BY DEF TypeOK, Payload, DialogRows
<1>2. confirmAction \in Decisions /\ DialogHeading = confirmAction
  BY DEF DialogOK, DialogHeading, Decisions
<1> QED BY <1>1, <1>2 DEF TypeOK, Post, PostOK, Outcomes

\* An answer adds what was decided to a post that was sent.
LEMMA Answered ==
  ASSUME TypeOK, PostsOK, NEW p \in Posts, NEW done \in SUBSET posts[p].requests,
         NEW outcome \in Outcomes, outcome = "ok" => done = posts[p].requests,
         NEW q, q = [posts[p] EXCEPT !.pc = "answered", !.done = done, !.outcome = outcome]
  PROVE  q \in Post /\ PostOK(q)
<1>1. posts[p] \in Post /\ PostOK(posts[p])
  BY DEF TypeOK, PostsOK
<1>2. done \in SUBSET Requests
  BY <1>1 DEF Post
<1> QED BY <1>1, <1>2 DEF Post, PostOK, Outcomes
-----------------------------------------------------------------------------
(* The inductive invariant *)

LEMMA InitOK == Init => IInv
<1> SUFFICES ASSUME Init PROVE IInv
  OBVIOUS
<1>1. TypeOK
  BY RecordTypes DEF Init, TypeOK, Posts
<1>2. DialogOK
  BY DEF Init, DialogOK
<1>3. PostsOK
  BY RecordsOK DEF Init, PostsOK
<1> QED BY <1>1, <1>2, <1>3 DEF IInv

\* The API answers a call of the page.
LEMMA ApiStep == IInv /\ Api => IInv'
<1> SUFFICES ASSUME IInv, Api PROVE IInv'
  OBVIOUS
<1> USE DEF IInv, table, dialog
<1>1. CASE SessionEnds
  BY <1>1 DEF SessionEnds, TypeOK, DialogOK, PostsOK, PostOK
<1>2. CASE GetPendingApprovals
  <2>1. get' \in Get
    BY <1>2 DEF GetPendingApprovals, Get, Outcomes
  <2> QED BY <1>2, <2>1 DEF GetPendingApprovals, TypeOK, DialogOK, PostsOK, PostOK
<1>3. CASE GetFails
  <2>1. get' \in Get
    BY <1>3 DEF GetFails, Get, Outcomes
  <2> QED BY <1>3, <2>1 DEF GetFails, TypeOK, DialogOK, PostsOK, PostOK
<1>4. ASSUME NEW p \in Posts, ApproveOrRejectRequests(p) PROVE IInv'
  <2>1. posts' \in [Posts -> Post] /\ PostsOK'
    <3>1. CASE session
      <4>1. PICK done \in SUBSET posts[p].requests :
              posts' = [posts EXCEPT ![p].pc = "answered", ![p].done = done,
                                     ![p].outcome = Answer(posts[p].requests, done)]
        BY <1>4, <3>1 DEF ApproveOrRejectRequests
      <4> DEFINE q == [posts[p] EXCEPT !.pc = "answered", !.done = done,
                                       !.outcome = Answer(posts[p].requests, done)]
      <4>2. q \in Post /\ PostOK(q)
        BY Answered DEF Answer, Outcomes
      <4>3. posts' = [posts EXCEPT ![p] = q]
        BY <4>1
      <4> HIDE DEF q
      <4> QED BY <4>2, <4>3, PostChanged
    <3>2. CASE ~session
      <4> DEFINE q == [posts[p] EXCEPT !.pc = "answered", !.outcome = "unauthorized"]
      <4>0. posts[p] \in Post /\ PostOK(posts[p])
        BY DEF TypeOK, PostsOK
      <4>1. q \in Post /\ PostOK(q)
        BY <4>0 DEF Post, PostOK, Outcomes
      <4>2. posts' = [posts EXCEPT ![p] = q]
        BY <1>4, <3>2 DEF ApproveOrRejectRequests
      <4> HIDE DEF q
      <4> QED BY <4>1, <4>2, PostChanged
    <3> QED BY <3>1, <3>2
  <2> QED BY <1>4, <2>1 DEF ApproveOrRejectRequests, TypeOK, DialogOK
<1>5. ASSUME NEW p \in Posts, PostReplyLost(p) PROVE IInv'
  <2>1. posts' \in [Posts -> Post] /\ PostsOK'
    <3>1. PICK done \in SUBSET posts[p].requests :
            posts' = [posts EXCEPT ![p].pc = "answered", ![p].done = done,
                                   ![p].outcome = "error"]
      BY <1>5 DEF PostReplyLost
    <3> DEFINE q == [posts[p] EXCEPT !.pc = "answered", !.done = done, !.outcome = "error"]
    <3>2. q \in Post /\ PostOK(q)
      BY Answered DEF Outcomes
    <3>3. posts' = [posts EXCEPT ![p] = q]
      BY <3>1
    <3> HIDE DEF q
    <3> QED BY <3>2, <3>3, PostChanged
  <2> QED BY <1>5, <2>1 DEF PostReplyLost, TypeOK, DialogOK
<1> QED BY <1>1, <1>2, <1>3, <1>4, <1>5 DEF Api

\* The user clicks or types.
LEMMA UserStep == IInv /\ User => IInv'
<1> SUFFICES ASSUME IInv, User PROVE IInv'
  OBVIOUS
<1> USE DEF IInv, table, dialog
<1>1. ASSUME NEW c \in Columns, ChangeFilter(c) PROVE IInv'
  BY <1>1 DEF ChangeFilter, TypeOK, DialogOK, PostsOK, PostOK
<1>2. CASE ClearFilters
  BY <1>2 DEF ClearFilters, TypeOK, DialogOK, PostsOK, PostOK
<1>3. ASSUME NEW r \in Requests, SelectRequest(r) PROVE IInv'
  BY <1>3 DEF SelectRequest, TypeOK, DialogOK, PostsOK, PostOK
<1>4. CASE Refresh
  <2>1. refreshes' \in Nat
    BY <1>4 DEF Refresh, TypeOK
  <2> QED BY <1>4, <2>1, RecordTypes DEF Refresh, TypeOK, DialogOK, PostsOK, PostOK
<1>5. ASSUME NEW action \in Decisions, Ask(action) PROVE IInv'
  BY <1>5 DEF Ask, TypeOK, DialogOK, PostsOK, PostOK
<1>6. CASE Cancel
  BY <1>6 DEF Cancel, TypeOK, DialogOK, PostsOK, PostOK
<1>7. ASSUME NEW p \in Posts, Confirm(p) PROVE IInv'
  <2> DEFINE q == [pc |-> "sent", requests |-> Payload, status |-> confirmAction,
                   selected |-> selectedRequests, done |-> {}, outcome |-> "none",
                   confirmed |-> DialogRows, heading |-> DialogHeading]
  <2>1. posts' = [posts EXCEPT ![p] = q] /\ showConfirmModal
    BY <1>7 DEF Confirm
  <2>2. q \in Post /\ PostOK(q)
    BY <2>1, Confirmed
  <2> HIDE DEF q
  <2>3. posts' \in [Posts -> Post] /\ PostsOK'
    BY <2>1, <2>2, PostChanged
  <2> QED BY <1>7, <2>3 DEF Confirm, TypeOK, DialogOK
<1> QED BY <1>1, <1>2, <1>3, <1>4, <1>5, <1>6, <1>7 DEF User

\* The page handles an answer, or is left.
LEMMA PageStep == IInv /\ Page => IInv'
<1> SUFFICES ASSUME IInv, Page PROVE IInv'
  OBVIOUS
<1> USE DEF IInv, table, dialog
<1>1. CASE FetchDone
  BY <1>1, RecordTypes DEF FetchDone, FiltersOf, Leave, TypeOK, Get, DialogOK, PostsOK, PostOK
<1>2. ASSUME NEW p \in Posts, PostSucceeds(p) PROVE IInv'
  <2> DEFINE q == [NoPost EXCEPT !.pc = "succeeded"]
  <2>1. posts' = [posts EXCEPT ![p] = q]
    BY <1>2 DEF PostSucceeds
  <2>2. q \in Post /\ PostOK(q)
    BY RecordTypes, RecordsOK
  <2> HIDE DEF q
  <2>3. posts' \in [Posts -> Post] /\ PostsOK'
    BY <2>1, <2>2, PostChanged
  <2> QED BY <1>2, <2>3 DEF PostSucceeds, FiltersOf, Leave, TypeOK, DialogOK
<1>3. ASSUME NEW p \in Posts, PostFails(p) PROVE IInv'
  <2> DEFINE q == [NoPost EXCEPT !.pc = "failed"]
  <2>1. posts' = [posts EXCEPT ![p] = q]
    BY <1>3 DEF PostFails
  <2>2. q \in Post /\ PostOK(q)
    BY RecordTypes, RecordsOK
  <2> HIDE DEF q
  <2>3. posts' \in [Posts -> Post] /\ PostsOK'
    BY <2>1, <2>2, PostChanged
  <2> QED BY <1>3, <2>3 DEF PostFails, TypeOK, DialogOK
<1>4. CASE Unload
  <2>1. TypeOK'
    BY <1>4, RecordTypes DEF Unload, TypeOK
  <2>2. DialogOK' /\ PostsOK'
    BY <1>4, RecordsOK DEF Unload, DialogOK, PostsOK, PostOK
  <2> QED BY <2>1, <2>2
<1> QED BY <1>1, <1>2, <1>3, <1>4 DEF Page

\* A step that changes nothing keeps the invariant.
LEMMA Stutter == IInv /\ UNCHANGED vars => IInv'
  BY DEF IInv, vars, table, dialog, TypeOK, DialogOK, PostsOK, PostOK

\* The invariant holds throughout: an open dialog has its action, and every post
\* relates what was confirmed, sent and decided.
THEOREM Inductive == Spec => []IInv
<1>1. IInv /\ [Next]_vars => IInv'
  BY ApiStep, UserStep, PageStep, Stutter DEF Next
<1> QED BY <1>1, InitOK, PTL DEF Spec
-----------------------------------------------------------------------------
(* Theorems *)

\* An answer to one post leaves the others alone, and the post in flight.
LEMMA AnswerOnly ==
  ASSUME posts \in [Posts -> Post], NEW o \in Posts, NEW p \in Posts,
         ApproveOrRejectRequests(o) \/ PostReplyLost(o)
  PROVE  posts'[o].pc = "answered" /\ (p # o => posts'[p] = posts[p])
<1>1. PICK done, outcome :
        posts' = [posts EXCEPT ![o].pc = "answered", ![o].done = done, ![o].outcome = outcome]
  <2>1. CASE ApproveOrRejectRequests(o) /\ session
    BY <2>1 DEF ApproveOrRejectRequests
  <2>2. CASE ApproveOrRejectRequests(o) /\ ~session
    <3>1. posts' = [posts EXCEPT ![o].pc = "answered", ![o].outcome = "unauthorized"]
      BY <2>2 DEF ApproveOrRejectRequests
    <3>2. posts' = [posts EXCEPT ![o].pc = "answered", ![o].done = posts[o].done,
                                 ![o].outcome = "unauthorized"]
      BY <3>1 DEF Post
    <3> QED BY <3>2
  <2>3. CASE PostReplyLost(o)
    BY <2>3 DEF PostReplyLost
  <2> QED BY <2>1, <2>2, <2>3
<1> QED BY <1>1 DEF Post

\* The variables of the approve tab keep their types: in particular, the status of
\* every payload is a decision, because no dialog opens without its action.
THEOREM TypeCorrect == Spec => []TypeOK
<1>1. IInv => TypeOK
  BY DEF IInv
<1> QED BY <1>1, Inductive, PTL

\* Whatever the API decides for this page was listed in the confirmed dialog, under
\* the heading of that decision.
THEOREM ConfirmedOnly == Spec => []DecidedAsConfirmed
<1>1. IInv => DecidedAsConfirmed
  BY DEF IInv, PostsOK, PostOK, DecidedAsConfirmed
<1> QED BY <1>1, Inductive, PTL

\* Success is reported of calls only that decided all of their requests, unless the
\* answer is a 401.
THEOREM ReportsAreTrue == Spec => ReportedIsDecided
<1>1. IInv /\ [Next]_vars =>
        [\A p \in Posts :
           posts[p].pc # "succeeded" /\ posts'[p].pc = "succeeded"
             => posts[p].done = posts[p].requests \/ posts[p].outcome = "unauthorized"]_vars
  <2> SUFFICES ASSUME IInv, Next, NEW p \in Posts,
                      posts[p].pc # "succeeded", posts'[p].pc = "succeeded"
               PROVE  posts[p].done = posts[p].requests \/ posts[p].outcome = "unauthorized"
    OBVIOUS
  <2>1. PostOK(posts[p]) /\ posts \in [Posts -> Post]
    BY DEF IInv, PostsOK, TypeOK
  <2>2. CASE PostSucceeds(p)
    BY <2>1, <2>2 DEF PostSucceeds, PostOK
  <2>3. ~PostSucceeds(p) => FALSE
    <3> SUFFICES ASSUME ~PostSucceeds(p) PROVE FALSE
      OBVIOUS
    <3>1. CASE Api
      <4>1. ASSUME NEW o \in Posts, ApproveOrRejectRequests(o) \/ PostReplyLost(o) PROVE FALSE
        <5>1. posts'[o].pc = "answered" /\ (p # o => posts'[p] = posts[p])
          BY <2>1, <4>1, AnswerOnly
        <5> QED BY <5>1
      <4>2. SessionEnds \/ GetPendingApprovals \/ GetFails => FALSE
        BY DEF SessionEnds, GetPendingApprovals, GetFails
      <4> QED BY <3>1, <4>1, <4>2 DEF Api
    <3>2. CASE User
      BY <2>1, <3>2 DEF User, ChangeFilter, ClearFilters, SelectRequest, Refresh, Ask,
                        Cancel, Confirm, Post
    <3>3. CASE Page
      <4>1. ASSUME NEW o \in Posts, PostSucceeds(o) PROVE FALSE
        BY <2>1, <4>1 DEF PostSucceeds
      <4>2. ASSUME NEW o \in Posts, PostFails(o) PROVE FALSE
        BY <2>1, <4>2 DEF PostFails, NoPost
      <4>3. FetchDone \/ Unload => FALSE
        BY <2>1 DEF FetchDone, Unload, NoPost
      <4> QED BY <3>3, <4>1, <4>2, <4>3 DEF Page
    <3> QED BY <3>1, <3>2, <3>3 DEF Next
  <2> QED BY <2>2, <2>3
<1> QED BY <1>1, Inductive, PTL DEF Spec, ReportedIsDecided

\* The loader is not shown when no call of the page is in flight.
THEOREM LoaderEnds == Spec => []LoaderMeansCall
<1>1. Init => LoaderMeansCall
  BY DEF Init, LoaderMeansCall, NewGet, NoGet
<1>2. IInv /\ LoaderMeansCall /\ [Next]_vars => LoaderMeansCall'
  <2> SUFFICES ASSUME IInv, LoaderMeansCall, [Next]_vars PROVE LoaderMeansCall'
    OBVIOUS
  <2>0. posts \in [Posts -> Post]
    BY DEF IInv, TypeOK
  <2> USE DEF LoaderMeansCall, InFlight, table, dialog
  <2>1. CASE Api
    <3>1. CASE SessionEnds
      BY <3>1 DEF SessionEnds
    <3>2. CASE GetPendingApprovals \/ GetFails
      <4>1. get'.pc = "answered"
        BY <3>2 DEF GetPendingApprovals, GetFails
      <4> QED BY <4>1
    <3>3. ASSUME NEW p \in Posts, ApproveOrRejectRequests(p) \/ PostReplyLost(p)
          PROVE  LoaderMeansCall'
      <4>1. posts'[p].pc = "answered"
        BY <2>0, <3>3, AnswerOnly
      <4> QED BY <4>1
    <3> QED BY <2>1, <3>1, <3>2, <3>3 DEF Api
  <2>2. CASE User
    <3>1. ASSUME NEW p \in Posts, Confirm(p) PROVE LoaderMeansCall'
      BY <2>0, <3>1 DEF Confirm
    <3>2. CASE Refresh
      BY <3>2 DEF Refresh, NewGet, NoGet
    <3>3. CASE \/ \E c \in Columns : ChangeFilter(c)
               \/ ClearFilters \/ Cancel
               \/ \E r \in Requests : SelectRequest(r)
               \/ \E action \in Decisions : Ask(action)
      BY <3>3 DEF ChangeFilter, ClearFilters, Cancel, SelectRequest, Ask
    <3> QED BY <2>2, <3>1, <3>2, <3>3 DEF User
  <2>3. CASE Page
    BY <2>3 DEF Page, FetchDone, PostSucceeds, PostFails, Unload
  <2>4. CASE UNCHANGED vars
    BY <2>4 DEF vars
  <2> QED BY <2>1, <2>2, <2>3, <2>4 DEF Next
<1> QED BY <1>1, <1>2, Inductive, PTL DEF Spec
=============================================================================
