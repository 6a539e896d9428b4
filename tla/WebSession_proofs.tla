------------------------- MODULE WebSession_proofs -------------------------
(***************************************************************************)
(* Safety of WebSession for every bound.  The argument: of the two calls   *)
(* that log a user in, the profile and the exchange of a code, at most one *)
(* is in flight, only while the loader stands for login page and           *)
(* application, and the second only with its code in the address bar       *)
(* (LoginsOK); wherever one of them can come from, a provider is stored    *)
(* (ProviderOK); and signing out leaves no way in but a new code           *)
(* (SignedOutOK).                                                          *)
(***************************************************************************)
EXTENDS WebSession, TLAPS

LoginsOK ==
  /\ ~Idle("profile") => loading /\ ~login /\ ~data
  /\ ~Idle("callback") => loading /\ login /\ ~data /\ ~mounted /\ urlCode
  /\ ~Idle("signOut") => data
  /\ data => ~loading /\ ~login /\ ~urlCode
  /\ mounted => login
  /\ page \in {"loading", "provider"} => ~data /\ \A c \in Calls : Idle(c)

ProviderOK ==
  /\ ProviderKnown
  /\ Answered("profile", {"ok"}) => loginMethod
  /\ urlCode \/ page = "provider" \/ (mounted /\ clientID) => loginMethod

SignedOutOK == signedOut => ~tokenExpiry /\ Idle("profile") /\ (data => ~Idle("signOut"))

CodeOK ==
  /\ CodeSentOnce
  /\ page \in {"up", "leaving"} /\ urlCode /\ exchanges # 0 => ~Idle("callback")

\* The inductive invariant.
IInv == TypeOK /\ LoginsOK /\ ProviderOK /\ SignedOutOK /\ CodeOK

\* The parts of TypeOK.
Flags ==
  /\ cookie \in BOOLEAN /\ tokenExpiry \in BOOLEAN /\ loginMethod \in BOOLEAN
  /\ urlCode \in BOOLEAN /\ codeSpent \in BOOLEAN /\ signedOut \in BOOLEAN
  /\ data \in BOOLEAN /\ login \in BOOLEAN /\ loading \in BOOLEAN
  /\ mounted \in BOOLEAN /\ clientID \in BOOLEAN
Words ==
  page \in {"up", "leaving", "loading", "provider"} /\ role \in {"none", "approver"}
Numbers == exchanges \in 0..2 /\ logins \in Nat /\ reloads \in Nat
-----------------------------------------------------------------------------
(* The calls *)

\* Those that decide about the session; of the others the type is enough.
Kinds == {"profile", "callback", "signOut"}

\* What a step other than a reply makes of the calls: those of "sent" are new, those
\* of "over" are no more, the others are as they were.
CallsAfter(sent, over) ==
  /\ calls' \in [Calls -> Call]
  /\ \A d \in Calls : Idle(d)' <=> d \in over \/ (d \notin sent /\ Idle(d))
  /\ Answered("profile", {"ok"})' => Answered("profile", {"ok"})

\* No call, and one just sent, are of their type.
LEMMA CallTypes ==
  ASSUME TypeOK
  PROVE  NoCall \in Call /\ NewCall \in Call /\ NoCalls \in [Calls -> Call]
         /\ NoCall.pc = "idle" /\ NewCall.pc = "sent"
  BY DEF TypeOK, NoCall, NewCall, NoCalls, Call, Outcomes

\* A call is done.
LEMMA DoneCall ==
  ASSUME TypeOK, NEW c \in Calls, calls' = Done(c)
  PROVE  CallsAfter({}, {c})
<1>1. calls' \in [Calls -> Call] /\ \A d \in Calls : calls'[d] = IF d = c THEN NoCall ELSE calls[d]
  BY CallTypes DEF TypeOK, Done
<1>2. "profile" \in Calls
  BY DEF Calls
<1> QED BY <1>1, <1>2, CallTypes DEF CallsAfter, Idle, Answered

\* Calls are sent.
LEMMA SentCalls ==
  ASSUME TypeOK, NEW cs, calls' = Sending(cs)
  PROVE  CallsAfter(cs, {})
<1>1. calls' \in [Calls -> Call]
      /\ \A d \in Calls : calls'[d] = IF d \in cs THEN NewCall ELSE calls[d]
  BY CallTypes DEF TypeOK, Sending
<1>2. "profile" \in Calls
  BY DEF Calls
<1> QED BY <1>1, <1>2, CallTypes DEF CallsAfter, Idle, Answered

\* Calls are sent by the handler of one that is done.
LEMMA SentCallsDone ==
  ASSUME TypeOK, NEW cs, NEW c \in Calls, calls' = [Sending(cs) EXCEPT ![c] = NoCall]
  PROVE  CallsAfter(cs, {c})
<1>1. calls' \in [Calls -> Call]
      /\ \A d \in Calls : calls'[d] = IF d = c THEN NoCall
                                       ELSE IF d \in cs THEN NewCall ELSE calls[d]
  BY CallTypes DEF TypeOK, Sending
<1>2. "profile" \in Calls
  BY DEF Calls
<1> QED BY <1>1, <1>2, CallTypes DEF CallsAfter, Idle, Answered

\* The page goes.
LEMMA LostCalls ==
  ASSUME TypeOK, calls' = NoCalls
  PROVE  CallsAfter({}, Calls)
<1>1. "profile" \in Calls
  BY DEF Calls
<1> QED BY <1>1, CallTypes DEF CallsAfter, Idle, Answered, NoCalls

\* A reply changes its call only, and that one is answered.
LEMMA RepliedCall ==
  ASSUME TypeOK, NEW c \in Calls, NEW outcome \in Outcomes, Reply(c, outcome)
  PROVE  /\ calls' \in [Calls -> Call]
         /\ calls'[c].pc = "answered" /\ calls'[c].outcome = outcome
         /\ \A d \in Calls : d # c => calls'[d] = calls[d]
<1> DEFINE q == [calls[c] EXCEPT !.pc = "answered", !.outcome = outcome]
<1>1. calls[c] \in Call
  BY DEF TypeOK
<1>2. q \in Call /\ q.pc = "answered" /\ q.outcome = outcome
  BY <1>1 DEF Call
<1>3. calls' = [calls EXCEPT ![c] = q]
  BY DEF Reply
<1> HIDE DEF q
<1> QED BY <1>2, <1>3 DEF TypeOK
-----------------------------------------------------------------------------
(* The inductive invariant *)

LEMMA InitOK == Init => IInv
<1> SUFFICES ASSUME Init PROVE IInv
  OBVIOUS
<1>1. TypeOK
  <2>1. NoCalls \in [Calls -> Call]
    BY DEF NoCalls, NoCall, Call, Outcomes
  <2>2. calls \in [Calls -> Call] /\ exchanges \in 0..2 /\ logins \in Nat /\ reloads \in Nat
    BY <2>1 DEF Init
  <2>3. /\ cookie \in BOOLEAN /\ tokenExpiry \in BOOLEAN /\ loginMethod \in BOOLEAN
        /\ urlCode \in BOOLEAN /\ codeSpent \in BOOLEAN /\ signedOut \in BOOLEAN
        /\ data \in BOOLEAN /\ login \in BOOLEAN /\ loading \in BOOLEAN
        /\ mounted \in BOOLEAN /\ clientID \in BOOLEAN
    BY DEF Init
  <2>4. page \in {"up", "leaving", "loading", "provider"} /\ role \in {"none", "approver"}
    BY DEF Init
  <2> QED BY <2>2, <2>3, <2>4 DEF TypeOK
<1>2. (\A c \in Calls : Idle(c) /\ ~Answered(c, {"ok"})) /\ Kinds \subseteq Calls
  BY DEF Init, NoCalls, NoCall, Kinds, Calls, Idle, Answered
<1>3. LoginsOK
  BY <1>2 DEF Init, LoginsOK, Kinds
<1>4. ProviderOK
  BY <1>2 DEF Init, ProviderOK, ProviderKnown, Kinds
<1>5. SignedOutOK /\ CodeOK
  BY <1>2 DEF Init, SignedOutOK, CodeOK, CodeSentOnce, Kinds
<1> QED BY <1>1, <1>3, <1>4, <1>5 DEF IInv

\* A step that leaves calls, page and login alone leaves the invariant.
LEMMA CallsKept ==
  ASSUME IInv, cookie' \in BOOLEAN, tokenExpiry' \in BOOLEAN, tokenExpiry' => tokenExpiry,
         UNCHANGED <<loginMethod, url, page, state, calls, exchanges, signedOut, counters>>
  PROVE  IInv'
<1> USE DEF url, state, counters
<1>1. TypeOK'
  BY DEF IInv, TypeOK
<1>2. LoginsOK'
  BY DEF IInv, LoginsOK, Idle
<1>3. ProviderOK'
  BY DEF IInv, ProviderOK, ProviderKnown, Idle, Answered
<1>4. SignedOutOK' /\ CodeOK'
  BY DEF IInv, TypeOK, SignedOutOK, CodeOK, CodeSentOnce, Idle
<1> QED BY <1>1, <1>2, <1>3, <1>4 DEF IInv

\* A reply leaves the invariant: whether a call is in flight does not change by it,
\* and a profile is only had with a provider.
LEMMA ReplyKeeps ==
  ASSUME IInv, NEW c \in Calls, NEW outcome \in Outcomes, Reply(c, outcome),
         calls[c].pc = "sent",
         c = "profile" /\ outcome = "ok" => loginMethod,
         cookie' \in BOOLEAN, codeSpent' \in BOOLEAN,
         UNCHANGED <<storage, urlCode, page, state, exchanges, signedOut, counters>>
  PROVE  IInv'
<1>1. /\ calls' \in [Calls -> Call]
      /\ calls'[c].pc = "answered" /\ calls'[c].outcome = outcome
      /\ \A d \in Calls : d # c => calls'[d] = calls[d]
  BY RepliedCall DEF IInv
<1>2. \A d \in Calls : Idle(d)' <=> Idle(d)
  BY <1>1 DEF Idle
<1>3. Kinds \subseteq Calls
  BY DEF Kinds, Calls
<1>4. TypeOK'
  BY <1>1 DEF IInv, TypeOK, storage, state, counters
<1>5. LoginsOK' /\ SignedOutOK' /\ CodeOK'
  BY <1>2, <1>3 DEF IInv, LoginsOK, SignedOutOK, CodeOK, CodeSentOnce, Kinds, storage, state
<1>6. Answered("profile", {"ok"})' => loginMethod
  BY <1>1, <1>3 DEF IInv, ProviderOK, Answered, Kinds
<1>7. ProviderOK'
  BY <1>2, <1>3, <1>6 DEF IInv, ProviderOK, ProviderKnown, Kinds, storage, state
<1> QED BY <1>4, <1>5, <1>7 DEF IInv

\* The API answers, and the cookie or what is stored expires.
LEMMA EnvironmentStep ==
  ASSUME IInv,
         \/ SessionEnds \/ TokenExpires \/ GetOauthClientId \/ OauthCallback
         \/ \E c \in Calls : Api(c)
  PROVE  IInv'
<1> USE DEF url
<1>0. {"client", "callback"} \subseteq Calls /\ cookie \in BOOLEAN /\ codeSpent \in BOOLEAN
  BY DEF IInv, TypeOK, Calls
<1>1. CASE SessionEnds
  BY <1>0, <1>1, CallsKept DEF SessionEnds, storage, IInv, TypeOK
<1>2. CASE TokenExpires
  BY <1>0, <1>2, CallsKept DEF TokenExpires, IInv, TypeOK
<1>3. CASE GetOauthClientId
  BY <1>0, <1>3, ReplyKeeps DEF GetOauthClientId, Outcomes
<1>4. CASE OauthCallback
  BY <1>0, <1>4, ReplyKeeps DEF OauthCallback, Outcomes
<1>5. ASSUME NEW c \in Calls, AnswerBehindAuth(c) PROVE IInv'
  <2>1. PICK outcome \in Behind(c) :
          /\ Reply(c, outcome)
          /\ cookie' \in {cookie, cookie \/ (c = "permissions" /\ outcome = "ok")}
    BY <1>5 DEF AnswerBehindAuth
  <2>2. outcome \in Outcomes
    BY <1>5, <2>1 DEF AnswerBehindAuth, Behind, Outcomes
  <2> QED BY <1>0, <1>5, <2>1, <2>2, ReplyKeeps DEF AnswerBehindAuth
<1>6. ASSUME NEW c \in Calls, Logout(c) PROVE IInv'
  <2>1. cookie' \in BOOLEAN
    BY <1>0, <1>6 DEF Logout
  <2> QED BY <1>0, <1>6, <2>1, ReplyKeeps DEF Logout, Outcomes
<1>7. ASSUME NEW c \in Calls, CallFails(c) PROVE IInv'
  <2>1. codeSpent' \in BOOLEAN /\ cookie' \in BOOLEAN
    BY <1>0, <1>7 DEF CallFails
  <2> QED BY <1>0, <1>7, <2>1, ReplyKeeps DEF CallFails, Outcomes
<1> QED BY <1>1, <1>2, <1>3, <1>4, <1>5, <1>6, <1>7 DEF Api
-----------------------------------------------------------------------------
(* The page *)

\* The page is loaded, mounted, left.
LEMMA LoadStep ==
  ASSUME IInv, Mount \/ MountLogin \/ Unload
  PROVE  IInv'
<1> USE DEF storage, url, state, counters
<1>0. Kinds \cup {"client", "permissions", "work", "logout"} \subseteq Calls /\ TypeOK /\ IInv
  BY DEF Kinds, Calls, IInv
<1>1. CASE Mount
  <2>1. CallsAfter(IF tokenExpiry THEN {"profile"} ELSE {}, {})
    <3>1. CASE tokenExpiry
      BY <1>0, <1>1, <3>1, SentCalls DEF Mount
    <3>2. CASE ~tokenExpiry
      BY <1>0, <1>1, <3>2 DEF Mount, CallsAfter, TypeOK, Idle, Answered
    <3> QED BY <3>1, <3>2
  <2>2. Flags'
    BY <1>0, <1>1 DEF Mount, TypeOK, Flags
  <2>3. Words'
    BY <1>0, <1>1 DEF Mount, TypeOK, Words
  <2>4. Numbers'
    BY <1>0, <1>1 DEF Mount, TypeOK, Numbers
  <2>5. TypeOK'
    BY <2>1, <2>2, <2>3, <2>4 DEF TypeOK, Flags, Words, Numbers, CallsAfter
  <2>6. LoginsOK'
    BY <1>0, <1>1, <2>1 DEF Mount, TypeOK, IInv, LoginsOK, CallsAfter, Kinds
  <2>7. ProviderOK'
    BY <1>0, <1>1, <2>1
       DEF Mount, TypeOK, IInv, ProviderOK, ProviderKnown, LoginsOK, CallsAfter, Kinds
  <2>8. SignedOutOK'
    BY <1>0, <1>1, <2>1
       DEF Mount, TypeOK, IInv, SignedOutOK, LoginsOK, CallsAfter, Kinds
  <2>9. CodeOK'
    BY <1>0, <1>1, <2>1
       DEF Mount, TypeOK, IInv, CodeOK, CodeSentOnce, LoginsOK, CallsAfter, Kinds
  <2> QED BY <2>5, <2>6, <2>7, <2>8, <2>9 DEF IInv
<1>2. CASE MountLogin
  <2>1. CallsAfter(IF urlCode THEN {"client", "callback"} ELSE {"client"}, {})
    BY <1>0, <1>2, SentCalls DEF MountLogin, ShowsLogin
  <2>2. Flags'
    BY <1>0, <1>2 DEF MountLogin, ShowsLogin, TypeOK, Flags
  <2>3. Words'
    BY <1>0, <1>2 DEF MountLogin, ShowsLogin, TypeOK, Words
  <2>4. Numbers'
    BY <1>0, <1>2 DEF MountLogin, ShowsLogin, TypeOK, Numbers
  <2>5. TypeOK'
    BY <2>1, <2>2, <2>3, <2>4 DEF TypeOK, Flags, Words, Numbers, CallsAfter
  <2>6. LoginsOK'
    BY <1>0, <1>2, <2>1
       DEF MountLogin, ShowsLogin, TypeOK, IInv, LoginsOK, CallsAfter, Kinds
  <2>7. ProviderOK'
    BY <1>0, <1>2, <2>1
       DEF MountLogin, ShowsLogin, TypeOK, IInv, ProviderOK, ProviderKnown, LoginsOK, CallsAfter, Kinds
  <2>8. SignedOutOK'
    BY <1>0, <1>2, <2>1
       DEF MountLogin, ShowsLogin, TypeOK, IInv, SignedOutOK, LoginsOK, CallsAfter, Kinds
  <2>9. CodeOK'
    BY <1>0, <1>2, <2>1
       DEF MountLogin, ShowsLogin, TypeOK, IInv, CodeOK, CodeSentOnce, LoginsOK, CallsAfter, Kinds
  <2> QED BY <2>5, <2>6, <2>7, <2>8, <2>9 DEF IInv
<1>3. CASE Unload
  <2>1. CallsAfter({}, Calls)
    BY <1>0, <1>3, LostCalls DEF Unload, LeaveTo
  <2>2. Flags'
    BY <1>0, <1>3 DEF Unload, LeaveTo, TypeOK, Flags
  <2>3. Words'
    BY <1>0, <1>3 DEF Unload, LeaveTo, TypeOK, Words
  <2>4. Numbers'
    BY <1>0, <1>3 DEF Unload, LeaveTo, TypeOK, Numbers
  <2>5. TypeOK'
    BY <2>1, <2>2, <2>3, <2>4 DEF TypeOK, Flags, Words, Numbers, CallsAfter
  <2>6. LoginsOK'
    BY <1>0, <1>3, <2>1 DEF Unload, LeaveTo, TypeOK, IInv, LoginsOK, CallsAfter, Kinds
  <2>7. ProviderOK'
    BY <1>0, <1>3, <2>1
       DEF Unload, LeaveTo, TypeOK, IInv, ProviderOK, ProviderKnown, LoginsOK, CallsAfter, Kinds
  <2>8. SignedOutOK'
    BY <1>0, <1>3, <2>1
       DEF Unload, LeaveTo, TypeOK, IInv, SignedOutOK, LoginsOK, CallsAfter, Kinds
  <2>9. CodeOK'
    BY <1>0, <1>3, <2>1
       DEF Unload, LeaveTo, TypeOK, IInv, CodeOK, CodeSentOnce, LoginsOK, CallsAfter, Kinds
  <2> QED BY <2>5, <2>6, <2>7, <2>8, <2>9 DEF IInv
<1> QED BY <1>1, <1>2, <1>3

\* The answer to the profile.
LEMMA ProfileStep ==
  ASSUME IInv, ProfileArrives \/ ProfileNameless \/ ProfileFails
  PROVE  IInv'
<1> USE DEF storage, url, state, counters
<1>0. Kinds \cup {"client", "permissions", "work", "logout"} \subseteq Calls /\ TypeOK /\ IInv
  BY DEF Kinds, Calls, IInv
<1>1. CASE ProfileArrives
  <2>0. ~Idle("profile")
    BY <1>0, <1>1 DEF ProfileArrives, Answered, Idle
  <2>1. CallsAfter(IF loginMethod THEN {"permissions"} ELSE {}, {"profile"})
    <3>1. CASE loginMethod
      BY <1>0, <1>1, <3>1, SentCallsDone DEF ProfileArrives, CheckPermissions, Kinds
    <3>2. CASE ~loginMethod
      BY <1>0, <1>1, <3>2, DoneCall DEF ProfileArrives, CheckPermissions, Kinds
    <3> QED BY <3>1, <3>2
  <2>2. Flags'
    BY <1>0, <1>1 DEF ProfileArrives, TypeOK, Flags
  <2>3. Words'
    BY <1>0, <1>1 DEF ProfileArrives, TypeOK, Words
  <2>4. Numbers'
    BY <1>0, <1>1 DEF ProfileArrives, TypeOK, Numbers
  <2>5. TypeOK'
    BY <2>1, <2>2, <2>3, <2>4 DEF TypeOK, Flags, Words, Numbers, CallsAfter
  <2>6. LoginsOK'
    BY <1>0, <1>1, <2>1, <2>0
       DEF ProfileArrives, TypeOK, IInv, LoginsOK, CallsAfter, Kinds
  <2>7. ProviderOK'
    BY <1>0, <1>1, <2>1, <2>0
       DEF ProfileArrives, TypeOK, IInv, ProviderOK, ProviderKnown, LoginsOK, CallsAfter, Kinds
  <2>8. SignedOutOK'
    BY <1>0, <1>1, <2>1, <2>0
       DEF ProfileArrives, TypeOK, IInv, SignedOutOK, LoginsOK, CallsAfter, Kinds
  <2>9. CodeOK'
    BY <1>0, <1>1, <2>1, <2>0
       DEF ProfileArrives, TypeOK, IInv, CodeOK, CodeSentOnce, LoginsOK, CallsAfter, Kinds
  <2> QED BY <2>5, <2>6, <2>7, <2>8, <2>9 DEF IInv
<1>2. CASE ProfileNameless
  <2>0. ~Idle("profile")
    BY <1>0, <1>2 DEF ProfileNameless, Answered, Idle
  <2>1. CallsAfter({}, {"profile"})
    BY <1>0, <1>2, DoneCall DEF ProfileNameless, Kinds
  <2>2. Flags'
    BY <1>0, <1>2 DEF ProfileNameless, TypeOK, Flags
  <2>3. Words'
    BY <1>0, <1>2 DEF ProfileNameless, TypeOK, Words
  <2>4. Numbers'
    BY <1>0, <1>2 DEF ProfileNameless, TypeOK, Numbers
  <2>5. TypeOK'
    BY <2>1, <2>2, <2>3, <2>4 DEF TypeOK, Flags, Words, Numbers, CallsAfter
  <2>6. LoginsOK'
    BY <1>0, <1>2, <2>1, <2>0
       DEF ProfileNameless, TypeOK, IInv, LoginsOK, CallsAfter, Kinds
  <2>7. ProviderOK'
    BY <1>0, <1>2, <2>1, <2>0
       DEF ProfileNameless, TypeOK, IInv, ProviderOK, ProviderKnown, LoginsOK, CallsAfter, Kinds
  <2>8. SignedOutOK'
    BY <1>0, <1>2, <2>1, <2>0
       DEF ProfileNameless, TypeOK, IInv, SignedOutOK, LoginsOK, CallsAfter, Kinds
  <2>9. CodeOK'
    BY <1>0, <1>2, <2>1, <2>0
       DEF ProfileNameless, TypeOK, IInv, CodeOK, CodeSentOnce, LoginsOK, CallsAfter, Kinds
  <2> QED BY <2>5, <2>6, <2>7, <2>8, <2>9 DEF IInv
<1>3. CASE ProfileFails
  <2>0. ~Idle("profile")
    BY <1>0, <1>3 DEF ProfileFails, Answered, Idle
  <2>1. CallsAfter({}, {"profile"})
    BY <1>0, <1>3, DoneCall DEF ProfileFails, Kinds
  <2>2. Flags'
    BY <1>0, <1>3 DEF ProfileFails, TypeOK, Flags
  <2>3. Words'
    BY <1>0, <1>3 DEF ProfileFails, TypeOK, Words
  <2>4. Numbers'
    BY <1>0, <1>3 DEF ProfileFails, TypeOK, Numbers
  <2>5. TypeOK'
    BY <2>1, <2>2, <2>3, <2>4 DEF TypeOK, Flags, Words, Numbers, CallsAfter
  <2>6. LoginsOK'
    BY <1>0, <1>3, <2>1, <2>0
       DEF ProfileFails, TypeOK, IInv, LoginsOK, CallsAfter, Kinds
  <2>7. ProviderOK'
    BY <1>0, <1>3, <2>1, <2>0
       DEF ProfileFails, TypeOK, IInv, ProviderOK, ProviderKnown, LoginsOK, CallsAfter, Kinds
  <2>8. SignedOutOK'
    BY <1>0, <1>3, <2>1, <2>0
       DEF ProfileFails, TypeOK, IInv, SignedOutOK, LoginsOK, CallsAfter, Kinds
  <2>9. CodeOK'
    BY <1>0, <1>3, <2>1, <2>0
       DEF ProfileFails, TypeOK, IInv, CodeOK, CodeSentOnce, LoginsOK, CallsAfter, Kinds
  <2> QED BY <2>5, <2>6, <2>7, <2>8, <2>9 DEF IInv
<1> QED BY <1>1, <1>2, <1>3

\* The answers the login page waits for.
LEMMA LoginStep ==
  ASSUME IInv, ClientIdArrives \/ CallbackSucceeds \/ CallbackFails
  PROVE  IInv'
<1> USE DEF storage, url, state, counters
<1>0. Kinds \cup {"client", "permissions", "work", "logout"} \subseteq Calls /\ TypeOK /\ IInv
  BY DEF Kinds, Calls, IInv
<1>1. CASE ClientIdArrives
  <2>1. CallsAfter({}, {"client"})
    BY <1>0, <1>1, DoneCall DEF ClientIdArrives
  <2>2. Flags'
    BY <1>0, <1>1 DEF ClientIdArrives, TypeOK, Flags
  <2>3. Words'
    BY <1>0, <1>1 DEF ClientIdArrives, TypeOK, Words
  <2>4. Numbers'
    BY <1>0, <1>1 DEF ClientIdArrives, TypeOK, Numbers
  <2>5. TypeOK'
    BY <2>1, <2>2, <2>3, <2>4 DEF TypeOK, Flags, Words, Numbers, CallsAfter
  <2>6. LoginsOK'
    BY <1>0, <1>1, <2>1 DEF ClientIdArrives, TypeOK, IInv, LoginsOK, CallsAfter, Kinds
  <2>7. ProviderOK'
    BY <1>0, <1>1, <2>1
       DEF ClientIdArrives, TypeOK, IInv, ProviderOK, ProviderKnown, LoginsOK, CallsAfter, Kinds
  <2>8. SignedOutOK'
    BY <1>0, <1>1, <2>1
       DEF ClientIdArrives, TypeOK, IInv, SignedOutOK, LoginsOK, CallsAfter, Kinds
  <2>9. CodeOK'
    BY <1>0, <1>1, <2>1
       DEF ClientIdArrives, TypeOK, IInv, CodeOK, CodeSentOnce, LoginsOK, CallsAfter, Kinds
  <2> QED BY <2>5, <2>6, <2>7, <2>8, <2>9 DEF IInv
<1>2. CASE CallbackSucceeds
  <2>0. ~Idle("callback")
    BY <1>0, <1>2 DEF CallbackSucceeds, Answered, Idle
  <2>1. CallsAfter(IF loginMethod THEN {"permissions"} ELSE {}, {"callback"})
    <3>1. CASE loginMethod
      BY <1>0, <1>2, <3>1, SentCallsDone DEF CallbackSucceeds, CheckPermissions, Kinds
    <3>2. CASE ~loginMethod
      BY <1>0, <1>2, <3>2, DoneCall DEF CallbackSucceeds, CheckPermissions, Kinds
    <3> QED BY <3>1, <3>2
  <2>2. Flags'
    BY <1>0, <1>2 DEF CallbackSucceeds, TypeOK, Flags
  <2>3. Words'
    BY <1>0, <1>2 DEF CallbackSucceeds, TypeOK, Words
  <2>4. Numbers'
    BY <1>0, <1>2 DEF CallbackSucceeds, TypeOK, Numbers
  <2>5. TypeOK'
    BY <2>1, <2>2, <2>3, <2>4 DEF TypeOK, Flags, Words, Numbers, CallsAfter
  <2>6. LoginsOK'
    BY <1>0, <1>2, <2>1, <2>0
       DEF CallbackSucceeds, TypeOK, IInv, LoginsOK, CallsAfter, Kinds
  <2>7. ProviderOK'
    BY <1>0, <1>2, <2>1, <2>0
       DEF CallbackSucceeds, TypeOK, IInv, ProviderOK, ProviderKnown, LoginsOK, CallsAfter, Kinds
  <2>8. SignedOutOK'
    BY <1>0, <1>2, <2>1, <2>0
       DEF CallbackSucceeds, TypeOK, IInv, SignedOutOK, LoginsOK, CallsAfter, Kinds
  <2>9. CodeOK'
    BY <1>0, <1>2, <2>1, <2>0
       DEF CallbackSucceeds, TypeOK, IInv, CodeOK, CodeSentOnce, LoginsOK, CallsAfter, Kinds
  <2> QED BY <2>5, <2>6, <2>7, <2>8, <2>9 DEF IInv
<1>3. CASE CallbackFails
  <2>0. ~Idle("callback")
    BY <1>0, <1>3 DEF CallbackFails, Answered, Idle
  <2>1. CallsAfter({}, {"callback"})
    BY <1>0, <1>3, DoneCall DEF CallbackFails, Kinds
  <2>2. Flags'
    BY <1>0, <1>3 DEF CallbackFails, TypeOK, Flags
  <2>3. Words'
    BY <1>0, <1>3 DEF CallbackFails, TypeOK, Words
  <2>4. Numbers'
    BY <1>0, <1>3 DEF CallbackFails, TypeOK, Numbers
  <2>5. TypeOK'
    BY <2>1, <2>2, <2>3, <2>4 DEF TypeOK, Flags, Words, Numbers, CallsAfter
  <2>6. LoginsOK'
    BY <1>0, <1>3, <2>1, <2>0
       DEF CallbackFails, TypeOK, IInv, LoginsOK, CallsAfter, Kinds
  <2>7. ProviderOK'
    BY <1>0, <1>3, <2>1, <2>0
       DEF CallbackFails, TypeOK, IInv, ProviderOK, ProviderKnown, LoginsOK, CallsAfter, Kinds
  <2>8. SignedOutOK'
    BY <1>0, <1>3, <2>1, <2>0
       DEF CallbackFails, TypeOK, IInv, SignedOutOK, LoginsOK, CallsAfter, Kinds
  <2>9. CodeOK'
    BY <1>0, <1>3, <2>1, <2>0
       DEF CallbackFails, TypeOK, IInv, CodeOK, CodeSentOnce, LoginsOK, CallsAfter, Kinds
  <2> QED BY <2>5, <2>6, <2>7, <2>8, <2>9 DEF IInv
<1> QED BY <1>1, <1>2, <1>3

\* The answers to the other calls.
LEMMA OtherStep ==
  ASSUME IInv, PermissionsArrive \/ LeaveForLogin \/ SignOutEnds \/ \E c \in Calls : OtherAnswer(c) \/ Intercept(c)
  PROVE  IInv'
<1> USE DEF storage, url, state, counters
<1>0. Kinds \cup {"client", "permissions", "work", "logout"} \subseteq Calls /\ TypeOK /\ IInv
  BY DEF Kinds, Calls, IInv
<1>1. CASE PermissionsArrive
  <2>1. CallsAfter({}, {"permissions"})
    BY <1>0, <1>1, DoneCall DEF PermissionsArrive
  <2>2. Flags'
    BY <1>0, <1>1 DEF PermissionsArrive, TypeOK, Flags
  <2>3. Words'
    BY <1>0, <1>1 DEF PermissionsArrive, TypeOK, Words
  <2>4. Numbers'
    BY <1>0, <1>1 DEF PermissionsArrive, TypeOK, Numbers
  <2>5. TypeOK'
    BY <2>1, <2>2, <2>3, <2>4 DEF TypeOK, Flags, Words, Numbers, CallsAfter
  <2>6. LoginsOK'
    BY <1>0, <1>1, <2>1 DEF PermissionsArrive, TypeOK, IInv, LoginsOK, CallsAfter, Kinds
  <2>7. ProviderOK'
    BY <1>0, <1>1, <2>1
       DEF PermissionsArrive, TypeOK, IInv, ProviderOK, ProviderKnown, LoginsOK, CallsAfter, Kinds
  <2>8. SignedOutOK'
    BY <1>0, <1>1, <2>1
       DEF PermissionsArrive, TypeOK, IInv, SignedOutOK, LoginsOK, CallsAfter, Kinds
  <2>9. CodeOK'
    BY <1>0, <1>1, <2>1
       DEF PermissionsArrive, TypeOK, IInv, CodeOK, CodeSentOnce, LoginsOK, CallsAfter, Kinds
  <2> QED BY <2>5, <2>6, <2>7, <2>8, <2>9 DEF IInv
<1>2. CASE LeaveForLogin
  <2>0. ~Idle("logout")
    BY <1>0, <1>2 DEF LeaveForLogin, Answered, Idle
  <2>1. CallsAfter({}, {"logout"})
    BY <1>0, <1>2, DoneCall DEF LeaveForLogin
  <2>2. Flags'
    BY <1>0, <1>2 DEF LeaveForLogin, TypeOK, Flags
  <2>3. Words'
    BY <1>0, <1>2 DEF LeaveForLogin, TypeOK, Words
  <2>4. Numbers'
    BY <1>0, <1>2 DEF LeaveForLogin, TypeOK, Numbers
  <2>5. TypeOK'
    BY <2>1, <2>2, <2>3, <2>4 DEF TypeOK, Flags, Words, Numbers, CallsAfter
  <2>6. LoginsOK'
    BY <1>0, <1>2, <2>1, <2>0
       DEF LeaveForLogin, TypeOK, IInv, LoginsOK, CallsAfter, Kinds
  <2>7. ProviderOK'
    BY <1>0, <1>2, <2>1, <2>0
       DEF LeaveForLogin, TypeOK, IInv, ProviderOK, ProviderKnown, LoginsOK, CallsAfter, Kinds
  <2>8. SignedOutOK'
    BY <1>0, <1>2, <2>1, <2>0
       DEF LeaveForLogin, TypeOK, IInv, SignedOutOK, LoginsOK, CallsAfter, Kinds
  <2>9. CodeOK'
    BY <1>0, <1>2, <2>1, <2>0
       DEF LeaveForLogin, TypeOK, IInv, CodeOK, CodeSentOnce, LoginsOK, CallsAfter, Kinds
  <2> QED BY <2>5, <2>6, <2>7, <2>8, <2>9 DEF IInv
<1>3. CASE SignOutEnds
  <2>0. ~Idle("signOut")
    BY <1>0, <1>3 DEF SignOutEnds, Answered, Idle
  <2>1. CallsAfter({}, {"signOut"})
    BY <1>0, <1>3, DoneCall DEF SignOutEnds, Kinds
  <2>2. Flags'
    BY <1>0, <1>3 DEF SignOutEnds, TypeOK, Flags
  <2>3. Words'
    BY <1>0, <1>3 DEF SignOutEnds, TypeOK, Words
  <2>4. Numbers'
    BY <1>0, <1>3 DEF SignOutEnds, TypeOK, Numbers
  <2>5. TypeOK'
    BY <2>1, <2>2, <2>3, <2>4 DEF TypeOK, Flags, Words, Numbers, CallsAfter
  <2>6. LoginsOK'
    BY <1>0, <1>3, <2>1, <2>0 DEF SignOutEnds, TypeOK, IInv, LoginsOK, CallsAfter, Kinds
  <2>7. ProviderOK'
    BY <1>0, <1>3, <2>1, <2>0
       DEF SignOutEnds, TypeOK, IInv, ProviderOK, ProviderKnown, LoginsOK, CallsAfter, Kinds
  <2>8. SignedOutOK'
    BY <1>0, <1>3, <2>1, <2>0
       DEF SignOutEnds, TypeOK, IInv, SignedOutOK, LoginsOK, CallsAfter, Kinds
  <2>9. CodeOK'
    BY <1>0, <1>3, <2>1, <2>0
       DEF SignOutEnds, TypeOK, IInv, CodeOK, CodeSentOnce, LoginsOK, CallsAfter, Kinds
  <2> QED BY <2>5, <2>6, <2>7, <2>8, <2>9 DEF IInv
<1>4. ASSUME NEW c \in Calls, OtherAnswer(c) PROVE IInv'
  <2>1. CallsAfter({}, {c})
    BY <1>0, <1>4, DoneCall DEF OtherAnswer
  <2>2. Flags'
    BY <1>0, <1>4 DEF OtherAnswer, TypeOK, Flags
  <2>3. Words'
    BY <1>0, <1>4 DEF OtherAnswer, TypeOK, Words
  <2>4. Numbers'
    BY <1>0, <1>4 DEF OtherAnswer, TypeOK, Numbers
  <2>5. TypeOK'
    BY <2>1, <2>2, <2>3, <2>4 DEF TypeOK, Flags, Words, Numbers, CallsAfter
  <2>6. LoginsOK'
    BY <1>0, <1>4, <2>1 DEF OtherAnswer, TypeOK, IInv, LoginsOK, CallsAfter, Kinds
  <2>7. ProviderOK'
    BY <1>0, <1>4, <2>1
       DEF OtherAnswer, TypeOK, IInv, ProviderOK, ProviderKnown, LoginsOK, CallsAfter, Kinds
  <2>8. SignedOutOK'
    BY <1>0, <1>4, <2>1
       DEF OtherAnswer, TypeOK, IInv, SignedOutOK, LoginsOK, CallsAfter, Kinds
  <2>9. CodeOK'
    BY <1>0, <1>4, <2>1
       DEF OtherAnswer, TypeOK, IInv, CodeOK, CodeSentOnce, LoginsOK, CallsAfter, Kinds
  <2> QED BY <2>5, <2>6, <2>7, <2>8, <2>9 DEF IInv
<1>5. ASSUME NEW c \in Calls, Intercept(c) PROVE IInv'
  <2>0. ~Idle(c) /\ c \notin Kinds
    BY <1>0, <1>5 DEF Intercept, AxiosCalls, Answered, Idle, Kinds
  <2>1. CallsAfter(IF Idle("logout") THEN {"logout"} ELSE {}, {c})
    BY <1>0, <1>5, SentCallsDone DEF Intercept, AxiosCalls
  <2>2. Flags'
    BY <1>0, <1>5 DEF Intercept, AxiosCalls, TypeOK, Flags
  <2>3. Words'
    BY <1>0, <1>5 DEF Intercept, AxiosCalls, TypeOK, Words
  <2>4. Numbers'
    BY <1>0, <1>5 DEF Intercept, AxiosCalls, TypeOK, Numbers
  <2>5. TypeOK'
    BY <2>1, <2>2, <2>3, <2>4 DEF TypeOK, Flags, Words, Numbers, CallsAfter
  <2>6. LoginsOK'
    BY <1>0, <1>5, <2>1, <2>0
       DEF Intercept, AxiosCalls, TypeOK, IInv, LoginsOK, CallsAfter, Kinds
  <2>7. ProviderOK'
    BY <1>0, <1>5, <2>1, <2>0
       DEF Intercept, AxiosCalls, TypeOK, IInv, ProviderOK, ProviderKnown, LoginsOK, CallsAfter, Kinds
  <2>8. SignedOutOK'
    BY <1>0, <1>5, <2>1, <2>0
       DEF Intercept, AxiosCalls, TypeOK, IInv, SignedOutOK, LoginsOK, CallsAfter, Kinds
  <2>9. CodeOK'
    BY <1>0, <1>5, <2>1, <2>0
       DEF Intercept, AxiosCalls, TypeOK, IInv, CodeOK, CodeSentOnce, LoginsOK, CallsAfter, Kinds
  <2> QED BY <2>5, <2>6, <2>7, <2>8, <2>9 DEF IInv
<1> QED BY <1>1, <1>2, <1>3, <1>4, <1>5

\* The user, and the provider.
LEMMA UserStep ==
  ASSUME IInv, User
  PROVE  IInv'
<1> USE DEF storage, url, state, counters
<1>0. Kinds \cup {"client", "permissions", "work", "logout"} \subseteq Calls /\ TypeOK /\ IInv
  BY DEF Kinds, Calls, IInv
<1>1. CASE Work
  <2>1. CallsAfter({"work"}, {})
    BY <1>0, <1>1, SentCalls DEF Work, ShowsApp
  <2>2. Flags'
    BY <1>0, <1>1 DEF Work, ShowsApp, TypeOK, Flags
  <2>3. Words'
    BY <1>0, <1>1 DEF Work, ShowsApp, TypeOK, Words
  <2>4. Numbers'
    BY <1>0, <1>1 DEF Work, ShowsApp, TypeOK, Numbers
  <2>5. TypeOK'
    BY <2>1, <2>2, <2>3, <2>4 DEF TypeOK, Flags, Words, Numbers, CallsAfter
  <2>6. LoginsOK'
    BY <1>0, <1>1, <2>1 DEF Work, ShowsApp, TypeOK, IInv, LoginsOK, CallsAfter, Kinds
  <2>7. ProviderOK'
    BY <1>0, <1>1, <2>1
       DEF Work, ShowsApp, TypeOK, IInv, ProviderOK, ProviderKnown, LoginsOK, CallsAfter, Kinds
  <2>8. SignedOutOK'
    BY <1>0, <1>1, <2>1
       DEF Work, ShowsApp, TypeOK, IInv, SignedOutOK, LoginsOK, CallsAfter, Kinds
  <2>9. CodeOK'
    BY <1>0, <1>1, <2>1
       DEF Work, ShowsApp, TypeOK, IInv, CodeOK, CodeSentOnce, LoginsOK, CallsAfter, Kinds
  <2> QED BY <2>5, <2>6, <2>7, <2>8, <2>9 DEF IInv
<1>2. CASE SignOut
  <2>0. Answered("profile", {"ok"}) => ~Idle("profile")
    BY <1>0, <1>2 DEF SignOut, ShowsApp, Answered, Idle
  <2>1. CallsAfter({"signOut"}, {})
    BY <1>0, <1>2, SentCalls DEF SignOut, ShowsApp
  <2>2. Flags'
    BY <1>0, <1>2 DEF SignOut, ShowsApp, TypeOK, Flags
  <2>3. Words'
    BY <1>0, <1>2 DEF SignOut, ShowsApp, TypeOK, Words
  <2>4. Numbers'
    BY <1>0, <1>2 DEF SignOut, ShowsApp, TypeOK, Numbers
  <2>5. TypeOK'
    BY <2>1, <2>2, <2>3, <2>4 DEF TypeOK, Flags, Words, Numbers, CallsAfter
  <2>6. LoginsOK'
    BY <1>0, <1>2, <2>1, <2>0
       DEF SignOut, ShowsApp, TypeOK, IInv, LoginsOK, CallsAfter, Kinds
  <2>7. ProviderOK'
    BY <1>0, <1>2, <2>1, <2>0
       DEF SignOut, ShowsApp, TypeOK, IInv, ProviderOK, ProviderKnown, LoginsOK, CallsAfter, Kinds
  <2>8. SignedOutOK'
    BY <1>0, <1>2, <2>1, <2>0
       DEF SignOut, ShowsApp, TypeOK, IInv, SignedOutOK, LoginsOK, CallsAfter, Kinds
  <2>9. CodeOK'
    BY <1>0, <1>2, <2>1, <2>0
       DEF SignOut, ShowsApp, TypeOK, IInv, CodeOK, CodeSentOnce, LoginsOK, CallsAfter, Kinds
  <2> QED BY <2>5, <2>6, <2>7, <2>8, <2>9 DEF IInv
<1>3. CASE RedirectToProvider
  <2>1. CallsAfter({}, Calls)
    BY <1>0, <1>3, LostCalls DEF RedirectToProvider, CanLogIn, LeaveTo
  <2>2. Flags'
    BY <1>0, <1>3 DEF RedirectToProvider, CanLogIn, LeaveTo, TypeOK, Flags
  <2>3. Words'
    BY <1>0, <1>3 DEF RedirectToProvider, CanLogIn, LeaveTo, TypeOK, Words
  <2>4. Numbers'
    BY <1>0, <1>3 DEF RedirectToProvider, CanLogIn, LeaveTo, TypeOK, Numbers
  <2>5. TypeOK'
    BY <2>1, <2>2, <2>3, <2>4 DEF TypeOK, Flags, Words, Numbers, CallsAfter
  <2>6. LoginsOK'
    BY <1>0, <1>3, <2>1
       DEF RedirectToProvider, CanLogIn, LeaveTo, TypeOK, IInv, LoginsOK, CallsAfter, Kinds
  <2>7. ProviderOK'
    BY <1>0, <1>3, <2>1
       DEF RedirectToProvider, CanLogIn, LeaveTo, TypeOK, IInv, ProviderOK, ProviderKnown, LoginsOK, CallsAfter, Kinds
  <2>8. SignedOutOK'
    BY <1>0, <1>3, <2>1
       DEF RedirectToProvider, CanLogIn, LeaveTo, TypeOK, IInv, SignedOutOK, LoginsOK, CallsAfter, Kinds
  <2>9. CodeOK'
    BY <1>0, <1>3, <2>1
       DEF RedirectToProvider, CanLogIn, LeaveTo, TypeOK, IInv, CodeOK, CodeSentOnce, LoginsOK, CallsAfter, Kinds
  <2> QED BY <2>5, <2>6, <2>7, <2>8, <2>9 DEF IInv
<1>4. CASE ProviderReturns
  <2>1. CallsAfter({}, {})
    BY <1>0, <1>4 DEF ProviderReturns, CallsAfter, TypeOK, Idle, Answered
  <2>2. Flags'
    BY <1>0, <1>4 DEF ProviderReturns, TypeOK, Flags
  <2>3. Words'
    BY <1>0, <1>4 DEF ProviderReturns, TypeOK, Words
  <2>4. Numbers'
    BY <1>0, <1>4 DEF ProviderReturns, TypeOK, Numbers
  <2>5. TypeOK'
    BY <2>1, <2>2, <2>3, <2>4 DEF TypeOK, Flags, Words, Numbers, CallsAfter
  <2>6. LoginsOK'
    BY <1>0, <1>4, <2>1 DEF ProviderReturns, TypeOK, IInv, LoginsOK, CallsAfter, Kinds
  <2>7. ProviderOK'
    BY <1>0, <1>4, <2>1
       DEF ProviderReturns, TypeOK, IInv, ProviderOK, ProviderKnown, LoginsOK, CallsAfter, Kinds
  <2>8. SignedOutOK'
    BY <1>0, <1>4, <2>1
       DEF ProviderReturns, TypeOK, IInv, SignedOutOK, LoginsOK, CallsAfter, Kinds
  <2>9. CodeOK'
    BY <1>0, <1>4, <2>1
       DEF ProviderReturns, TypeOK, IInv, CodeOK, CodeSentOnce, LoginsOK, CallsAfter, Kinds
  <2> QED BY <2>5, <2>6, <2>7, <2>8, <2>9 DEF IInv
<1>5. CASE Reload
  <2>1. CallsAfter({}, Calls)
    BY <1>0, <1>5, LostCalls DEF Reload, LeaveTo
  <2>2. Flags'
    BY <1>0, <1>5 DEF Reload, LeaveTo, TypeOK, Flags
  <2>3. Words'
    BY <1>0, <1>5 DEF Reload, LeaveTo, TypeOK, Words
  <2>4. Numbers'
    BY <1>0, <1>5 DEF Reload, LeaveTo, TypeOK, Numbers
  <2>5. TypeOK'
    BY <2>1, <2>2, <2>3, <2>4 DEF TypeOK, Flags, Words, Numbers, CallsAfter
  <2>6. LoginsOK'
    BY <1>0, <1>5, <2>1 DEF Reload, LeaveTo, TypeOK, IInv, LoginsOK, CallsAfter, Kinds
  <2>7. ProviderOK'
    BY <1>0, <1>5, <2>1
       DEF Reload, LeaveTo, TypeOK, IInv, ProviderOK, ProviderKnown, LoginsOK, CallsAfter, Kinds
  <2>8. SignedOutOK'
    BY <1>0, <1>5, <2>1
       DEF Reload, LeaveTo, TypeOK, IInv, SignedOutOK, LoginsOK, CallsAfter, Kinds
  <2>9. CodeOK'
    BY <1>0, <1>5, <2>1
       DEF Reload, LeaveTo, TypeOK, IInv, CodeOK, CodeSentOnce, LoginsOK, CallsAfter, Kinds
  <2> QED BY <2>5, <2>6, <2>7, <2>8, <2>9 DEF IInv
<1> QED BY <1>1, <1>2, <1>3, <1>4, <1>5 DEF User
-----------------------------------------------------------------------------
(* The theorems *)

\* The invariant is inductive: of every behaviour, whatever the API, the user, the
\* clock and the provider do.
THEOREM Inductive == Spec => []IInv
<1>1. ASSUME IInv, [Next]_vars PROVE IInv'
  <2>1. CASE UNCHANGED vars
    BY <1>1, <2>1, CallsKept DEF vars, storage, IInv, TypeOK
  <2>2. CASE Next
    BY <1>1, <2>2, EnvironmentStep, LoadStep, ProfileStep, LoginStep, OtherStep, UserStep
       DEF Next, Page
  <2> QED BY <1>1, <2>1, <2>2
<1> QED BY <1>1, InitOK, PTL DEF Spec

\* The variables keep their types.
THEOREM TypeCorrect == Spec => []TypeOK
BY Inductive, PTL DEF IInv

\* A page sends a code at most once (Login.tsx: the code leaves the address bar
\* before the login page can be mounted again).
THEOREM OneExchange == Spec => []CodeSentOnce
BY Inductive, PTL DEF IInv, CodeOK

\* Who is logged in has a provider stored (App.tsx, Login.tsx).
THEOREM ProviderIsKnown == Spec => []ProviderKnown
BY Inductive, PTL DEF IInv, ProviderOK

\* After "Sign Out" nobody is logged in without a new code (handleSignOut).
THEOREM SignOutLasts == Spec => []SignOutHolds
<1>1. IInv => SignOutHolds
  BY DEF IInv, SignedOutOK, SignOutHolds
<1> QED BY <1>1, Inductive, PTL
=============================================================================
