----------------------------- MODULE WebSession -----------------------------
(***************************************************************************)
(* Signing in and out of the web application (App.tsx, Login.tsx,          *)
(* Profile.tsx) in one browser page.  What says that a user is logged in   *)
(* is kept in five places: the session cookie, tokenExpiry and loginMethod *)
(* of the local storage, the code in the address bar, and React's state.   *)
(* The page forgets the last when it is loaded anew, and it is loaded anew *)
(* by the provider's redirection, by the handler of a 401, and by the user *)
(* at any time; the calls in flight are then lost.                         *)
(*                                                                         *)
(* A call carries the cookie of the moment it is sent; its answer may set  *)
(* the cookie or remove it.  "work" stands for the calls of the tabs and   *)
(* of the permissions dialog, of which only a 401 matters here.            *)
(***************************************************************************)
EXTENDS Integers

CONSTANTS
  MaxLogins,    \* bound: redirections to the provider
  MaxReloads    \* bound: reloads by the user

ASSUME SessionAssumption == {MaxLogins, MaxReloads} \subseteq Nat

VARIABLES
  cookie,       \* the browser holds a session cookie that the API accepts
  tokenExpiry,  \* localStorage: an expiry in the future is stored
  loginMethod,  \* localStorage: a provider is stored
  urlCode,      \* code and state are in the address bar
  codeSpent,    \* the provider has taken that code
  page,         \* "up", "leaving" once location.href was set, "loading", or "provider"
  data, login, loading, role,   \* App.tsx; role for role, isAdmin, isPlatformApprover
  mounted, clientID,                  \* Login.tsx: it is rendered, its client_id has come
  calls,        \* calls[c]: the call of that kind
  exchanges,    \* history: codes sent since the page was loaded
  signedOut,    \* history: the user has signed out and not exchanged a code since
  logins, reloads

storage == <<tokenExpiry, loginMethod>>
url == <<urlCode, codeSpent>>
state == <<data, login, loading, role, mounted, clientID>>
counters == <<logins, reloads>>
vars == <<cookie, storage, url, page, state, calls, exchanges, signedOut, counters>>
-----------------------------------------------------------------------------
Calls == {"profile", "client", "callback", "permissions", "work", "signOut", "logout"}
Outcomes == {"none", "ok", "nameless", "error", "unauthorized"}
Call == [pc : {"idle", "sent", "answered"}, cookie : BOOLEAN, outcome : Outcomes]
NoCall == [pc |-> "idle", cookie |-> FALSE, outcome |-> "none"]
NoCalls == [c \in Calls |-> NoCall]
NewCall == [pc |-> "sent", cookie |-> cookie, outcome |-> "none"]

Idle(c) == calls[c].pc = "idle"
Answered(c, outcomes) == calls[c].pc = "answered" /\ calls[c].outcome \in outcomes
Sending(cs) == [c \in Calls |-> IF c \in cs THEN NewCall ELSE calls[c]]
Done(c) == [calls EXCEPT ![c] = NoCall]

\* A browser that has never seen the application.
Init ==
  /\ cookie = FALSE /\ tokenExpiry = FALSE /\ loginMethod = FALSE
  /\ urlCode = FALSE /\ codeSpent = FALSE
  /\ page = "loading"
  /\ data = FALSE /\ login = FALSE /\ loading = FALSE /\ role = "none"
  /\ mounted = FALSE /\ clientID = FALSE
  /\ calls = NoCalls
  /\ exchanges = 0 /\ signedOut = FALSE /\ logins = 0 /\ reloads = 0
-----------------------------------------------------------------------------
(* The API and the clock *)

SessionEnds ==
  /\ cookie
  /\ cookie' = FALSE
  /\ UNCHANGED <<storage, url, page, state, calls, exchanges, signedOut, counters>>

TokenExpires ==
  /\ tokenExpiry
  /\ tokenExpiry' = FALSE
  /\ UNCHANGED <<cookie, loginMethod, url, page, state, calls, exchanges, signedOut, counters>>

Reply(c, outcome) == calls' = [calls EXCEPT ![c].pc = "answered", ![c].outcome = outcome]

\* RequireAuth lets a call with a cookie through; what a handler answers in the
\* absence of some group is a 401 as well.  The path of the profile holds the
\* provider: without one there is no such route.  The permissions come with the cookie,
\* unless it holds them already.
Behind(c) ==
  IF ~calls[c].cookie THEN {"unauthorized"}
  ELSE CASE c = "profile" -> {"ok", "nameless"}
         [] c = "permissions" -> {"ok"}
         [] c = "work" -> {"ok", "unauthorized"}

AnswerBehindAuth(c) ==
  /\ c \in {"profile", "permissions", "work"} /\ calls[c].pc = "sent"
  /\ c = "profile" => loginMethod
  /\ \E outcome \in Behind(c) :
       /\ Reply(c, outcome)
       /\ cookie' \in {cookie, cookie \/ (c = "permissions" /\ outcome = "ok")}
  /\ UNCHANGED <<storage, url, page, state, exchanges, signedOut, counters>>

GetOauthClientId ==
  /\ calls["client"].pc = "sent"
  /\ Reply("client", "ok")
  /\ UNCHANGED <<cookie, storage, url, page, state, exchanges, signedOut, counters>>

\* The provider takes a code once; the cookie comes with the answer.
OauthCallback ==
  /\ calls["callback"].pc = "sent" /\ ~codeSpent
  /\ codeSpent' = TRUE
  /\ Reply("callback", "ok")
  /\ cookie' = TRUE
  /\ UNCHANGED <<storage, urlCode, page, state, exchanges, signedOut, counters>>

\* Only what the call carried is expired: a cookie that came after it was sent may stay.
Logout(c) ==
  /\ c \in {"signOut", "logout"} /\ calls[c].pc = "sent"
  /\ Reply(c, "ok")
  /\ cookie' \in {FALSE, cookie /\ ~calls[c].cookie}
  /\ UNCHANGED <<storage, url, page, state, exchanges, signedOut, counters>>

\* Another error, or no answer.  A code may be spent nevertheless, and the cookie be
\* set: the organisation is looked at after that, and an answer may be cut off.
CallFails(c) ==
  /\ calls[c].pc = "sent"
  /\ Reply(c, "error")
  /\ \/ UNCHANGED <<cookie, codeSpent>>
     \/ c = "callback" /\ ~codeSpent /\ codeSpent' = TRUE /\ cookie' \in {cookie, TRUE}
  /\ UNCHANGED <<storage, urlCode, page, state, exchanges, signedOut, counters>>
-----------------------------------------------------------------------------
(* What App renders: the loader, the application, the login page, or nothing *)

ShowsApp == page \in {"up", "leaving"} /\ data /\ ~loading
ShowsLogin == page \in {"up", "leaving"} /\ login /\ ~data /\ ~loading

\* The button of the provider is there once client_id has come.
CanLogIn == page = "up" /\ mounted /\ clientID
-----------------------------------------------------------------------------
(* The page is loaded *)

\* The effect of App that runs once: fetchAllData or the login page.
Mount ==
  /\ page = "loading"
  /\ page' = "up"
  /\ loading' = tokenExpiry /\ login' = ~tokenExpiry
  /\ calls' = IF tokenExpiry THEN Sending({"profile"}) ELSE calls
  /\ data' = FALSE /\ role' = "none" /\ mounted' = FALSE /\ clientID' = FALSE
  /\ exchanges' = 0
  /\ UNCHANGED <<cookie, storage, url, signedOut, counters>>

\* The effects of Login.  With a code in the address bar the loader takes the place
\* of the login page, which is mounted anew if the exchange fails; of the calls for
\* the client_id only the last is kept.
MountLogin ==
  /\ ShowsLogin /\ ~mounted
  /\ calls' = Sending(IF urlCode THEN {"client", "callback"} ELSE {"client"})
  /\ exchanges' = IF urlCode /\ exchanges < 2 THEN exchanges + 1 ELSE exchanges
  /\ loading' = urlCode /\ mounted' = ~urlCode /\ clientID' = FALSE
  /\ UNCHANGED <<cookie, storage, url, page, data, login, role, signedOut, counters>>

\* The page goes, and with it its state and its calls.
LeaveTo(next) ==
  /\ page' = next
  /\ calls' = NoCalls
  /\ data' = FALSE /\ login' = FALSE /\ loading' = FALSE /\ role' = "none"
  /\ mounted' = FALSE /\ clientID' = FALSE

\* location.href = "/" takes effect.
Unload ==
  /\ page = "leaving"
  /\ LeaveTo("loading")
  /\ urlCode' = FALSE
  /\ UNCHANGED <<cookie, storage, codeSpent, exchanges, signedOut, counters>>

Reload ==
  /\ page = "up"
  /\ reloads < MaxReloads /\ reloads' = reloads + 1
  /\ LeaveTo("loading")
  /\ UNCHANGED <<cookie, storage, url, exchanges, signedOut, logins>>
-----------------------------------------------------------------------------
(* Answers *)

\* The effect on data: checkPermissions, if the provider is known.
CheckPermissions(c) ==
  IF loginMethod THEN [Sending({"permissions"}) EXCEPT ![c] = NoCall] ELSE Done(c)

\* Mutant: the profile is requested with axios, as everything else.
AllCalls == {"permissions", "work", "profile"}

\* The calls whose 401 the interceptor sees.
AxiosCalls == {"permissions", "work"}

ProfileArrives ==
  /\ Answered("profile", {"ok"})
  /\ data' = TRUE /\ loading' = FALSE /\ urlCode' = FALSE
  /\ calls' = CheckPermissions("profile")
  /\ UNCHANGED <<cookie, storage, codeSpent, page, login, role, mounted, clientID,
                 exchanges, signedOut, counters>>

\* Neither the application nor the login page is rendered: the page is blank.
ProfileNameless ==
  /\ Answered("profile", {"nameless"})
  /\ loading' = FALSE
  /\ calls' = Done("profile")
  /\ UNCHANGED <<cookie, storage, url, page, data, login, role, mounted, clientID,
                 exchanges, signedOut, counters>>

ProfileFails ==
  /\ \/ Answered("profile", {"error"})
     \/ Answered("profile", {"unauthorized"}) /\ "profile" \notin AxiosCalls
  /\ login' = TRUE /\ loading' = FALSE
  /\ calls' = Done("profile")
  /\ UNCHANGED <<cookie, storage, url, page, data, role, mounted, clientID,
                 exchanges, signedOut, counters>>

\* Mutant: the provider is kept in React's state only.
ClientIdNotStored ==
  /\ Answered("client", {"ok"})
  /\ clientID' = mounted
  /\ calls' = Done("client")
  /\ UNCHANGED <<cookie, storage, url, page, data, login, loading, role, mounted,
                 exchanges, signedOut, counters>>

\* Also when Login is no longer mounted.
ClientIdArrives ==
  /\ Answered("client", {"ok"})
  /\ loginMethod' = TRUE /\ clientID' = mounted
  /\ calls' = Done("client")
  /\ UNCHANGED <<cookie, tokenExpiry, url, page, data, login, loading, role, mounted,
                 exchanges, signedOut, counters>>

\* onLoginSuccess, and the code is removed from the address bar.
CallbackSucceeds ==
  /\ Answered("callback", {"ok"})
  /\ tokenExpiry' = TRUE
  /\ data' = TRUE /\ login' = FALSE /\ loading' = FALSE
  /\ urlCode' = FALSE
  /\ calls' = CheckPermissions("callback")
  /\ signedOut' = FALSE
  /\ UNCHANGED <<cookie, loginMethod, codeSpent, page, role, mounted, clientID,
                 exchanges, counters>>

\* Mutant: the code stays in the address bar when the exchange has failed.
CallbackFailsKeeping ==
  /\ Answered("callback", {"error"})
  /\ loading' = FALSE
  /\ calls' = Done("callback")
  /\ UNCHANGED <<cookie, storage, url, page, data, login, role, mounted, clientID,
                 exchanges, signedOut, counters>>

CallbackFails ==
  /\ Answered("callback", {"error"})
  /\ urlCode' = FALSE /\ loading' = FALSE
  /\ calls' = Done("callback")
  /\ UNCHANGED <<cookie, storage, codeSpent, page, data, login, role, mounted, clientID,
                 exchanges, signedOut, counters>>

\* Mutant: the roles are set from the answer of a failed call, too.
PermissionsOfError ==
  /\ Answered("permissions", {"ok", "error"})
  /\ role' = IF calls["permissions"].outcome = "ok" THEN "approver" ELSE "undefined"
  /\ calls' = Done("permissions")
  /\ UNCHANGED <<cookie, storage, url, page, data, login, loading, mounted, clientID,
                 exchanges, signedOut, counters>>

PermissionsArrive ==
  /\ Answered("permissions", {"ok", "error"})
  /\ role' \in IF calls["permissions"].outcome = "ok" THEN {"none", "approver"} ELSE {role}
  /\ calls' = Done("permissions")
  /\ UNCHANGED <<cookie, storage, url, page, data, login, loading, mounted, clientID,
                 exchanges, signedOut, counters>>

\* Nothing of the session changes; neither does it when client_id is not to be had.
OtherAnswer(c) ==
  /\ \/ c = "work" /\ Answered(c, {"ok", "error"})
     \/ c = "client" /\ Answered(c, {"error"})
  /\ calls' = Done(c)
  /\ UNCHANGED <<cookie, storage, url, page, state, exchanges, signedOut, counters>>

\* The interceptor: POST /logout; of several at a time the first is kept.
Intercept(c) ==
  /\ c \in AxiosCalls /\ Answered(c, {"unauthorized"})
  /\ calls' = [Sending(IF Idle("logout") THEN {"logout"} ELSE {}) EXCEPT ![c] = NoCall]
  /\ UNCHANGED <<cookie, storage, url, page, state, exchanges, signedOut, counters>>

\* Errors are ignored.  The storage is left as it is.
LeaveForLogin ==
  /\ Answered("logout", {"ok", "error"})
  /\ page' = "leaving"
  /\ calls' = Done("logout")
  /\ UNCHANGED <<cookie, storage, url, state, exchanges, signedOut, counters>>
-----------------------------------------------------------------------------
(* The user *)

Work ==
  /\ ShowsApp /\ Idle("work")
  /\ calls' = Sending({"work"})
  /\ UNCHANGED <<cookie, storage, url, page, state, exchanges, signedOut, counters>>

\* Mutant: tokenExpiry is not removed.
SignOutKeeping ==
  /\ ShowsApp /\ Idle("signOut")
  /\ loginMethod' = FALSE
  /\ calls' = Sending({"signOut"})
  /\ signedOut' = TRUE
  /\ UNCHANGED <<cookie, tokenExpiry, url, page, state, exchanges, counters>>

\* handleSignOut, up to the await.
SignOut ==
  /\ ShowsApp /\ Idle("signOut")
  /\ tokenExpiry' = FALSE /\ loginMethod' = FALSE
  /\ calls' = Sending({"signOut"})
  /\ signedOut' = TRUE
  /\ UNCHANGED <<cookie, url, page, state, exchanges, counters>>

\* Whether the API has removed the cookie or not; role stays.
SignOutEnds ==
  /\ Answered("signOut", {"ok", "error"})
  /\ data' = FALSE /\ login' = TRUE /\ mounted' = FALSE /\ urlCode' = FALSE
  /\ calls' = Done("signOut")
  /\ UNCHANGED <<cookie, storage, codeSpent, page, loading, role, clientID, exchanges,
                 signedOut, counters>>

\* The login button.
RedirectToProvider ==
  /\ CanLogIn
  /\ logins < MaxLogins /\ logins' = logins + 1
  /\ LeaveTo("provider")
  /\ UNCHANGED <<cookie, storage, url, exchanges, signedOut, reloads>>

\* The user has consented or not.
ProviderReturns ==
  /\ page = "provider"
  /\ page' = "loading"
  /\ \/ urlCode' = TRUE /\ codeSpent' = FALSE
     \/ UNCHANGED url
  /\ UNCHANGED <<cookie, storage, state, calls, exchanges, signedOut, counters>>
-----------------------------------------------------------------------------
Api(c) == AnswerBehindAuth(c) \/ Logout(c) \/ CallFails(c)

Page ==
  \/ Mount \/ MountLogin \/ Unload
  \/ ProfileArrives \/ ProfileNameless \/ ProfileFails
  \/ ClientIdArrives \/ CallbackSucceeds \/ CallbackFails \/ PermissionsArrive
  \/ LeaveForLogin \/ SignOutEnds

User == Work \/ SignOut \/ RedirectToProvider \/ ProviderReturns \/ Reload

Next ==
  \/ SessionEnds \/ TokenExpires
  \/ GetOauthClientId \/ OauthCallback
  \/ \E c \in Calls : Api(c) \/ OtherAnswer(c) \/ Intercept(c)
  \/ Page \/ User

\* Every call is answered or fails, and the browser runs what is ready; of the user,
\* of the clock and of the provider nothing is assumed.
Fairness ==
  /\ \A c \in Calls :
       WF_vars(Api(c)) /\ WF_vars(OtherAnswer(c)) /\ WF_vars(Intercept(c))
  /\ WF_vars(Mount) /\ WF_vars(MountLogin) /\ WF_vars(Unload)
  /\ WF_vars(ProfileArrives) /\ WF_vars(ProfileNameless) /\ WF_vars(ProfileFails)
  /\ WF_vars(ClientIdArrives) /\ WF_vars(CallbackSucceeds) /\ WF_vars(CallbackFails)
  /\ WF_vars(PermissionsArrive) /\ WF_vars(LeaveForLogin) /\ WF_vars(SignOutEnds)

Spec == Init /\ [][Next]_vars /\ Fairness
-----------------------------------------------------------------------------
(* Properties *)

\* The variables keep their types.
TypeOK ==
  /\ cookie \in BOOLEAN /\ tokenExpiry \in BOOLEAN /\ loginMethod \in BOOLEAN
  /\ urlCode \in BOOLEAN /\ codeSpent \in BOOLEAN
  /\ page \in {"up", "leaving", "loading", "provider"}
  /\ data \in BOOLEAN /\ login \in BOOLEAN /\ loading \in BOOLEAN /\ role \in {"none", "approver"}
  /\ mounted \in BOOLEAN /\ clientID \in BOOLEAN
  /\ calls \in [Calls -> Call]
  /\ exchanges \in 0..2 /\ signedOut \in BOOLEAN
  /\ logins \in Nat /\ reloads \in Nat

\* A page sends a code at most once, though the login page is mounted again when
\* the loader ends: the address bar is cleared first, also after an error.
CodeSentOnce == exchanges <= 1

\* Whoever is logged in has a provider stored, without which neither the permissions
\* nor, after a reload, the profile can be requested; signing out removes it first.
ProviderKnown == data /\ Idle("signOut") => loginMethod

\* After "Sign Out" nobody is logged in until a code is exchanged, also when the
\* logout call fails, when an answer brings the cookie back, or when the page is
\* reloaded in between.
SignOutHolds == signedOut /\ data => ~Idle("signOut")

\* A call that is refused because the session is over leads to the login page, and
\* not to a page that is loaded again and again, though tokenExpiry still says that
\* the user is logged in.  (A new code or a late answer may bring the cookie back.)
Refused == \E c \in Calls : calls[c].outcome = "unauthorized"
LostSessionEndsAtLogin == (Refused /\ ~cookie) ~> (mounted \/ cookie)
=============================================================================
