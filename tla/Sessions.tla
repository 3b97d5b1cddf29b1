------------------------------ MODULE Sessions ------------------------------
(***************************************************************************)
(* The sessions of one user in several browsers.  A browser keeps an       *)
(* access token and the key of a refresh session in cookies; the refresh   *)
(* sessions are keys in Redis.  Its requests go to the web app's server,   *)
(* which passes them on to the API with the cookies they came with; when   *)
(* the API refuses the access token, it has the API replace the refresh    *)
(* session by a new one, tries once more, and sets the new cookies with    *)
(* its answer, or clears them.  Requests of one browser may overlap: each  *)
(* goes on with the cookies it started with, and the answers apply in any  *)
(* order.  The API runs one Redis command or query at a time for each.     *)
(*                                                                         *)
(* A browser used at least once in 30 days is assumed: its session is      *)
(* replaced before its time is over.  Roles are left out: an account never *)
(* loses the role that let it into an app.                                 *)
(*                                                                         *)
(* The operators marked (Slip: ...) are no part of the system: each is a   *)
(* step with one mistake in it, kept to see that the properties notice.    *)
(***************************************************************************)
EXTENDS FiniteSets

CONSTANTS
  None,         \* no session
  Keys,         \* keys of refresh sessions (random, never made twice)
  Browsers,
  App,          \* the web app each is for; an app has cookies of its own
  Requests,     \* requests that may be on their way at the same time
  Owner,        \* the browser of each
  Makes,        \* what each may be
  Trouble       \* whether requests get lost, the API fails and operators suspend

ASSUME KeysAssumption   == None \notin Keys
ASSUME AppAssumption    == App \in [Browsers -> {"customer", "courier", "staff"}]
ASSUME OwnerAssumption  == Owner \in [Requests -> Browsers]
ASSUME TroubleAssumption == Trouble \in BOOLEAN
ASSUME MakesAssumption  == Makes \in [Requests -> SUBSET {"call", "me", "signIn", "logout"}]

VARIABLES
  live,         \* auth:refresh:<key> exists in Redis
  account,      \* the status of the user
  cookies,      \* of each browser
  rough,        \* browsers whose requests overlap, fail, die or lose their answers
  req           \* what each request is doing

vars == <<live, account, cookies, rough, req>>
-----------------------------------------------------------------------------
\* A cookie goes a little later than the token in it.
Token == {"none", "valid", "stale"}

Cookies == [access : Token, refresh : Keys \cup {None}]
NoCookies == [access |-> "none", refresh |-> None]

\* call: any request a proxy passes on.  me: the look at oneself when the
\* customer's app opens.
Kinds == {"call", "me", "signIn", "logout"}
Steps == {"guard", "read", "account", "revoke", "rotate", "issue", "end"}

\* What a request waits for next, with the access token and the session it
\* came with, or got; and an answer on its way, with what it does to the cookies.
Waiting  == [kind : Kinds, at : Steps, access : Token, refresh : Keys \cup {None},
             fresh : Keys \cup {None}]
Answered == [at : {"done"}, effect : {"keep", "clear", "set", "signIn"},
             fresh : Keys \cup {None}]

ASSUME NoneAssumption == None \notin Waiting \cup Answered

TypeOK ==
  /\ live \subseteq Keys
  /\ account \in {"ACTIVE", "SUSPENDED"}
  /\ cookies \in [Browsers -> Cookies]
  /\ rough \subseteq Browsers
  /\ req \in [Requests -> Waiting \cup Answered \cup {None}]

Init ==
  /\ live = {} /\ account = "ACTIVE"
  /\ cookies = [b \in Browsers |-> NoCookies]
  /\ rough = {}
  /\ req = [r \in Requests |-> None]
-----------------------------------------------------------------------------
(* The servers of the web apps.                                            *)

Now(r) == cookies[Owner[r]]

Idle(b) == \A r \in Requests : Owner[r] = b => req[r] = None

MayStart(r, kind) ==
  kind \in Makes[r] /\ req[r] = None /\ (Idle(Owner[r]) \/ Owner[r] \in rough)

Begins(r, kind, step, access, refresh) ==
  /\ MayStart(r, kind)
  /\ req' = [req EXCEPT ![r] =
       [kind |-> kind, at |-> step, access |-> access, refresh |-> refresh, fresh |-> None]]
  /\ UNCHANGED <<live, account, cookies, rough>>

At(r, step) == req[r] # None /\ req[r].at = step

Goes(r, to) == req' = [req EXCEPT ![r].at = to]

Answers(r, effect, fresh) ==
  req' = [req EXCEPT ![r] = [at |-> "done", effect |-> effect, fresh |-> fresh]]

StartCall(r, kind) ==
  /\ kind = "me" => App[Owner[r]] = "customer"
  /\ \/ Now(r).access # "none" /\ Begins(r, kind, "guard", Now(r).access, Now(r).refresh)
     \/ /\ Now(r).access = "none" /\ Now(r).refresh # None
        /\ Begins(r, kind, "read", "none", Now(r).refresh)

\* The look at oneself, and the stream of an order, also clear no cookies.
StartSignedOut(r) ==
  /\ MayStart(r, "me") /\ App[Owner[r]] = "customer" /\ Now(r) = NoCookies
  /\ Answers(r, "clear", None)
  /\ UNCHANGED <<live, account, cookies, rough>>

\* The code is right and the account active (SignIn).
StartSignIn(r) == account = "ACTIVE" /\ Begins(r, "signIn", "issue", "none", None)

StartLogout(r) ==
  \/ Now(r).refresh # None /\ Begins(r, "logout", "end", "none", Now(r).refresh)
  \/ /\ MayStart(r, "logout") /\ Now(r).refresh = None
     /\ Answers(r, "clear", None)
     /\ UNCHANGED <<live, account, cookies, rough>>

\* The guard of the API: a token in its time, of an account that is active.
Admitted(r) == req[r].access = "valid" /\ account = "ACTIVE"

GuardAdmits(r) ==
  /\ At(r, "guard") /\ Admitted(r)
  /\ Answers(r, IF req[r].fresh = None THEN "keep" ELSE "set", req[r].fresh)
  /\ UNCHANGED <<live, account, cookies, rough>>

\* Refused for the first time: refresh.
GuardRetries(r) ==
  /\ At(r, "guard") /\ ~Admitted(r) /\ req[r].fresh = None
  /\ Goes(r, "read")
  /\ UNCHANGED <<live, account, cookies, rough>>

\* (Slip: the second refusal is passed on without the new cookies.)
GuardRefusesPlainly(r) ==
  /\ At(r, "guard") /\ ~Admitted(r) /\ req[r].fresh # None
  /\ Answers(r, IF req[r].kind = "me" \/ App[Owner[r]] = "staff" THEN "clear" ELSE "keep",
             None)
  /\ UNCHANGED <<live, account, cookies, rough>>

\* Refused again: that is passed on with the new cookies; the staff's proxy,
\* and the look at oneself, clear them.
GuardRefuses(r) ==
  /\ At(r, "guard") /\ ~Admitted(r) /\ req[r].fresh # None
  /\ IF req[r].kind = "me" \/ App[Owner[r]] = "staff"
       THEN Answers(r, "clear", None)
       ELSE Answers(r, "set", req[r].fresh)
  /\ UNCHANGED <<live, account, cookies, rough>>

\* Any other failure of the look at oneself, after a refresh, clears them too.
MeFails(r) ==
  /\ Trouble /\ Owner[r] \in rough
  /\ At(r, "guard") /\ req[r].kind = "me" /\ req[r].fresh # None
  /\ Answers(r, "clear", None)
  /\ UNCHANGED <<live, account, cookies, rough>>
-----------------------------------------------------------------------------
(* The API: refresh, sign-in and logout.  All the servers clear the cookies *)
(* when a refresh is refused.                                              *)

\* (Slip: the cookies stay.)
ReadSessionKeeps(r) ==
  /\ At(r, "read")
  /\ IF req[r].refresh \in live THEN Goes(r, "account") ELSE Answers(r, "keep", None)
  /\ UNCHANGED <<live, account, cookies, rough>>

ReadSession(r) ==
  /\ At(r, "read")
  /\ IF req[r].refresh \in live THEN Goes(r, "account") ELSE Answers(r, "clear", None)
  /\ UNCHANGED <<live, account, cookies, rough>>

\* (Slip: any account is served.)
ReadNoAccount(r) ==
  /\ At(r, "account")
  /\ Goes(r, "rotate")
  /\ UNCHANGED <<live, account, cookies, rough>>

ReadAccount(r) ==
  /\ At(r, "account")
  /\ Goes(r, IF account = "ACTIVE" THEN "rotate" ELSE "revoke")
  /\ UNCHANGED <<live, account, cookies, rough>>

Revoke(r) ==
  /\ At(r, "revoke")
  /\ live' = live \ {req[r].refresh}
  /\ Answers(r, "clear", None)
  /\ UNCHANGED <<account, cookies, rough>>

\* (Slip: the old session is left to its time to live.)
RotateNothing(r) ==
  /\ At(r, "rotate")
  /\ req' = [req EXCEPT ![r].at = "issue", ![r].refresh = None]
  /\ UNCHANGED <<live, account, cookies, rough>>

\* Whether the key was still there is not asked.
Rotate(r) ==
  /\ At(r, "rotate")
  /\ live' = live \ {req[r].refresh}
  /\ req' = [req EXCEPT ![r].at = "issue", ![r].refresh = None]
  /\ UNCHANGED <<account, cookies, rough>>

\* The next key is none of those still somewhere; any of the others will do.
Used == live \cup {cookies[b].refresh : b \in Browsers}
             \cup {req[r].fresh : r \in {q \in Requests : req[q] # None}}
             \cup {req[r].refresh : r \in {q \in Requests : req[q] \in Waiting}}
NewKey == CHOOSE k \in Keys \ Used : TRUE

Issue(r) ==
  /\ At(r, "issue") /\ Keys \ Used # {}
  /\ live' = live \cup {NewKey}
  /\ IF req[r].kind = "signIn"
       THEN Answers(r, "signIn", NewKey)
       ELSE req' = [req EXCEPT ![r].at = "guard", ![r].access = "valid", ![r].fresh = NewKey]
  /\ UNCHANGED <<account, cookies, rough>>

EndSession(r) ==
  /\ At(r, "end")
  /\ live' = live \ {req[r].refresh}
  /\ Answers(r, "clear", None)
  /\ UNCHANGED <<account, cookies, rough>>

\* Redis or the database fails: a refresh is refused like any other, and a
\* logout is answered as if it had worked.
ApiFails(r) ==
  /\ Trouble /\ Owner[r] \in rough
  /\ req[r] \in Waiting /\ req[r].kind # "signIn" /\ req[r].at # "guard"
  /\ Answers(r, "clear", None)
  /\ UNCHANGED <<live, account, cookies, rough>>
-----------------------------------------------------------------------------
(* The browsers, the time and the operators.                               *)

\* An answer arrives: with the cookies as they were,
AnswerKeeps(r) ==
  /\ At(r, "done") /\ req[r].effect = "keep"
  /\ req' = [req EXCEPT ![r] = None]
  /\ UNCHANGED <<live, account, cookies, rough>>

\* without cookies,
AnswerClears(r) ==
  /\ At(r, "done") /\ req[r].effect = "clear"
  /\ cookies' = [cookies EXCEPT ![Owner[r]] = NoCookies]
  /\ req' = [req EXCEPT ![r] = None]
  /\ UNCHANGED <<live, account, rough>>

\* or with new ones.
AnswerSets(r) ==
  /\ At(r, "done") /\ req[r].effect \in {"set", "signIn"}
  /\ cookies' = [cookies EXCEPT ![Owner[r]] = [access |-> "valid", refresh |-> req[r].fresh]]
  /\ req' = [req EXCEPT ![r] = None]
  /\ UNCHANGED <<live, account, rough>>

\* A request dies, its connection is cut, or its answer is lost.  (One that has
\* changed nothing yet is as good as one that was never made.)
Lose(r) ==
  /\ Trouble /\ Owner[r] \in rough
  /\ req[r] # None
  /\ req[r].at \in {"issue", "done"} \/ req[r].fresh # None
  /\ req' = [req EXCEPT ![r] = None]
  /\ UNCHANGED <<live, account, cookies, rough>>

\* 15 minutes: the token is too old, in the cookie and on its way.
TokenExpires(b) ==
  /\ cookies[b].access = "valid"
  /\ cookies' = [cookies EXCEPT ![b].access = "stale"]
  /\ req' = [r \in Requests |->
       IF Owner[r] = b /\ At(r, "guard") /\ req[r].fresh = None
         THEN [req[r] EXCEPT !.access = "stale"] ELSE req[r]]
  /\ UNCHANGED <<live, account, rough>>

CookieExpires(b) ==
  /\ cookies[b].access = "stale"
  /\ cookies' = [cookies EXCEPT ![b].access = "none"]
  /\ UNCHANGED <<live, account, rough, req>>

\* 30 days: a session that no browser comes back for.
SessionExpires(k) ==
  /\ k \in live
  /\ \A b \in Browsers : k # cookies[b].refresh
  /\ \A r \in Requests : req[r] # None => k # req[r].fresh
  /\ \A r \in Requests : req[r] \in Waiting => k # req[r].refresh
  /\ live' = live \ {k}
  /\ UNCHANGED <<account, cookies, rough, req>>

\* From now on the browser has requests overlap, or a network that fails.
Roughen(b) ==
  /\ b \notin rough
  /\ rough' = rough \cup {b}
  /\ UNCHANGED <<live, account, cookies, req>>

SuspendOrRestore ==
  /\ Trouble
  /\ account' = IF account = "ACTIVE" THEN "SUSPENDED" ELSE "ACTIVE"
  /\ UNCHANGED <<live, cookies, rough, req>>

Start(r) ==
  \/ StartCall(r, "call") \/ StartCall(r, "me")
  \/ StartSignedOut(r) \/ StartSignIn(r) \/ StartLogout(r)

Continue(r) ==
  \/ GuardAdmits(r) \/ GuardRetries(r) \/ GuardRefuses(r) \/ MeFails(r)
  \/ ReadSession(r) \/ ReadAccount(r) \/ Revoke(r) \/ Rotate(r) \/ Issue(r) \/ EndSession(r)

Arrives(r) == AnswerKeeps(r) \/ AnswerClears(r) \/ AnswerSets(r)

Next ==
  \/ \E r \in Requests : Start(r) \/ Continue(r) \/ ApiFails(r) \/ Arrives(r) \/ Lose(r)
  \/ \E b \in Browsers : TokenExpires(b) \/ CookieExpires(b) \/ Roughen(b)
  \/ \E k \in Keys : SessionExpires(k)
  \/ SuspendOrRestore

Spec == Init /\ [][Next]_vars

\* Requests go on, and answers arrive but for some; pages ask again with a timer
\* or a click; tokens, and sessions nobody comes back for, grow old.
FairSpec ==
  /\ Spec
  /\ \A r \in Requests : WF_vars(Continue(r)) /\ SF_vars(Arrives(r))
  /\ \A b \in Browsers :
       /\ SF_vars(\E r \in Requests : Owner[r] = b /\ StartCall(r, "call"))
       /\ WF_vars(TokenExpires(b) \/ CookieExpires(b))
  /\ \A k \in Keys : WF_vars(SessionExpires(k))
-----------------------------------------------------------------------------
\* A browser that makes one request at a time, none of which fails, keeps its
\* session through refreshes, expiries, suspensions and whatever the user's
\* other browsers do: its cookie is good, or gone.
SessionKept ==
  \A b \in Browsers \ rough : Idle(b) => cookies[b].refresh \in live \cup {None}

\* What such a browser gives up, by a refresh, a logout or a refusal, is over;
\* only another sign-in leaves the session it replaces to its time to live.
GivenUpIsOver ==
  [][\A b \in Browsers \ rough :
       cookies'[b].refresh # cookies[b].refresh =>
         \/ cookies[b].refresh \notin live
         \/ \E r \in Requests : At(r, "done") /\ req[r].effect = "signIn" /\ req'[r] = None]_vars

\* A refresh is not noticed: it takes no session that is good out of the cookies.
RefreshUnnoticed ==
  [][\A b \in Browsers : cookies[b].refresh \in live => cookies'[b] # NoCookies]_vars

\* A cookie whose session is gone does not stay: the user signs in again.
DeadCookieGoes ==
  \A b \in Browsers :
    cookies[b].refresh \notin live \cup {None} ~> cookies[b].refresh \in live \cup {None}

\* A suspended user is signed out everywhere, sessions issued meanwhile included.
SuspensionEnds ==
  \A b \in Browsers : account = "SUSPENDED" ~> account = "ACTIVE" \/ cookies[b] = NoCookies
=============================================================================
