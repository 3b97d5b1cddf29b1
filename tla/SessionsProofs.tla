--------------------------- MODULE SessionsProofs ---------------------------
(***************************************************************************)
(* Proofs about Sessions, for any browsers, apps, requests and keys, with  *)
(* and without trouble: a browser that makes one request at a time, none   *)
(* of which fails, keeps its session, and what it gives up is over.  The   *)
(* invariant says whose a session is, and what each request of such a      *)
(* browser knows of the one in its cookies.                                *)
(***************************************************************************)
EXTENDS Sessions, TLAPS

\* A session is a browser's when its cookies, or a request of it, have the key.
Owns(b, k) ==
  \/ cookies[b].refresh = k
  \/ \E r \in Requests : Owner[r] = b /\ req[r] # None /\ req[r].fresh = k
  \/ \E r \in Requests : Owner[r] = b /\ req[r] \in Waiting /\ req[r].refresh = k

\* No two browsers share a session.
Apart == \A b, d \in Browsers : \A k \in Keys : Owns(b, k) /\ Owns(d, k) => b = d

\* A browser that is not rough makes one request at a time.
OneAtATime ==
  \A r, q \in Requests :
    Owner[r] \notin rough /\ Owner[q] = Owner[r] /\ req[r] # None /\ req[q] # None => r = q

\* What request x knows of key, the session in the cookies of its browser, and
\* of the one it got, when keys are those in Redis.
Knows(x, key, keys) ==
  /\ x.at \in {"guard", "read"} /\ x.fresh = None => x.refresh = key /\ key \in keys \cup {None}
  /\ x.at \in {"account", "revoke", "rotate"} => x.refresh = key /\ key \in keys
  /\ x.at \in {"read", "account", "revoke", "rotate", "end"} => x.fresh = None
  /\ x.at = "end" => x.refresh = key
  /\ x.at = "issue" => x.kind = "signIn" \/ key \notin keys
  /\ x.at = "guard" /\ x.fresh # None => x.fresh \in keys /\ key \notin keys
  /\ x.at = "done" =>
       /\ x.effect = "keep" => key \in keys \cup {None}
       /\ x.effect \in {"clear", "set"} => key \notin keys
       /\ x.effect \in {"set", "signIn"} => x.fresh \in keys

SmoothKnow ==
  \A r \in Requests :
    Owner[r] \notin rough /\ req[r] # None => Knows(req[r], cookies[Owner[r]].refresh, live)

SessionInv == TypeOK /\ Apart /\ OneAtATime /\ SmoothKnow /\ SessionKept

\* Nobody's.
Nobodys(k) == \A b \in Browsers : ~Owns(b, k)

\* What a step of request r may take into its hands, or remove.
Within(r, k) == k = None \/ Owns(Owner[r], k) \/ Nobodys(k)

LEMMA InitSessionInv == Init => SessionInv
<1> SUFFICES ASSUME Init PROVE SessionInv
  OBVIOUS
<1>1. TypeOK
  BY DEF Init, TypeOK, NoCookies, Cookies, Token
<1>2. Apart
  BY KeysAssumption, NoneAssumption DEF Init, Apart, Owns, NoCookies
<1>3. OneAtATime /\ SmoothKnow
  BY DEF Init, OneAtATime, SmoothKnow
<1>4. SessionKept
  BY DEF Init, SessionKept, NoCookies
<1> QED BY <1>1, <1>2, <1>3, <1>4 DEF SessionInv

\* A step that concerns request r only: what it does to the keys of its own
\* browser, or of nobody, and to its own cookies, leaves all other browsers alone.
LEMMA OneRequestMoves ==
  ASSUME SessionInv, NEW r \in Requests,
         NEW x \in Waiting \cup Answered \cup {None}, NEW y \in Cookies,
         req' = [req EXCEPT ![r] = x],
         cookies' = [cookies EXCEPT ![Owner[r]] = y],
         live' \subseteq Keys, UNCHANGED <<account, rough>>,
         req[r] # None \/ Owner[r] \in rough \/ Idle(Owner[r]),
         \A k \in Keys : (k \in live' <=> k \in live) \/ Within(r, k),
         Within(r, y.refresh),
         x # None => Within(r, x.fresh),
         x \in Waiting => Within(r, x.refresh),
         Owner[r] \notin rough /\ x # None => Knows(x, y.refresh, live'),
         Owner[r] \notin rough /\ x = None => y.refresh \in live' \cup {None}
  PROVE  SessionInv'
<1> DEFINE b == Owner[r]
<1>0. /\ b \in Browsers
      /\ \A q \in Requests : Owner[q] \in Browsers
      /\ req' \in [Requests -> Waiting \cup Answered \cup {None}]
      /\ cookies' \in [Browsers -> Cookies]
      /\ req'[r] = x /\ \A q \in Requests \ {r} : req'[q] = req[q]
      /\ cookies'[b] = y /\ \A d \in Browsers \ {b} : cookies'[d] = cookies[d]
  BY OwnerAssumption DEF SessionInv, TypeOK
<1>1. TypeOK'
  BY <1>0 DEF SessionInv, TypeOK
<1>2. ASSUME NEW d \in Browsers \ {b}, NEW k PROVE Owns(d, k)' <=> Owns(d, k)
  BY <1>0, <1>2 DEF Owns
<1>3. ASSUME NEW k \in Keys, Owns(b, k)' PROVE Within(r, k)
  BY <1>0, <1>3, KeysAssumption DEF Owns, Within
<1>4. Apart'
  <2> SUFFICES ASSUME NEW d \in Browsers, NEW e \in Browsers, NEW k \in Keys,
                      Owns(d, k)', Owns(e, k)'
               PROVE  d = e
    BY DEF Apart
  <2>1. CASE d = b /\ e # b
    BY <2>1, <1>0, <1>2, <1>3, KeysAssumption DEF SessionInv, Apart, Within, Nobodys
  <2>2. CASE e = b /\ d # b
    BY <2>2, <1>0, <1>2, <1>3, KeysAssumption DEF SessionInv, Apart, Within, Nobodys
  <2>3. CASE d # b /\ e # b
    BY <2>3, <1>0, <1>2 DEF SessionInv, Apart
  <2> QED BY <2>1, <2>2, <2>3
<1>5. OneAtATime'
  BY <1>0 DEF SessionInv, OneAtATime, Idle
<1>6. ASSUME NEW d \in Browsers \ {b}, NEW k \in Keys, Owns(d, k)
      PROVE  k \in live' <=> k \in live
  BY <1>0, <1>6, KeysAssumption DEF SessionInv, Apart, Within, Nobodys
<1>7. SmoothKnow'
  <2> SUFFICES ASSUME NEW q \in Requests, Owner[q] \notin rough, req'[q] # None
               PROVE  Knows(req'[q], cookies'[Owner[q]].refresh, live')
    BY DEF SmoothKnow
  <2>1. CASE q = r
    BY <2>1, <1>0
  <2>2. CASE Owner[q] = b /\ q # r
    BY <2>2, <1>0 DEF SessionInv, OneAtATime, Idle
  <2>3. CASE Owner[q] # b
    <3> DEFINE d == Owner[q]
               c == cookies[Owner[q]].refresh
    <3>1. d \in Browsers \ {b} /\ req'[q] = req[q] /\ cookies'[d] = cookies[d] /\ req[q] # None
      BY <2>3, <1>0
    <3>2. Knows(req[q], c, live)
      BY <3>1 DEF SessionInv, SmoothKnow
    <3>3. c \in Keys \cup {None} /\ Owns(d, c)
      BY <3>1 DEF SessionInv, TypeOK, Cookies, Owns
    <3>4. c \in live' <=> c \in live
      BY <3>1, <3>3, <1>6, KeysAssumption DEF SessionInv, TypeOK
    <3>5. req[q].fresh \in Keys \cup {None} /\ Owns(d, req[q].fresh)
      BY <3>1 DEF SessionInv, TypeOK, Waiting, Answered, Owns
    <3>6. req[q].fresh \in live' <=> req[q].fresh \in live
      BY <3>1, <3>5, <1>6, KeysAssumption DEF SessionInv, TypeOK
    <3> QED BY <3>1, <3>2, <3>4, <3>6 DEF Knows
  <2> QED BY <2>1, <2>2, <2>3
<1>8. SessionKept'
  <2> SUFFICES ASSUME NEW d \in Browsers \ rough, Idle(d)'
               PROVE  cookies'[d].refresh \in live' \cup {None}
    BY DEF SessionKept
  <2>1. CASE d = b
    BY <2>1, <1>0 DEF Idle
  <2>2. CASE d # b
    <3>1. Idle(d) /\ cookies'[d] = cookies[d]
      BY <2>2, <1>0 DEF Idle
    <3>2. cookies[d].refresh \in live \cup {None}
      BY <3>1 DEF SessionInv, SessionKept
    <3>3. Owns(d, cookies[d].refresh)
      BY DEF Owns
    <3> QED BY <2>2, <3>1, <3>2, <3>3, <1>6 DEF SessionInv, TypeOK
  <2> QED BY <2>1, <2>2
<1> QED BY <1>1, <1>4, <1>5, <1>7, <1>8 DEF SessionInv

\* Nobody has a new key.
LEMMA NewKeyIsNobodys ==
  ASSUME TypeOK, Keys \ Used # {}
  PROVE  NewKey \in Keys \ live /\ Nobodys(NewKey)
<1>1. NewKey \in Keys \ Used
  BY DEF NewKey
<1> QED BY <1>1 DEF Used, Nobodys, Owns

\* A request that waits for a step of the API.
LEMMA WaitingAt ==
  ASSUME SessionInv, NEW r \in Requests, NEW step \in Steps, At(r, step)
  PROVE  /\ req[r] \in Waiting /\ req[r] # None /\ req[r].at = step
         /\ Within(r, req[r].refresh) /\ Within(r, req[r].fresh)
         /\ Owner[r] \notin rough => Knows(req[r], cookies[Owner[r]].refresh, live)
<1>1. req[r] \in Waiting \cup Answered /\ req[r] # None /\ req[r].at = step
  BY DEF At, SessionInv, TypeOK
<1>2. req[r] \in Waiting
  BY <1>1 DEF Answered, Steps
<1> QED BY <1>1, <1>2 DEF SessionInv, SmoothKnow, Within, Owns

\* Cookies stay as they are.
LEMMA SameCookies ==
  ASSUME SessionInv, NEW r \in Requests, cookies' = cookies
  PROVE  /\ cookies[Owner[r]] \in Cookies
         /\ cookies' = [cookies EXCEPT ![Owner[r]] = cookies[Owner[r]]]
         /\ Within(r, cookies[Owner[r]].refresh)
BY OwnerAssumption DEF SessionInv, TypeOK, Within, Owns

LEMMA StartKeepsInv ==
  ASSUME SessionInv, NEW r \in Requests, Start(r)
  PROVE  SessionInv'
<1> DEFINE c == cookies[Owner[r]]
<1>0. /\ Owner[r] \in Browsers /\ c \in Cookies /\ Within(r, c.refresh)
      /\ live \subseteq Keys
  BY OwnerAssumption, SameCookies DEF SessionInv, TypeOK, Within, Owns
<1>1. ASSUME NEW kind \in Kinds, NEW step \in Steps, NEW access \in Token,
             NEW refresh,
             Begins(r, kind, step, access, refresh),
             \/ step \in {"guard", "read", "end"} /\ refresh = c.refresh
             \/ step = "issue" /\ kind = "signIn" /\ refresh = None
      PROVE  SessionInv'
  <2> DEFINE x == [kind |-> kind, at |-> step, access |-> access, refresh |-> refresh,
                   fresh |-> None]
  <2>1. x \in Waiting /\ req' = [req EXCEPT ![r] = x] /\ x # None
    BY <1>0, <1>1, NoneAssumption DEF Waiting, Begins, Cookies
  <2>2. UNCHANGED <<live, account, cookies, rough>> /\ (Idle(Owner[r]) \/ Owner[r] \in rough)
    BY <1>1 DEF Begins, MayStart
  <2>3. Owner[r] \notin rough => c.refresh \in live \cup {None}
    BY <1>0, <2>2 DEF SessionInv, SessionKept
  <2>4. Owner[r] \notin rough => Knows(x, c.refresh, live)
    BY <1>1, <2>3 DEF Knows
  <2>5. Within(r, x.refresh) /\ Within(r, x.fresh)
    BY <1>0, <1>1 DEF Within
  <2> HIDE DEF x
  <2> QED BY <1>0, <2>1, <2>2, <2>4, <2>5, SameCookies, OneRequestMoves
<1>2. ASSUME MayStart(r, "me") \/ MayStart(r, "logout"), c.refresh = None,
             Answers(r, "clear", None), UNCHANGED <<live, account, cookies, rough>>
      PROVE  SessionInv'
  <2> DEFINE x == [at |-> "done", effect |-> "clear", fresh |-> None]
  <2>1. x \in Answered /\ req' = [req EXCEPT ![r] = x] /\ x # None /\ x \notin Waiting
    BY <1>2, NoneAssumption DEF Answered, Waiting, Steps, Answers
  <2>2. Knows(x, c.refresh, live)
    BY <1>0, <1>2, KeysAssumption DEF Knows
  <2>3. Within(r, x.fresh) /\ (Idle(Owner[r]) \/ Owner[r] \in rough)
    BY <1>2 DEF Within, MayStart
  <2> QED BY <1>0, <1>2, <2>1, <2>2, <2>3, SameCookies, OneRequestMoves
<1>3. ASSUME NEW kind \in {"call", "me"}, StartCall(r, kind) PROVE SessionInv'
  <2>1. c.access \in Token
    BY <1>0 DEF Cookies
  <2>2. kind \in Kinds /\ "guard" \in Steps /\ "read" \in Steps /\ "none" \in Token
    BY DEF Kinds, Steps, Token
  <2>3. CASE Begins(r, kind, "guard", c.access, c.refresh)
    BY <1>1, <2>1, <2>2, <2>3
  <2>4. CASE Begins(r, kind, "read", "none", c.refresh)
    BY <1>1, <2>2, <2>4
  <2> QED BY <1>3, <2>3, <2>4 DEF StartCall, Now
<1>4. CASE StartSignedOut(r)
  BY <1>2, <1>4 DEF StartSignedOut, Now, NoCookies
<1>5. CASE StartSignIn(r)
  BY <1>1, <1>5 DEF StartSignIn, Kinds, Steps, Token
<1>6. CASE StartLogout(r)
  <2>1. "logout" \in Kinds /\ "end" \in Steps /\ "none" \in Token
    BY DEF Kinds, Steps, Token
  <2>2. CASE Begins(r, "logout", "end", "none", c.refresh)
    BY <1>1, <2>1, <2>2
  <2> QED BY <1>2, <1>6, <2>2 DEF StartLogout, Now
<1> QED BY <1>3, <1>4, <1>5, <1>6 DEF Start

\* A step of the servers: what it answers, or waits for next, follows from what
\* the request knew.
LEMMA ServerMoves ==
  ASSUME SessionInv, NEW r \in Requests, NEW step \in Steps, At(r, step),
         NEW x \in Waiting \cup Answered, req' = [req EXCEPT ![r] = x],
         live' \subseteq Keys, UNCHANGED <<account, cookies, rough>>,
         \A k \in Keys : (k \in live' <=> k \in live) \/ Within(r, k),
         Within(r, x.fresh), x \in Waiting => Within(r, x.refresh),
         Owner[r] \notin rough => Knows(x, cookies[Owner[r]].refresh, live')
  PROVE  SessionInv'
BY WaitingAt, SameCookies, OneRequestMoves, NoneAssumption

LEMMA ContinueKeepsInv ==
  ASSUME SessionInv, NEW r \in Requests, Continue(r) \/ ApiFails(r)
  PROVE  SessionInv'
<1> DEFINE c == cookies[Owner[r]].refresh
           smooth == Owner[r] \notin rough
<1>0. /\ live \subseteq Keys /\ req \in [Requests -> Waiting \cup Answered \cup {None}]
      /\ c \in Keys \cup {None} /\ Within(r, c)
      /\ Within(r, None)
  BY OwnerAssumption, SameCookies DEF SessionInv, TypeOK, Cookies, Within, Owns
<1>1. ASSUME NEW step \in Steps, At(r, step), NEW effect \in {"keep", "clear", "set"},
             NEW fresh \in {None, req[r].fresh}, Answers(r, effect, fresh),
             live' \subseteq Keys, UNCHANGED <<account, cookies, rough>>,
             \A k \in Keys : (k \in live' <=> k \in live) \/ Within(r, k),
             smooth /\ effect = "keep" => c \in live' \cup {None},
             smooth /\ effect \in {"clear", "set"} => c \notin live',
             smooth /\ effect = "set" => fresh \in live'
      PROVE  SessionInv'
  <2> DEFINE x == [at |-> "done", effect |-> effect, fresh |-> fresh]
  <2>1. Within(r, fresh) /\ fresh \in Keys \cup {None}
    BY <1>0, <1>1, WaitingAt DEF Waiting
  <2>2. x \in Answered /\ x \notin Waiting /\ req' = [req EXCEPT ![r] = x]
    BY <1>1, <2>1 DEF Answered, Waiting, Steps, Answers
  <2>3. smooth => Knows(x, c, live')
    BY <1>1 DEF Knows
  <2> QED BY <1>1, <2>1, <2>2, <2>3, ServerMoves
<1>2. ASSUME NEW step \in Steps, At(r, step), NEW to \in Steps, Goes(r, to),
             UNCHANGED <<live, account, cookies, rough>>,
             smooth => Knows([req[r] EXCEPT !.at = to], c, live)
      PROVE  SessionInv'
  <2> DEFINE x == [req[r] EXCEPT !.at = to]
  <2>1. x \in Waiting /\ req' = [req EXCEPT ![r] = x]
        /\ x.fresh = req[r].fresh /\ x.refresh = req[r].refresh
    BY <1>0, <1>2, WaitingAt DEF Waiting, Goes
  <2>2. Within(r, x.fresh) /\ Within(r, x.refresh)
    BY <1>2, <2>1, WaitingAt
  <2> QED BY <1>0, <1>2, <2>1, <2>2, ServerMoves
<1>3. CASE GuardAdmits(r)
  BY <1>0, <1>1, <1>3, WaitingAt DEF GuardAdmits, Knows, Steps
<1>4. CASE GuardRetries(r)
  <2>1. At(r, "guard") /\ "guard" \in Steps /\ "read" \in Steps
    BY <1>4 DEF GuardRetries, Steps
  <2>2. smooth => Knows([req[r] EXCEPT !.at = "read"], c, live)
    BY <1>4, <2>1, WaitingAt DEF GuardRetries, Knows, Waiting
  <2> QED BY <1>2, <1>4, <2>1, <2>2 DEF GuardRetries
<1>5. CASE GuardRefuses(r)
  BY <1>0, <1>1, <1>5, WaitingAt DEF GuardRefuses, Knows, Steps
<1>6. CASE MeFails(r)
  BY <1>0, <1>1, <1>6 DEF MeFails, Steps
<1>7. CASE ReadSession(r)
  <2>1. At(r, "read") /\ "read" \in Steps /\ "account" \in Steps
    BY <1>7 DEF ReadSession, Steps
  <2>2. smooth /\ req[r].refresh \in live => Knows([req[r] EXCEPT !.at = "account"], c, live)
    BY <2>1, WaitingAt DEF Knows, Waiting
  <2>3. smooth => req[r].refresh = c
    BY <2>1, WaitingAt DEF Knows
  <2>4. CASE req[r].refresh \in live
    BY <1>2, <1>7, <2>1, <2>2, <2>4 DEF ReadSession
  <2>5. CASE req[r].refresh \notin live
    BY <1>0, <1>1, <1>7, <2>1, <2>3, <2>5 DEF ReadSession
  <2> QED BY <2>4, <2>5
<1>8. CASE ReadAccount(r)
  <2>1. At(r, "account") /\ "account" \in Steps /\ "rotate" \in Steps /\ "revoke" \in Steps
    BY <1>8 DEF ReadAccount, Steps
  <2>2. ASSUME NEW to \in {"rotate", "revoke"}, smooth
        PROVE  Knows([req[r] EXCEPT !.at = to], c, live)
    BY <2>1, <2>2, WaitingAt DEF Knows, Waiting
  <2> QED BY <1>2, <1>8, <2>1, <2>2 DEF ReadAccount
<1>9. CASE Revoke(r)
  BY <1>0, <1>1, <1>9, WaitingAt DEF Revoke, Knows, Steps
<1>10. CASE Rotate(r)
  <2> DEFINE x == [req[r] EXCEPT !.at = "issue", !.refresh = None]
  <2>1. At(r, "rotate") /\ "rotate" \in Steps
    BY <1>10 DEF Rotate, Steps
  <2>2. req[r] \in Waiting /\ Within(r, req[r].refresh) /\ Within(r, req[r].fresh)
        /\ (smooth => req[r].refresh = c)
    BY <2>1, WaitingAt DEF Knows
  <2>3. x \in Waiting /\ x.refresh = None /\ x.fresh = req[r].fresh /\ x.at = "issue"
    BY <2>2 DEF Waiting, Steps
  <2>4. req' = [req EXCEPT ![r] = x]
    BY <1>0, <1>10 DEF Rotate
  <2>5. live' = live \ {req[r].refresh} /\ UNCHANGED <<account, cookies, rough>>
    BY <1>10 DEF Rotate
  <2>6. smooth => Knows(x, c, live')
    BY <2>2, <2>3, <2>5 DEF Knows
  <2> QED BY <1>0, <2>1, <2>2, <2>3, <2>4, <2>5, <2>6, ServerMoves
<1>11. CASE Issue(r)
  <2>1. At(r, "issue") /\ "issue" \in Steps /\ live' = live \cup {NewKey}
        /\ UNCHANGED <<account, cookies, rough>>
    BY <1>11 DEF Issue, Steps
  <2>2. NewKey \in Keys \ live /\ Nobodys(NewKey) /\ NewKey # None
    BY <1>11, NewKeyIsNobodys, KeysAssumption DEF Issue, SessionInv
  <2>3. c # NewKey
    BY <2>2, OwnerAssumption DEF Nobodys, Owns
  <2>4. Within(r, NewKey)
    BY <2>2 DEF Within
  <2>5. CASE req[r].kind = "signIn"
    <3> DEFINE x == [at |-> "done", effect |-> "signIn", fresh |-> NewKey]
    <3>1. x \in Answered /\ x \notin Waiting /\ req' = [req EXCEPT ![r] = x]
      BY <1>11, <2>2, <2>5 DEF Issue, Answers, Answered, Waiting, Steps
    <3>2. Knows(x, c, live')
      BY <2>1 DEF Knows
    <3> QED BY <1>0, <2>1, <2>2, <2>4, <3>1, <3>2, ServerMoves
  <2>6. CASE req[r].kind # "signIn"
    <3> DEFINE x == [req[r] EXCEPT !.at = "guard", !.access = "valid", !.fresh = NewKey]
    <3>1. req[r] \in Waiting /\ Within(r, req[r].refresh) /\ (smooth => c \notin live)
      BY <2>1, <2>6, WaitingAt DEF Knows
    <3>2. x \in Waiting /\ x.refresh = req[r].refresh /\ x.fresh = NewKey /\ x.at = "guard"
      BY <2>2, <3>1 DEF Waiting, Steps, Token
    <3>3. req' = [req EXCEPT ![r] = x]
      BY <1>0, <1>11, <2>6 DEF Issue
    <3>4. smooth => Knows(x, c, live')
      BY <2>1, <2>2, <2>3, <3>1, <3>2 DEF Knows
    <3> QED BY <1>0, <2>1, <2>2, <2>4, <3>1, <3>2, <3>3, <3>4, ServerMoves
  <2> QED BY <2>5, <2>6
<1>12. CASE EndSession(r)
  BY <1>0, <1>1, <1>12, WaitingAt DEF EndSession, Knows, Steps
<1>13. CASE ApiFails(r)
  <2>1. req[r] \in Waiting /\ At(r, req[r].at) /\ req[r].at \in Steps
    BY <1>13, NoneAssumption DEF ApiFails, At, Waiting
  <2> QED BY <1>0, <1>1, <1>13, <2>1 DEF ApiFails
<1> QED BY <1>3, <1>4, <1>5, <1>6, <1>7, <1>8, <1>9, <1>10, <1>11, <1>12, <1>13 DEF Continue

\* Answers that arrive, or are lost.
LEMMA ArrivalKeepsInv ==
  ASSUME SessionInv, NEW r \in Requests, Arrives(r) \/ Lose(r)
  PROVE  SessionInv'
<1> DEFINE c == cookies[Owner[r]].refresh
           smooth == Owner[r] \notin rough
<1>0. /\ live \subseteq Keys /\ NoCookies \in Cookies /\ Within(r, None)
      /\ Within(r, NoCookies.refresh)
      /\ req[r] # None => Within(r, req[r].fresh)
  BY DEF SessionInv, TypeOK, NoCookies, Cookies, Token, Within, Owns
<1>1. req[r] # None /\ smooth => Knows(req[r], c, live)
  BY DEF SessionInv, SmoothKnow
<1>2. ASSUME NEW y \in Cookies, Within(r, y.refresh), req[r] # None,
             smooth => y.refresh \in live \cup {None},
             cookies' = [cookies EXCEPT ![Owner[r]] = y], req' = [req EXCEPT ![r] = None],
             UNCHANGED <<live, account, rough>>
      PROVE  SessionInv'
  BY <1>0, <1>2, NoneAssumption, OneRequestMoves
<1>3. CASE AnswerKeeps(r)
  <2>1. smooth => c \in live \cup {None}
    BY <1>1, <1>3 DEF AnswerKeeps, At, Knows
  <2> QED BY <1>2, <1>3, <2>1, SameCookies DEF AnswerKeeps, At
<1>4. CASE AnswerClears(r)
  <2>1. NoCookies.refresh = None
    BY DEF NoCookies
  <2> QED BY <1>0, <1>2, <1>4, <2>1 DEF AnswerClears, At
<1>5. CASE AnswerSets(r)
  <2> DEFINE y == [access |-> "valid", refresh |-> req[r].fresh]
  <2>1. req[r] # None /\ req[r] \in Waiting \cup Answered
    BY <1>5 DEF AnswerSets, At, SessionInv, TypeOK
  <2>2. y \in Cookies
    BY <2>1 DEF Cookies, Token, Waiting, Answered
  <2>3. smooth => y.refresh \in live
    BY <1>1, <1>5, <2>1 DEF AnswerSets, At, Knows
  <2> QED BY <1>0, <1>2, <1>5, <2>1, <2>2, <2>3 DEF AnswerSets
<1>6. CASE Lose(r)
  BY <1>2, <1>6, SameCookies DEF Lose
<1> QED BY <1>3, <1>4, <1>5, <1>6 DEF Arrives

\* Time, operators, and a browser that becomes rough.
LEMMA TimeKeepsInv ==
  ASSUME SessionInv,
         \/ \E b \in Browsers : TokenExpires(b) \/ CookieExpires(b) \/ Roughen(b)
         \/ \E k \in Keys : SessionExpires(k)
         \/ SuspendOrRestore
  PROVE  SessionInv'
<1>0. /\ cookies \in [Browsers -> Cookies] /\ live \subseteq Keys
      /\ req \in [Requests -> Waiting \cup Answered \cup {None}]
      /\ \A r \in Requests : Owner[r] \in Browsers
  BY OwnerAssumption DEF SessionInv, TypeOK
<1>1. ASSUME \A b \in Browsers : cookies'[b].refresh = cookies[b].refresh,
             cookies' \in [Browsers -> Cookies],
             req' \in [Requests -> Waiting \cup Answered \cup {None}],
             \A r \in Requests :
               /\ req'[r] = None <=> req[r] = None
               /\ req'[r] \in Waiting <=> req[r] \in Waiting
               /\ req[r] # None =>
                    /\ req'[r].at = req[r].at /\ req'[r].fresh = req[r].fresh
                    /\ req[r] \in Waiting =>
                         req'[r].refresh = req[r].refresh /\ req'[r].kind = req[r].kind
                    /\ req[r] \in Answered => req'[r] = req[r],
             UNCHANGED <<live, account, rough>>
      PROVE  SessionInv'
  <2>1. TypeOK'
    BY <1>1 DEF SessionInv, TypeOK
  <2>2. ASSUME NEW b \in Browsers, NEW k PROVE Owns(b, k)' <=> Owns(b, k)
    BY <1>1, <2>2 DEF Owns
  <2>3. Apart'
    BY <2>2 DEF SessionInv, Apart
  <2>4. OneAtATime'
    BY <1>1 DEF SessionInv, OneAtATime
  <2>5. SessionKept'
    BY <1>1 DEF SessionInv, SessionKept, Idle
  <2>6. SmoothKnow'
    <3> SUFFICES ASSUME NEW r \in Requests, Owner[r] \notin rough, req[r] # None
                 PROVE  Knows(req'[r], cookies[Owner[r]].refresh, live)
      BY <1>0, <1>1 DEF SmoothKnow
    <3>1. Knows(req[r], cookies[Owner[r]].refresh, live)
      BY DEF SessionInv, SmoothKnow
    <3>2. CASE req[r] \in Waiting
      BY <1>1, <3>1, <3>2 DEF Knows, Waiting, Steps
    <3>3. CASE req[r] \in Answered
      BY <1>1, <3>1, <3>3
    <3> QED BY <1>0, <3>2, <3>3
  <2> QED BY <2>1, <2>3, <2>4, <2>5, <2>6 DEF SessionInv
<1>2. ASSUME NEW b \in Browsers, TokenExpires(b) PROVE SessionInv'
  <2> DEFINE Stale(r) == [req[r] EXCEPT !.access = "stale"]
  <2>1. /\ cookies' = [cookies EXCEPT ![b].access = "stale"]
        /\ UNCHANGED <<live, account, rough>>
        /\ \A r \in Requests :
             req'[r] = IF Owner[r] = b /\ At(r, "guard") /\ req[r].fresh = None
                         THEN [req[r] EXCEPT !.access = "stale"] ELSE req[r]
    BY <1>2 DEF TokenExpires
  <2>2. cookies' \in [Browsers -> Cookies]
        /\ \A d \in Browsers : cookies'[d].refresh = cookies[d].refresh
    BY <1>0, <2>1 DEF Cookies, Token
  <2>3. ASSUME NEW r \in Requests, At(r, "guard")
        PROVE  /\ req[r] \in Waiting /\ req[r] \notin Answered /\ Stale(r) \in Waiting
               /\ Stale(r).at = req[r].at /\ Stale(r).fresh = req[r].fresh
               /\ Stale(r).refresh = req[r].refresh /\ Stale(r).kind = req[r].kind
    <3>1. "guard" \in Steps
      BY DEF Steps
    <3>2. req[r] \in Waiting /\ req[r].at = "guard"
      BY <2>3, <3>1, WaitingAt
    <3>3. req[r] \notin Answered
      BY <3>2 DEF Answered
    <3> QED BY <3>2, <3>3 DEF Waiting, Token
  <2>4. ASSUME NEW r \in Requests
        PROVE  \/ req'[r] = req[r]
               \/ At(r, "guard") /\ req'[r] = Stale(r)
    BY <2>1
  <2> HIDE DEF Stale
  <2>5. ASSUME NEW r \in Requests, At(r, "guard")
        PROVE  req'[r] # None /\ req[r] # None
    BY <2>3, <2>4, <2>5, NoneAssumption
  <2>6. req' \in [Requests -> Waiting \cup Answered \cup {None}]
    <3>1. \A r \in Requests : req'[r] \in Waiting \cup Answered \cup {None}
      BY <1>0, <2>3, <2>4
    <3> QED BY <1>2, <3>1 DEF TokenExpires
  <2> QED BY <1>1, <2>1, <2>2, <2>3, <2>4, <2>5, <2>6
<1>3. ASSUME NEW b \in Browsers, CookieExpires(b) PROVE SessionInv'
  <2>1. cookies' \in [Browsers -> Cookies]
        /\ \A d \in Browsers : cookies'[d].refresh = cookies[d].refresh
    BY <1>0, <1>3 DEF CookieExpires, Cookies, Token
  <2> QED BY <1>0, <1>1, <1>3, <2>1 DEF CookieExpires
<1>4. ASSUME NEW b \in Browsers, Roughen(b) PROVE SessionInv'
  <2>1. rough' = rough \cup {b} /\ UNCHANGED <<live, account, cookies, req>>
    BY <1>4 DEF Roughen
  <2>2. TypeOK'
    BY <2>1 DEF SessionInv, TypeOK
  <2>3. Apart' /\ OneAtATime' /\ SmoothKnow' /\ SessionKept'
    BY <2>1 DEF SessionInv, Apart, Owns, OneAtATime, SmoothKnow, SessionKept, Idle
  <2> QED BY <2>2, <2>3 DEF SessionInv
<1>5. ASSUME NEW k \in Keys, SessionExpires(k) PROVE SessionInv'
  <2>1. live' = live \ {k} /\ UNCHANGED <<account, cookies, rough, req>> /\ Nobodys(k)
    BY <1>5 DEF SessionExpires, Nobodys, Owns
  <2>2. TypeOK' /\ Apart' /\ OneAtATime'
    BY <2>1 DEF SessionInv, TypeOK, Apart, Owns, OneAtATime
  <2>3. \A b \in Browsers : cookies[b].refresh # k
    BY <2>1 DEF Nobodys, Owns
  <2>4. SmoothKnow'
    <3> SUFFICES ASSUME NEW r \in Requests, Owner[r] \notin rough, req[r] # None
                 PROVE  Knows(req[r], cookies[Owner[r]].refresh, live')
      BY <2>1 DEF SmoothKnow
    <3>1. Knows(req[r], cookies[Owner[r]].refresh, live)
      BY DEF SessionInv, SmoothKnow
    <3>2. req[r].fresh # k
      BY <1>0, <2>1 DEF Nobodys, Owns
    <3> QED BY <1>0, <2>1, <2>3, <3>1, <3>2 DEF Knows
  <2>5. SessionKept'
    BY <2>1, <2>3 DEF SessionInv, SessionKept, Idle
  <2> QED BY <2>2, <2>4, <2>5 DEF SessionInv
<1>6. CASE SuspendOrRestore
  <2>1. account' \in {"ACTIVE", "SUSPENDED"} /\ UNCHANGED <<live, cookies, rough, req>>
    BY <1>6 DEF SuspendOrRestore
  <2> QED
    BY <2>1 DEF SessionInv, TypeOK, Apart, Owns, OneAtATime, SmoothKnow, SessionKept, Idle
<1> QED BY <1>2, <1>3, <1>4, <1>5, <1>6

LEMMA StepKeepsSessionInv == SessionInv /\ [Next]_vars => SessionInv'
<1> SUFFICES ASSUME SessionInv, [Next]_vars PROVE SessionInv'
  OBVIOUS
<1>1. CASE UNCHANGED vars
  BY <1>1 DEF vars, SessionInv, TypeOK, Apart, Owns, OneAtATime, SmoothKnow, SessionKept, Idle
<1>2. CASE Next
  BY <1>2, StartKeepsInv, ContinueKeepsInv, ArrivalKeepsInv, TimeKeepsInv DEF Next
<1> QED BY <1>1, <1>2
-----------------------------------------------------------------------------
\* The invariant holds always: whose every session is, and what is known of it
\* at every await of refresh, guard and logout.
THEOREM SessionInvHolds == Spec => []SessionInv
<1>1. Init => SessionInv
  BY InitSessionInv
<1>2. SessionInv /\ [Next]_vars => SessionInv'
  BY StepKeepsSessionInv
<1> QED BY <1>1, <1>2, PTL DEF Spec

\* Every variable of the sessions keeps its type.
THEOREM SessionsTypeCorrect == Spec => []TypeOK
<1>1. SessionInv => TypeOK
  BY DEF SessionInv
<1> QED BY <1>1, SessionInvHolds, PTL

\* refresh and the proxies keep the session of a browser whose requests come one
\* after the other and do not fail, whatever other browsers do.
THEOREM SessionStaysKept == Spec => []SessionKept
<1>1. SessionInv => SessionKept
  BY DEF SessionInv
<1> QED BY <1>1, SessionInvHolds, PTL

\* What refresh, logout or a refusal took out of such a browser's cookies is no
\* longer a session in Redis.
THEOREM WhatIsGivenUpIsOver == Spec => GivenUpIsOver
<1> DEFINE Over ==
      \A b \in Browsers \ rough :
        cookies'[b].refresh # cookies[b].refresh =>
          \/ cookies[b].refresh \notin live
          \/ \E r \in Requests : At(r, "done") /\ req[r].effect = "signIn" /\ req'[r] = None
<1>1. SessionInv /\ [Next]_vars => [Over]_vars
  <2> SUFFICES ASSUME SessionInv, Next PROVE Over
    OBVIOUS
  <2>0. cookies \in [Browsers -> Cookies] /\ (\A r \in Requests : Owner[r] \in Browsers)
        /\ req \in [Requests -> Waiting \cup Answered \cup {None}]
    BY OwnerAssumption DEF SessionInv, TypeOK
  <2>1. ASSUME NEW r \in Requests, AnswerClears(r) \/ AnswerSets(r) PROVE Over
    <3>1. req[r] # None /\ req[r].at = "done" /\ req[r].effect \in {"clear", "set", "signIn"}
          /\ req'[r] = None
      BY <2>0, <2>1 DEF AnswerClears, AnswerSets, At
    <3>2. \A d \in Browsers \ {Owner[r]} : cookies'[d] = cookies[d]
      BY <2>0, <2>1 DEF AnswerClears, AnswerSets
    <3>3. Owner[r] \notin rough /\ req[r].effect # "signIn" =>
            cookies[Owner[r]].refresh \notin live
      BY <3>1 DEF SessionInv, SmoothKnow, Knows
    <3> QED BY <3>1, <3>2, <3>3 DEF At
  <2>2. ASSUME NEW b \in Browsers, TokenExpires(b) \/ CookieExpires(b) PROVE Over
    <3>1. \A d \in Browsers : cookies'[d].refresh = cookies[d].refresh
      BY <2>0, <2>2 DEF TokenExpires, CookieExpires, Cookies
    <3> QED BY <3>1
  <2>3. ASSUME cookies' = cookies PROVE Over
    BY <2>3
  <2>4. ASSUME NEW r \in Requests, Start(r) PROVE cookies' = cookies
    BY <2>4 DEF Start, StartCall, StartSignedOut, StartSignIn, StartLogout, Begins
  <2>5. ASSUME NEW r \in Requests, Continue(r) \/ ApiFails(r) PROVE cookies' = cookies
    BY <2>5 DEF Continue, GuardAdmits, GuardRetries, GuardRefuses, MeFails, ReadSession,
                ReadAccount, Revoke, Rotate, Issue, EndSession, ApiFails
  <2>6. ASSUME NEW r \in Requests, AnswerKeeps(r) \/ Lose(r) PROVE cookies' = cookies
    BY <2>6 DEF AnswerKeeps, Lose
  <2>7. ASSUME \/ \E b \in Browsers : Roughen(b)
               \/ \E k \in Keys : SessionExpires(k)
               \/ SuspendOrRestore
        PROVE  cookies' = cookies
    BY <2>7 DEF Roughen, SessionExpires, SuspendOrRestore
  <2> QED BY <2>1, <2>2, <2>3, <2>4, <2>5, <2>6, <2>7 DEF Next, Arrives
<1> QED BY <1>1, SessionInvHolds, PTL DEF Spec, GivenUpIsOver
=============================================================================
