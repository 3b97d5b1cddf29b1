------------------------------- MODULE SignIn -------------------------------
(***************************************************************************)
(* How one mobile number signs in: login pages ask for a one-time code,    *)
(* the API keeps its digest in Redis and has it sent, and a page returns   *)
(* it.  Cool-down, code, attempts and hourly count are keys of their own   *)
(* in Redis, read and written one command at a time, so the requests of    *)
(* several pages interleave between any two commands; a request may die    *)
(* there, and an answer may be lost.  Two commands of one request that are *)
(* sent together (the code and the reset of its attempts) reach Redis on   *)
(* one connection, one right after the other: they are one step.           *)
(*                                                                         *)
(* Keys expire by themselves.  Two facts about time are assumed, and used  *)
(* where named: sending takes at most IPPANEL_TIMEOUT_MS (5 s), well below *)
(* the cool-down (60 s); and the attempts at a code are first counted      *)
(* after it was stored, with the same 5 minutes to live, so they go last.  *)
(*                                                                         *)
(* A code is a value of its own; digests, numbers and the account's other  *)
(* data are left out.  A request refused by its first command, which only  *)
(* shows a message, is no step.                                            *)
(*                                                                         *)
(* The operators marked (Slip: ...) are no part of the system: each is a   *)
(* step with one mistake in it, kept to see that the properties notice.    *)
(***************************************************************************)
EXTENDS Naturals

CONSTANTS
  None,            \* no code
  Wrong,           \* what a user types who misreads a code
  Codes,           \* codes the API may make
  Pages,           \* login pages open for the number at the same time
  Patient,         \* the page of a user who asks again until a code comes
  MaxRequests,     \* OTP_MAX_REQUESTS_PER_HOUR
  MaxAttempts,     \* OTP_MAX_VERIFY_ATTEMPTS
  Faults           \* whether requests die and messages get lost

ASSUME CodesAssumption  == None \notin Codes /\ Wrong \notin Codes /\ None # Wrong
ASSUME LimitsAssumption == MaxRequests \in Nat /\ MaxAttempts \in Nat \ {0}
ASSUME FaultsAssumption == Faults \in BOOLEAN
ASSUME PatientAssumption == Patient \in Pages

VARIABLES
  cooldown,        \* auth:otp:cooldown exists
  hour,            \* auth:otp:hour of the current hour
  code,            \* auth:otp:code, as the code it is the digest of
  attempts,        \* auth:otp:attempts
  tries,           \* (history) attempts counted since the code was stored
  inbox,           \* the newest code that reached the phone
  login            \* what each page, and the API for it, is doing

vars == <<cooldown, hour, code, attempts, tries, inbox, login>>
-----------------------------------------------------------------------------
\* The form a page shows; the API between its commands for it.
Forms      == {"phone", "code"}
Sending    == {"count", "release", "store", "send", "undo"}
Verifying  == {"expiry", "burn", "match", "forget", "open"}
InProgress == Sending \cup Verifying

\* code: the code made, or typed, for the request in progress; nth: which of
\* the tries at the stored code it is, 0 when that was stored afterwards.
Login == [at : Forms \cup InProgress,
          code : Codes \cup {None, Wrong}, nth : 0 .. MaxAttempts + 1]

At(step) == [at |-> step, code |-> None, nth |-> 0]

NoAttempts == [n |-> 0, ttl |-> FALSE]

\* Beyond a limit, how far beyond makes no difference to any handler.
UpTo(limit, n) == IF n > limit THEN limit + 1 ELSE n

\* Every part has its type, and no time to live outlives its counter.
TypeOK ==
  /\ cooldown \in BOOLEAN
  /\ hour \in 0 .. MaxRequests + 1
  /\ code \in Codes \cup {None}
  /\ attempts \in [n : 0 .. MaxAttempts + 1, ttl : BOOLEAN]
  /\ attempts.n = 0 => attempts = NoAttempts
  /\ tries \in 0 .. MaxAttempts + 1
  /\ inbox \in Codes \cup {None}
  /\ login \in [Pages -> Login]

Init ==
  /\ cooldown = FALSE /\ hour = 0
  /\ code = None /\ attempts = NoAttempts /\ tries = 0
  /\ inbox = None
  /\ login = [p \in Pages |-> At("phone")]
-----------------------------------------------------------------------------
(* Requesting a code.                                                      *)

Goes(p, from, to) == login[p].at = from /\ login' = [login EXCEPT ![p].at = to]

\* The request is over; its page shows the form, or an error on the old one
\* when the answer was lost.
Ends(p, from, answered, lost) ==
  /\ login[p].at = from
  /\ \E form \in {answered} \cup (IF Faults THEN {lost} ELSE {}) :
       login' = [login EXCEPT ![p] = At(form)]

\* (Slip: the cool-down is set, and not looked at.)
AskCodeAnytime(p) ==
  /\ Goes(p, "phone", "count")
  /\ cooldown' = TRUE
  /\ UNCHANGED <<hour, code, attempts, tries, inbox>>

AskCode(p) ==
  /\ ~cooldown
  /\ Goes(p, "phone", "count")
  /\ cooldown' = TRUE
  /\ UNCHANGED <<hour, code, attempts, tries, inbox>>

CountHour(p) ==
  /\ hour' = UpTo(MaxRequests, hour + 1)
  /\ Goes(p, "count", IF hour' > MaxRequests THEN "release" ELSE "store")
  /\ UNCHANGED <<cooldown, code, attempts, tries, inbox>>

\* (Slip: the attempts are deleted together with the cool-down.)
ReleaseCooldownAndAttempts(p) ==
  /\ Ends(p, "release", "phone", "phone")
  /\ cooldown' = FALSE /\ attempts' = NoAttempts
  /\ UNCHANGED <<hour, code, tries, inbox>>

ReleaseCooldown(p) ==
  /\ Ends(p, "release", "phone", "phone")
  /\ cooldown' = FALSE
  /\ UNCHANGED <<hour, code, attempts, tries, inbox>>

\* The next code made is none of those in somebody's hands; which of the others
\* it is makes no difference, as codes are only compared.
Known   == {code, inbox} \cup {login[p].code : p \in Pages}
NewCode == CHOOSE c \in Codes \ Known : TRUE

\* (Slip: a new code comes with the attempts made at the old one.)
StoreCodeAlone(p) ==
  /\ login[p].at = "store" /\ Codes \ Known # {}
  /\ code' = NewCode
  /\ login' = [q \in Pages |->
       IF q = p THEN [At("send") EXCEPT !.code = NewCode] ELSE [login[q] EXCEPT !.nth = 0]]
  /\ tries' = 0
  /\ UNCHANGED <<cooldown, hour, attempts, inbox>>

\* Verifications in progress were counted before the new code was there.
StoreCode(p) ==
  /\ login[p].at = "store" /\ Codes \ Known # {}
  /\ code' = NewCode
  /\ login' = [q \in Pages |->
       IF q = p THEN [At("send") EXCEPT !.code = NewCode] ELSE [login[q] EXCEPT !.nth = 0]]
  /\ attempts' = NoAttempts /\ tries' = 0
  /\ UNCHANGED <<cooldown, hour, inbox>>

\* The provider accepts the message or not, and it reaches the phone or not.
SendCode(p) ==
  /\ \/ Ends(p, "send", "code", "phone")
     \/ Faults /\ Goes(p, "send", "undo")
  /\ inbox' \in {login[p].code} \cup (IF Faults THEN {inbox} ELSE {})
  /\ UNCHANGED <<cooldown, hour, code, attempts, tries>>

UndoCode(p) ==
  /\ Ends(p, "undo", "phone", "phone")
  /\ code' = None /\ attempts' = NoAttempts /\ cooldown' = FALSE
  /\ UNCHANGED <<hour, tries, inbox>>
-----------------------------------------------------------------------------
(* Verifying a code.                                                       *)

Attempt(p) ==
  LET n == attempts.n + 1
      nth == UpTo(MaxAttempts, tries + 1)
  IN  /\ login[p].at = "code"
      /\ \E typed \in {inbox, Wrong} \ {None} :
           login' = [login EXCEPT ![p] =
             [at |-> IF n = 1 THEN "expiry" ELSE IF n > MaxAttempts THEN "burn" ELSE "match",
              code |-> typed, nth |-> IF code = None THEN 0 ELSE nth]]
      /\ attempts' = [attempts EXCEPT !.n = UpTo(MaxAttempts, n)]
      /\ tries' = nth
      /\ UNCHANGED <<cooldown, hour, code, inbox>>

\* (Slip: the time to live is given to a key that may be gone.)
SetExpiryAnyway(p) ==
  /\ Goes(p, "expiry", "match")
  /\ attempts' = [attempts EXCEPT !.ttl = TRUE]
  /\ UNCHANGED <<cooldown, hour, code, tries, inbox>>

\* EXPIRE finds the key, or nothing when it was deleted meanwhile.
SetExpiry(p) ==
  /\ Goes(p, "expiry", "match")
  /\ attempts' = IF attempts.n = 0 THEN attempts ELSE [attempts EXCEPT !.ttl = TRUE]
  /\ UNCHANGED <<cooldown, hour, code, tries, inbox>>

BurnCode(p) ==
  /\ Ends(p, "burn", "code", "code")
  /\ code' = None
  /\ UNCHANGED <<cooldown, hour, attempts, tries, inbox>>

MatchCode(p) ==
  /\ IF code = login[p].code
       THEN Goes(p, "match", "forget")
       ELSE Ends(p, "match", "code", "code")
  /\ UNCHANGED <<cooldown, hour, code, attempts, tries, inbox>>

ForgetCode(p) ==
  /\ Goes(p, "forget", "open")
  /\ code' = None /\ attempts' = NoAttempts
  /\ UNCHANGED <<cooldown, hour, tries, inbox>>

\* The account is found or made, its session is issued, and the page leaves the
\* login; or it stays with an error, when the account is suspended or the app
\* (of couriers, of the staff) does not take the session of others.
OpenSession(p) ==
  /\ \E form \in Forms : login[p].at = "open" /\ login' = [login EXCEPT ![p] = At(form)]
  /\ UNCHANGED <<cooldown, hour, code, attempts, tries, inbox>>
-----------------------------------------------------------------------------
(* The pages and the time.                                                 *)

\* "Another number", or the page is opened anew.
StartOver(p) ==
  /\ Goes(p, "code", "phone")
  /\ UNCHANGED <<cooldown, hour, code, attempts, tries, inbox>>

\* A request dies before its next command; its page shows an error.
Break(p) ==
  /\ Faults
  /\ \/ login[p].at \in Sending   /\ login' = [login EXCEPT ![p] = At("phone")]
     \/ login[p].at \in Verifying /\ login' = [login EXCEPT ![p] = At("code")]
  /\ UNCHANGED <<cooldown, hour, code, attempts, tries, inbox>>

\* Sending ends within the cool-down.
CooldownExpires ==
  /\ cooldown /\ \A p \in Pages : login[p].at \notin Sending
  /\ cooldown' = FALSE
  /\ UNCHANGED <<hour, code, attempts, tries, inbox, login>>

CodeExpires ==
  /\ code # None /\ \A p \in Pages : login[p].at \notin {"send", "undo"}
  /\ code' = None
  /\ UNCHANGED <<cooldown, hour, attempts, tries, inbox, login>>

\* The attempts at a code outlive it.
AttemptsExpire ==
  /\ attempts.ttl /\ code = None
  /\ attempts' = NoAttempts
  /\ UNCHANGED <<cooldown, hour, code, tries, inbox, login>>

HourTurns ==
  /\ hour > 0
  /\ hour' = 0
  /\ UNCHANGED <<cooldown, code, attempts, tries, inbox, login>>

Continue(p) ==
  \/ CountHour(p) \/ ReleaseCooldown(p) \/ StoreCode(p) \/ SendCode(p) \/ UndoCode(p)
  \/ SetExpiry(p) \/ BurnCode(p) \/ MatchCode(p) \/ ForgetCode(p)
  \/ OpenSession(p)

Expiry == CooldownExpires \/ CodeExpires \/ AttemptsExpire \/ HourTurns

Next ==
  \/ \E p \in Pages : AskCode(p) \/ Attempt(p) \/ Continue(p) \/ StartOver(p) \/ Break(p)
  \/ Expiry

Spec == Init /\ [][Next]_vars

\* Requests go on, and keys with a time to live expire; the patient user asks
\* for another code, again when told to wait, and requests for codes do not die
\* at one and the same command for ever.
FairSpec ==
  /\ Spec
  /\ \A p \in Pages : WF_vars(Continue(p))
  /\ SF_vars(StartOver(Patient)) /\ SF_vars(AskCode(Patient))
  /\ SF_vars(\E p \in Pages : CountHour(p)) /\ SF_vars(\E p \in Pages : StoreCode(p))
  /\ WF_vars(CooldownExpires) /\ WF_vars(HourTurns)
-----------------------------------------------------------------------------
\* The requests for a code take turns: between its cool-down and its last
\* command no other request writes, sends or takes back a code.
OneSender ==
  \A p, q \in Pages :
    login[p].at \in Sending => cooldown /\ (login[q].at \in Sending => p = q)

\* A code is compared with at most MaxAttempts of the attempts made at it, in
\* whatever order pages, expiries and deaths of requests mix.  (A verification
\* counted before the code was stored comes on top.)
TriesBounded == \A p \in Pages : login[p].at = "match" => login[p].nth <= MaxAttempts

\* A code leaves Redis only with its time, by a verification that matched it,
\* by too many tries at it, or because its own message failed.  (A verification
\* that was in progress when it was stored may take it along.)
Deserved(p) ==
  \/ login[p].at = "undo" /\ login[p].code = code
  \/ login[p].at = "forget" /\ (login[p].code = code \/ login[p].nth = 0)
  \/ login[p].at = "burn" /\ (login[p].nth > MaxAttempts \/ login[p].nth = 0)

CodeLasts ==
  [][code # None /\ code' # code =>
       \/ \E p \in Pages : Deserved(p) /\ login'[p].at # login[p].at
       \/ \E p \in Pages : login[p].at = "store" /\ login'[p].code = code'
       \/ CodeExpires]_vars

\* Failed attempts never lock a number out for good, not even when a request
\* dies before it gave the counter a time to live.
NumberRecovers == attempts.n > MaxAttempts ~> attempts.n <= MaxAttempts
=============================================================================
