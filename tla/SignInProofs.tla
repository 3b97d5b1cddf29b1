---------------------------- MODULE SignInProofs ----------------------------
(***************************************************************************)
(* Proofs about SignIn, for any number of pages, any codes and limits,     *)
(* with and without faults.  The invariant below says, of every step a     *)
(* request can be at, what the keys in Redis look like to it: that the     *)
(* sender in progress owns the code, and that the counter in Redis has     *)
(* missed no attempt at a code that can still be used.                     *)
(***************************************************************************)
EXTENDS SignIn, TLAPS

\* The counter is complete as long as there is a code to try.
Counted == code # None => attempts.n = tries

\* What a request may rely on before its next command.
Relies(p) ==
  /\ login[p].at \in {"send", "undo"} => login[p].code \in Codes /\ code \in {None, login[p].code}
  /\ login[p].at \in {"expiry", "match", "forget"} => login[p].nth <= MaxAttempts
  /\ login[p].at = "forget" => login[p].nth = 0 \/ code \in {None, login[p].code}
  /\ login[p].at = "burn" => login[p].nth = 0 \/ login[p].nth > MaxAttempts

SignInInv == TypeOK /\ OneSender /\ Counted /\ \A p \in Pages : Relies(p)

\* A counter one beyond its limit stays there.
LEMMA UpToRange ==
  ASSUME NEW limit \in Nat, NEW n \in Nat
  PROVE  /\ UpTo(limit, n) \in 0 .. limit + 1
         /\ UpTo(limit, n) > limit <=> n > limit
BY DEF UpTo

LEMMA NoAttemptsTyped ==
  /\ NoAttempts \in [n : 0 .. MaxAttempts + 1, ttl : BOOLEAN]
  /\ NoAttempts.n = 0
BY LimitsAssumption DEF NoAttempts

\* A page that shows a form again: the others are as they were.
LEMMA BackToForm ==
  ASSUME TypeOK, NEW p \in Pages, NEW form \in Forms,
         login' = [login EXCEPT ![p] = At(form)]
  PROVE  /\ login' \in [Pages -> Login]
         /\ login'[p].at \in Forms
         /\ \A q \in Pages \ {p} : login'[q] = login[q]
BY LimitsAssumption DEF TypeOK, Login, At, Forms, InProgress

\* Redis is empty and every page shows its first form.
LEMMA InitSignInInv == Init => SignInInv
<1> SUFFICES ASSUME Init PROVE SignInInv
  OBVIOUS
<1>1. login \in [Pages -> Login] /\ \A p \in Pages : login[p].at = "phone"
  BY LimitsAssumption DEF Init, Login, At, Forms, InProgress
<1>2. TypeOK
  <2>1. cooldown \in BOOLEAN /\ code \in Codes \cup {None} /\ inbox \in Codes \cup {None}
    BY DEF Init
  <2>2. hour \in 0 .. MaxRequests + 1 /\ tries \in 0 .. MaxAttempts + 1
    BY LimitsAssumption DEF Init
  <2>3. attempts \in [n : 0 .. MaxAttempts + 1, ttl : BOOLEAN]
        /\ (attempts.n = 0 => attempts = NoAttempts)
    BY NoAttemptsTyped DEF Init
  <2> QED BY <1>1, <2>1, <2>2, <2>3 DEF TypeOK
<1>3. OneSender /\ Counted /\ \A p \in Pages : Relies(p)
  BY <1>1 DEF Init, OneSender, Counted, Relies, Sending
<1> QED BY <1>2, <1>3 DEF SignInInv

\* Each command of a request for a code.
LEMMA SendersKeepInv ==
  ASSUME SignInInv, NEW p \in Pages,
         AskCode(p) \/ CountHour(p) \/ ReleaseCooldown(p) \/ StoreCode(p) \/ SendCode(p)
           \/ UndoCode(p)
  PROVE  SignInInv'
<1> USE CodesAssumption, LimitsAssumption
    DEF SignInInv, TypeOK, NoAttempts, Login, Forms, InProgress, Sending,
        Verifying, At, OneSender, Counted, Relies
<1>1. CASE AskCode(p)
  BY <1>1 DEF AskCode, Goes
<1>2. CASE CountHour(p)
  <2>1. hour' \in 0 .. MaxRequests + 1
    BY <1>2, UpToRange DEF CountHour
  <2>2. \E step \in {"release", "store"} :
          login[p].at = "count" /\ login' = [login EXCEPT ![p].at = step]
    BY <1>2 DEF CountHour, Goes
  <2>3. UNCHANGED <<cooldown, code, attempts, tries, inbox>>
    BY <1>2 DEF CountHour
  <2> QED BY <2>1, <2>2, <2>3
<1>3. CASE ReleaseCooldown(p)
  <2>1. PICK form \in Forms : login' = [login EXCEPT ![p] = At(form)]
    BY <1>3 DEF ReleaseCooldown, Ends
  <2>2. /\ login' \in [Pages -> Login]
        /\ login'[p].at \in Forms
        /\ \A q \in Pages \ {p} : login'[q] = login[q]
    BY <2>1, BackToForm
  <2>3. login[p].at = "release"
    BY <1>3 DEF ReleaseCooldown, Ends
  <2>4. TypeOK'
    BY <1>3, <2>2 DEF ReleaseCooldown
  <2>5. OneSender'
    BY <1>3, <2>2, <2>3 DEF ReleaseCooldown
  <2>6. Counted'
    BY <1>3 DEF ReleaseCooldown
  <2>7. ASSUME NEW q \in Pages PROVE Relies(q)'
    BY <1>3, <2>2, <2>3 DEF ReleaseCooldown
  <2> QED BY <2>4, <2>5, <2>6, <2>7
<1>4. CASE StoreCode(p)
  <2>1. NewCode \in Codes
    BY <1>4 DEF StoreCode, NewCode
  <2> QED BY <1>4, <2>1 DEF StoreCode
<1>5. CASE SendCode(p)
  <2>1. /\ login[p].at = "send"
        /\ \/ \E form \in Forms : login' = [login EXCEPT ![p] = At(form)]
           \/ login' = [login EXCEPT ![p].at = "undo"]
    BY <1>5 DEF SendCode, Ends, Goes
  <2>2. UNCHANGED <<cooldown, hour, code, attempts, tries>>
    BY <1>5 DEF SendCode
  <2> QED BY <1>5, <2>1, <2>2 DEF SendCode
<1>6. CASE UndoCode(p)
  <2>1. PICK form \in Forms : login' = [login EXCEPT ![p] = At(form)]
    BY <1>6 DEF UndoCode, Ends
  <2>2. /\ login' \in [Pages -> Login]
        /\ login'[p].at \in Forms
        /\ \A q \in Pages \ {p} : login'[q] = login[q]
    BY <2>1, BackToForm
  <2>3. login[p].at = "undo"
    BY <1>6 DEF UndoCode, Ends
  <2>4. TypeOK'
    <3>1. cooldown' \in BOOLEAN /\ code' = None /\ attempts' = NoAttempts
      BY <1>6 DEF UndoCode
    <3>2. UNCHANGED <<hour, tries, inbox>>
      BY <1>6 DEF UndoCode
    <3> QED BY <2>2, <3>1, <3>2, NoAttemptsTyped
  <2>5. OneSender'
    BY <1>6, <2>2, <2>3 DEF UndoCode
  <2>6. Counted'
    BY <1>6 DEF UndoCode
  <2>7. ASSUME NEW q \in Pages PROVE Relies(q)'
    BY <1>6, <2>2, <2>3 DEF UndoCode
  <2> QED BY <2>4, <2>5, <2>6, <2>7
<1> QED BY <1>1, <1>2, <1>3, <1>4, <1>5, <1>6

\* Each command of a verification.
LEMMA VerifiersKeepInv ==
  ASSUME SignInInv, NEW p \in Pages,
         Attempt(p) \/ SetExpiry(p) \/ BurnCode(p) \/ MatchCode(p) \/ ForgetCode(p)
           \/ OpenSession(p)
  PROVE  SignInInv'
<1> USE CodesAssumption, LimitsAssumption
    DEF SignInInv, TypeOK, NoAttempts, Login, Forms, InProgress, Sending,
        Verifying, At, OneSender, Counted, Relies
<1>1. CASE Attempt(p)
  <2> DEFINE n == attempts.n + 1
             nth == UpTo(MaxAttempts, tries + 1)
  <2>1. PICK typed \in {inbox, Wrong} \ {None} :
          login' = [login EXCEPT ![p] =
            [at |-> IF n = 1 THEN "expiry" ELSE IF n > MaxAttempts THEN "burn" ELSE "match",
             code |-> typed, nth |-> IF code = None THEN 0 ELSE nth]]
    BY <1>1 DEF Attempt
  <2>2. /\ nth \in 0 .. MaxAttempts + 1
        /\ nth > MaxAttempts <=> tries + 1 > MaxAttempts
        /\ UpTo(MaxAttempts, n) \in 1 .. MaxAttempts + 1
        /\ attempts.n = tries => UpTo(MaxAttempts, n) = nth
    BY DEF UpTo
  <2>3. /\ login' \in [Pages -> Login]
        /\ \A q \in Pages \ {p} : login'[q] = login[q]
        /\ login'[p].at \in {"expiry", "burn", "match"}
        /\ login'[p].at = "burn" => n > MaxAttempts
        /\ login'[p].at # "burn" => n <= MaxAttempts
        /\ login'[p].nth = IF code = None THEN 0 ELSE nth
    BY <2>1, <2>2
  <2>4. /\ attempts' = [attempts EXCEPT !.n = UpTo(MaxAttempts, n)]
        /\ tries' = nth
        /\ login[p].at = "code"
        /\ UNCHANGED <<cooldown, hour, code, inbox>>
    BY <1>1 DEF Attempt
  <2> HIDE DEF n, nth
  <2>5. TypeOK'
    BY <2>2, <2>3, <2>4
  <2>6. OneSender'
    BY <2>3, <2>4
  <2>7. Counted'
    BY <2>2, <2>4
  <2>8. ASSUME NEW q \in Pages PROVE Relies(q)'
    BY <2>2, <2>3, <2>4 DEF n
  <2> QED BY <2>5, <2>6, <2>7, <2>8
<1>2. CASE SetExpiry(p)
  <2>1. /\ login[p].at = "expiry"
        /\ login' = [login EXCEPT ![p].at = "match"]
        /\ UNCHANGED <<cooldown, hour, code, tries, inbox>>
    BY <1>2 DEF SetExpiry, Goes
  <2>2. CASE attempts.n = 0
    BY <1>2, <2>1, <2>2 DEF SetExpiry
  <2>3. CASE attempts.n # 0
    <3>1. attempts' = [attempts EXCEPT !.ttl = TRUE]
      BY <1>2, <2>3 DEF SetExpiry
    <3>2. attempts' \in [n : 0 .. MaxAttempts + 1, ttl : BOOLEAN] /\ attempts'.n = attempts.n
      BY <3>1
    <3> QED BY <2>1, <2>3, <3>2
  <2> QED BY <2>2, <2>3
<1>3. CASE BurnCode(p)
  BY <1>3 DEF BurnCode, Ends
<1>4. CASE MatchCode(p)
  BY <1>4 DEF MatchCode, Ends, Goes
<1>5. CASE ForgetCode(p)
  BY <1>5 DEF ForgetCode, Goes
<1>6. CASE OpenSession(p)
  BY <1>6 DEF OpenSession
<1> QED BY <1>1, <1>2, <1>3, <1>4, <1>5, <1>6

\* Pages that start over, requests that die, keys that expire.
LEMMA OthersKeepInv ==
  ASSUME SignInInv, Expiry \/ \E p \in Pages : StartOver(p) \/ Break(p)
  PROVE  SignInInv'
<1> USE CodesAssumption, LimitsAssumption
    DEF SignInInv, TypeOK, NoAttempts, Login, Forms, InProgress, Sending,
        Verifying, At, OneSender, Counted, Relies
<1>1. ASSUME NEW p \in Pages, StartOver(p)
      PROVE  SignInInv'
  BY <1>1 DEF StartOver, Goes
<1>2. ASSUME NEW p \in Pages, Break(p)
      PROVE  SignInInv'
  BY <1>2 DEF Break
<1>3. CASE CooldownExpires
  BY <1>3 DEF CooldownExpires
<1>4. CASE CodeExpires
  BY <1>4 DEF CodeExpires
<1>5. CASE AttemptsExpire
  BY <1>5 DEF AttemptsExpire
<1>6. CASE HourTurns
  BY <1>6 DEF HourTurns
<1> QED BY <1>1, <1>2, <1>3, <1>4, <1>5, <1>6 DEF Expiry

LEMMA StepKeepsInv == SignInInv /\ [Next]_vars => SignInInv'
<1> SUFFICES ASSUME SignInInv, [Next]_vars PROVE SignInInv'
  OBVIOUS
<1>1. CASE UNCHANGED vars
  BY <1>1 DEF vars, SignInInv, TypeOK, OneSender, Counted, Relies
<1>2. CASE Next
  BY <1>2, SendersKeepInv, VerifiersKeepInv, OthersKeepInv DEF Next, Continue
<1> QED BY <1>1, <1>2

\* What a request relies on holds whenever it goes on.
THEOREM SignInInvHolds == Spec => []SignInInv
<1>1. Init => SignInInv
  BY InitSignInInv
<1>2. SignInInv /\ [Next]_vars => SignInInv'
  BY StepKeepsInv
<1> QED BY <1>1, <1>2, PTL DEF Spec

\* Every variable of the sign-in keeps its type.
THEOREM SignInTypeCorrect == Spec => []TypeOK
<1>1. SignInInv => TypeOK
  BY DEF SignInInv
<1> QED BY <1>1, SignInInvHolds, PTL

\* Requests for a code take turns, whatever dies and expires around them.
THEOREM SendersTakeTurns == Spec => []OneSender
<1>1. SignInInv => OneSender
  BY DEF SignInInv
<1> QED BY <1>1, SignInInvHolds, PTL

\* No more than MaxAttempts of the attempts at a code are compared with it.
THEOREM TriesAreBounded == Spec => []TriesBounded
<1>1. SignInInv => TriesBounded
  BY DEF SignInInv, Relies, TriesBounded
<1> QED BY <1>1, SignInInvHolds, PTL

\* A code leaves Redis only for one of the reasons CodeLasts lists: no page can
\* lose the code another one was sent, but for those already verifying.
THEOREM CodesLast == Spec => CodeLasts
<1> DEFINE Reason == \/ \E p \in Pages : Deserved(p) /\ login'[p].at # login[p].at
                     \/ \E p \in Pages : login[p].at = "store" /\ login'[p].code = code'
                     \/ CodeExpires
           Change == code # None /\ code' # code
<1>1. SignInInv /\ [Next]_vars /\ Change => Reason
  <2> SUFFICES ASSUME SignInInv, Next, Change PROVE Reason
    BY DEF vars
  <2>1. ASSUME NEW p \in Pages, UndoCode(p) PROVE Reason
    <3>1. Deserved(p)
      BY <2>1 DEF UndoCode, Ends, SignInInv, Relies, Deserved
    <3>2. login'[p].at = "phone" /\ login[p].at = "undo"
      BY <2>1 DEF UndoCode, Ends, SignInInv, TypeOK, At
    <3> QED BY <3>1, <3>2
  <2>2. ASSUME NEW p \in Pages, ForgetCode(p) PROVE Reason
    <3>1. Deserved(p)
      BY <2>2 DEF ForgetCode, Goes, SignInInv, Relies, Deserved
    <3>2. login'[p].at = "open" /\ login[p].at = "forget"
      BY <2>2 DEF ForgetCode, Goes, SignInInv, TypeOK, Login
    <3> QED BY <3>1, <3>2
  <2>3. ASSUME NEW p \in Pages, BurnCode(p) PROVE Reason
    <3>1. Deserved(p)
      BY <2>3 DEF BurnCode, Ends, SignInInv, Relies, Deserved
    <3>2. login'[p].at = "code" /\ login[p].at = "burn"
      BY <2>3 DEF BurnCode, Ends, SignInInv, TypeOK, At
    <3> QED BY <3>1, <3>2
  <2>4. ASSUME NEW p \in Pages, StoreCode(p) PROVE Reason
    BY <2>4 DEF StoreCode, At, SignInInv, TypeOK
  <2>5. CASE CodeExpires
    BY <2>5
  <2>6. ASSUME NEW p \in Pages,
               \/ AskCode(p) \/ CountHour(p) \/ ReleaseCooldown(p) \/ SendCode(p)
               \/ Attempt(p) \/ SetExpiry(p) \/ MatchCode(p) \/ OpenSession(p)
               \/ StartOver(p) \/ Break(p)
        PROVE  code' = code
    BY <2>6 DEF AskCode, CountHour, ReleaseCooldown, SendCode, Attempt, SetExpiry,
                MatchCode, OpenSession, StartOver, Break
  <2>7. CooldownExpires \/ AttemptsExpire \/ HourTurns => code' = code
    BY DEF CooldownExpires, AttemptsExpire, HourTurns
  <2> QED BY <2>1, <2>2, <2>3, <2>4, <2>5, <2>6, <2>7 DEF Next, Continue, Expiry
<1>2. SignInInv /\ [Next]_vars => [Change => Reason]_vars
  BY <1>1
<1> QED BY <1>2, SignInInvHolds, PTL DEF Spec, CodeLasts
=============================================================================
