------------------------------ MODULE ClientsProof ------------------------------
(***************************************************************************)
(* Theorems about what an application calls before anything reaches a      *)
(* node: signing in, for every set of accounts and of responses and any    *)
(* number of requests, calls and sign-outs; the calls of the naming        *)
(* contract, for every name and salt; the integers a transaction carries,  *)
(* for every width; and reward addresses, for every address.               *)
(***************************************************************************)
EXTENDS SignIn, ClientInput, TLAPS, SequenceTheorems, FiniteSetTheorems, WellFoundedInduction

--------------------------------------------------------------------------------
(* The inductive invariant.                                                *)

Profiles == {"inline", "fetched", "blank", "no"}

\* What verifyAuthResponse has established of a response.
Verified(token) == token.keys = <<token.iss>> /\ token.signer = token.iss

\* What SignedInSoundly says of the user of any session there ever was.
Sound(user) ==
    user # NoUser =>
        /\ Verified(user.token)
        /\ user.key.of = user.token.key.of
        /\ NeedsTransitKey(user.token) => user.key.to = NoKey

\* A call in flight holds a verified response and an object that is still there; once it
\* waits for a profile its key has been opened.
CallsOK ==
    \A c \in InFlight :
        /\ call[c].object \in 1..Len(objects)
        /\ Verified(call[c].token)
        /\ call[c].pc = "fetching" => ~Unopened(c)

SessionsSound == \A i \in 1..Len(objects) : Sound(objects[i].user)

\* As long as nothing has overtaken a call in flight, what it will write is the session
\* the store has now, with another user in it.
CallsCurrent ==
    ~overtaken =>
        /\ getSessionData = asked
        /\ \A c \in InFlight :
              IF live THEN call[c].object = held
              ELSE call[c].session.transitKey = asked.transitKey

Inv == TypeOK /\ CallsOK /\ SessionsSound /\ CallsCurrent

--------------------------------------------------------------------------------
(* Calls, secrets and users.                                               *)

\* The keys of the model.
LEMMA KeyTypes ==
    /\ MaxRequests \in Nat /\ MaxCalls \in Nat
    /\ NoKey \in TransitKeys /\ NobodysKey \in TransitKeys
    /\ \A n \in 0..MaxRequests : n \in TransitKeys
  BY SignInAssumption DEF NoKey, NobodysKey, TransitKeys

\* A call in flight is a pending one, and the only kind with a token.
LEMMA InFlightIsPending ==
    ASSUME TypeOK, NEW c \in Calls
    PROVE  /\ call[c] \in {Idle, Done} \cup Failed \cup Pending
           /\ c \in InFlight <=> call[c] \in Pending
           /\ c \in InFlight <=> call[c].pc = "opening" \/ call[c].pc = "fetching"
  <1>1. call[c] \in {Idle, Done} \cup Failed \cup Pending
    BY DEF TypeOK
  <1>2. call[c] \in Pending <=> call[c].pc \in {"opening", "fetching"}
    BY <1>1 DEF Idle, Done, Failed, Pending
  <1> QED BY <1>1, <1>2 DEF InFlight

\* Opening a secret keeps whose key it is; what cannot be opened stays as it was.
LEMMA OpenedSecret ==
    ASSUME NEW k \in TransitKeys, NEW s \in Secrets
    PROVE  /\ decryptPrivateKey(k, s) \in Secrets
           /\ decryptPrivateKey(k, s).of = s.of
           /\ Decrypts(k, s) \/ s.to = NoKey => decryptPrivateKey(k, s).to = NoKey
  BY KeyTypes DEF decryptPrivateKey, Decrypts, Secrets

\* The user a call opens is well formed.
LEMMA OpenedUserOK ==
    ASSUME NEW c \in Calls, call[c] \in Pending, NEW p \in Profiles
    PROVE  /\ OpenedUser(c, p) \in Users
           /\ OpenedUser(c, p) # NoUser
           /\ OpenedUser(c, p).token = call[c].token
           /\ OpenedUser(c, p).key.of = call[c].token.key.of
  <1> DEFINE t == call[c].token
             k == call[c].session.transitKey
             Open(s) == IF NeedsTransitKey(t) THEN decryptPrivateKey(k, s) ELSE s
  <1>1. t \in Tokens /\ k \in TransitKeys
    BY DEF Pending, Sessions
  <1>2. t.key \in Secrets /\ t.core \in Secrets
    BY <1>1 DEF Tokens
  <1>3. Open(t.key) \in Secrets /\ Open(t.core) \in Secrets /\ Open(t.key).of = t.key.of
    BY <1>1, <1>2, OpenedSecret
  <1>4. OpenedUser(c, p) = [token |-> t, key |-> Open(t.key), core |-> Open(t.core),
                            profile |-> p]
    BY DEF OpenedUser
  <1> HIDE DEF t, Open
  <1>5. OpenedUser(c, p) \in Users
    BY <1>1, <1>3, <1>4 DEF Users, Profiles
  <1>6. OpenedUser(c, p) # NoUser
    BY <1>4 DEF NoUser
  <1> QED BY <1>3, <1>4, <1>5, <1>6 DEF t

\* The user a call opens is sound, once its key could be opened.
LEMMA OpenedUserSound ==
    ASSUME NEW c \in Calls, call[c] \in Pending, NEW p \in Profiles,
           Verified(call[c].token), ~Unopened(c)
    PROVE  Sound(OpenedUser(c, p))
  <1> DEFINE t == call[c].token
             k == call[c].session.transitKey
             u == OpenedUser(c, p)
  <1>1. t \in Tokens /\ k \in TransitKeys /\ t.key \in Secrets
    BY DEF Pending, Sessions, Tokens
  <1>2. u.token = t /\ u.key.of = t.key.of
    BY OpenedUserOK
  <1>3. CASE ~NeedsTransitKey(t)
    BY <1>2, <1>3 DEF Sound
  <1>4. CASE NeedsTransitKey(t)
    <2>1. u.key = decryptPrivateKey(k, t.key)
      BY <1>4 DEF OpenedUser
    <2>2. t.key.of = "none" \/ Decrypts(k, t.key) \/ isValidPrivateKey(t.key)
      BY <1>4 DEF Unopened
    <2>3. Decrypts(k, t.key) \/ t.key.to = NoKey
      BY <1>1, <2>2, SignInAssumption DEF isValidPrivateKey, Secrets
    <2>4. u.key.to = NoKey
      BY <1>1, <2>1, <2>3, OpenedSecret
    <2> QED BY <1>2, <2>4 DEF Sound
  <1> QED BY <1>3, <1>4

--------------------------------------------------------------------------------
(* Steps.                                                                  *)

\* One session of the store is replaced.
LEMMA PutSession ==
    ASSUME TypeOK, NEW i \in 1..Len(objects), NEW s \in Sessions
    PROVE  LET put == [objects EXCEPT ![i] = s] IN
           /\ put \in Seq(Sessions)
           /\ Len(put) = Len(objects)
           /\ \A j \in 1..Len(objects) : put[j] = IF j = i THEN s ELSE objects[j]
  BY ExceptSeq DEF TypeOK

\* Every session of the store is one.
LEMMA SessionTypes ==
    ASSUME TypeOK
    PROVE  /\ Len(objects) \in Nat
           /\ \A i \in 1..Len(objects) : objects[i] \in Sessions
           /\ getSessionData \in Sessions
  BY ElementOfSeq, LenProperties DEF TypeOK, getSessionData

\* A call that settles is no longer in flight, and the others are as they were.
LEMMA SettledCall ==
    ASSUME TypeOK, NEW c \in Calls, NEW end \in {Done} \cup Failed,
           call' = [call EXCEPT ![c] = end]
    PROVE  /\ call' \in [Calls -> {Idle, Done} \cup Failed \cup Pending]
           /\ InFlight' = InFlight \ {c}
           /\ \A d \in InFlight' : d \in InFlight /\ call'[d] = call[d]
  <1>1. call \in [Calls -> {Idle, Done} \cup Failed \cup Pending]
    BY DEF TypeOK
  <1>2. end.pc \notin {"opening", "fetching"}
    BY DEF Done, Failed
  <1>3. /\ call'[c] = end
        /\ \A d \in Calls \ {c} : call'[d] = call[d]
    BY <1>1
  <1> QED BY <1>1, <1>2, <1>3 DEF InFlight

\* A call fails: nothing else changes.
LEMMA FailsKeeps ==
    ASSUME Inv, NEW c \in Calls, NEW why \in {"existing", "invalid", "transit", "network"},
           call' = [call EXCEPT ![c] = [pc |-> "failed", why |-> why]],
           UNCHANGED <<live, objects, held, requests, now, asked, overtaken>>
    PROVE  Inv'
  <1>1. [pc |-> "failed", why |-> why] \in Failed
    BY DEF Failed
  <1>2. /\ call' \in [Calls -> {Idle, Done} \cup Failed \cup Pending]
        /\ \A d \in InFlight' : d \in InFlight /\ call'[d] = call[d]
    BY <1>1, SettledCall DEF Inv
  <1>3. TypeOK'
    BY <1>2 DEF Inv, TypeOK
  <1>4. CallsOK'
    BY <1>2 DEF Inv, CallsOK, Unopened
  <1>5. SessionsSound'
    BY DEF Inv, SessionsSound
  <1>6. CallsCurrent'
    BY <1>2 DEF Inv, CallsCurrent, getSessionData
  <1> QED BY <1>3, <1>4, <1>5, <1>6 DEF Inv

\* A request: the transit key of the session the store holds changes.
LEMMA RequestKeeps == Inv /\ makeAuthRequestToken => Inv'
  <1> SUFFICES ASSUME Inv, makeAuthRequestToken PROVE Inv'
    OBVIOUS
  <1> DEFINE s == [objects[held] EXCEPT !.transitKey = requests + 1]
  <1>1. /\ requests + 1 \in 0..MaxRequests
        /\ held \in 1..Len(objects)
        /\ objects[held] \in Sessions /\ asked \in Sessions
    BY KeyTypes, SessionTypes DEF Inv, TypeOK, makeAuthRequestToken
  <1>2. s \in Sessions /\ s.user = objects[held].user
    BY <1>1, KeyTypes DEF Sessions
  <1>3. objects' = [objects EXCEPT ![held] = s]
    BY DEF makeAuthRequestToken
  <1> HIDE DEF s
  <1>4. /\ objects' \in Seq(Sessions) /\ Len(objects') = Len(objects)
        /\ \A j \in 1..Len(objects) : objects'[j] = IF j = held THEN s ELSE objects[j]
    BY <1>1, <1>2, <1>3, PutSession DEF Inv
  <1>5. asked' \in Sessions
    BY <1>1, KeyTypes DEF Sessions, makeAuthRequestToken
  <1>6. InFlight' = InFlight
    BY DEF InFlight, makeAuthRequestToken
  <1>7. TypeOK'
    BY <1>1, <1>4, <1>5 DEF Inv, TypeOK, makeAuthRequestToken
  <1>8. CallsOK'
    BY <1>4, <1>6 DEF Inv, CallsOK, Unopened, makeAuthRequestToken
  <1>9. SessionsSound'
    BY <1>1, <1>2, <1>4 DEF Inv, SessionsSound
  <1>10. CallsCurrent'
    <2> SUFFICES ASSUME ~overtaken', getSessionData = asked
                 PROVE  CallsCurrent'
      BY DEF Inv, CallsCurrent, makeAuthRequestToken
    <2>1. getSessionData' = asked'
      BY <1>1, <1>4 DEF getSessionData, makeAuthRequestToken, s
    <2>2. \A c \in InFlight' : live' /\ call'[c].object = held'
      BY <1>6 DEF Inv, CallsCurrent, makeAuthRequestToken
    <2> QED BY <2>1, <2>2 DEF CallsCurrent
  <1> QED BY <1>7, <1>8, <1>9, <1>10 DEF Inv

\* A sign-out: the store holds a new, empty session.
LEMMA SignOutKeeps == Inv /\ signUserOut => Inv'
  <1> SUFFICES ASSUME Inv, signUserOut PROVE Inv'
    OBVIOUS
  <1>1. Empty \in Sessions /\ Empty.user = NoUser
    BY KeyTypes DEF Empty, Sessions
  <1>2. /\ objects' \in Seq(Sessions) /\ Len(objects') = Len(objects) + 1
        /\ \A i \in 1..Len(objects) : objects'[i] = objects[i]
        /\ objects'[Len(objects) + 1] = Empty
    BY <1>1, AppendProperties DEF Inv, TypeOK, signUserOut
  <1>3. held' = Len(objects) + 1 /\ Len(objects) \in Nat
    BY SessionTypes DEF Inv, signUserOut
  <1>4. InFlight' = InFlight
    BY DEF InFlight, signUserOut
  <1>5. TypeOK'
    BY <1>1, <1>2, <1>3 DEF Inv, TypeOK, signUserOut
  <1>6. CallsOK'
    BY <1>2, <1>3, <1>4 DEF Inv, CallsOK, Unopened, signUserOut
  <1>7. SessionsSound'
    <2>1. \A i \in 1..Len(objects') : i \in 1..Len(objects) \/ i = Len(objects) + 1
      BY <1>2, <1>3
    <2> QED BY <1>1, <1>2, <2>1 DEF Inv, SessionsSound, Sound
  <1>8. CallsCurrent'
    BY <1>2, <1>3, <1>4 DEF CallsCurrent, getSessionData, signUserOut
  <1> QED BY <1>5, <1>6, <1>7, <1>8 DEF Inv

\* A call starts: it fails, or is in flight with a response that has been verified, and
\* with the session and the object of the moment.
LEMMA StartKeeps ==
    ASSUME Inv, NEW c \in Calls, NEW token \in Responses, handlePendingSignIn(c, token)
    PROVE  Inv'
  <1> DEFINE p == [pc |-> "opening", token |-> token, session |-> getSessionData,
                   object |-> held]
  <1>1. CASE isUserSignedIn
    BY <1>1, FailsKeeps DEF handlePendingSignIn
  <1>2. CASE ~isUserSignedIn /\ ~verifyAuthResponse(token)
    BY <1>2, FailsKeeps DEF handlePendingSignIn
  <1>3. CASE ~isUserSignedIn /\ verifyAuthResponse(token)
    <2>1. /\ call' = [call EXCEPT ![c] = p]
          /\ UNCHANGED <<live, objects, held, requests, now, asked, overtaken>>
      BY <1>3 DEF handlePendingSignIn
    <2>2. token \in Tokens /\ held \in 1..Len(objects) /\ held \in Nat
      BY ResponsesAssumption, SessionTypes DEF Inv, TypeOK
    <2>3. p \in Pending
      BY <2>2, SessionTypes DEF Inv, Pending
    <2>4. /\ call' \in [Calls -> {Idle, Done} \cup Failed \cup Pending]
          /\ call'[c] = p
          /\ \A d \in Calls \ {c} : call'[d] = call[d]
      BY <2>1, <2>3 DEF Inv, TypeOK
    <2>5. \A d \in InFlight' : d = c \/ (d \in InFlight /\ call'[d] = call[d])
      BY <2>4 DEF InFlight
    <2>6. Verified(token)
      <3>1. token.keys \in {<<a>> : a \in Accounts} \cup {<<a, b>> : a, b \in Accounts}
        BY <2>2 DEF Tokens
      <3>2. Len(token.keys) = 1 /\ token.keys[1] = token.iss /\ token.signer = token.keys[1]
        BY <1>3 DEF verifyAuthResponse, doSignaturesMatchPublicKeys, doPublicKeysMatchIssuer
      <3> QED BY <3>1, <3>2 DEF Verified
    <2>7. TypeOK'
      BY <2>1, <2>4 DEF Inv, TypeOK
    <2>8. CallsOK'
      <3> SUFFICES ASSUME NEW d \in InFlight'
                   PROVE  /\ call'[d].object \in 1..Len(objects')
                          /\ Verified(call'[d].token)
                          /\ call'[d].pc = "fetching" => ~Unopened(d)'
        BY DEF CallsOK
      <3>1. CASE d = c
        BY <3>1, <2>1, <2>2, <2>4, <2>6
      <3>2. CASE d # c
        BY <3>2, <2>1, <2>5 DEF Inv, CallsOK, Unopened
      <3> QED BY <3>1, <3>2
    <2>9. SessionsSound'
      BY <2>1 DEF Inv, SessionsSound
    <2>10. CallsCurrent'
      BY <2>1, <2>4, <2>5 DEF Inv, CallsCurrent, getSessionData
    <2> QED BY <2>7, <2>8, <2>9, <2>10 DEF Inv
  <1> QED BY <1>1, <1>2, <1>3

\* A call goes on to ask for the profile.
LEMMA FetchKeeps == ASSUME Inv, NEW c \in Calls, FetchProfile(c) PROVE Inv'
  <1>1. c \in InFlight /\ call[c] \in Pending
    BY InFlightIsPending DEF Inv, FetchProfile
  <1> DEFINE p == [call[c] EXCEPT !.pc = "fetching"]
  <1>2. /\ p \in Pending /\ p.pc = "fetching" /\ p.token = call[c].token
        /\ p.session = call[c].session /\ p.object = call[c].object
    BY <1>1 DEF Pending
  <1>3. /\ call' = [call EXCEPT ![c] = p]
        /\ UNCHANGED <<live, objects, held, requests, now, asked, overtaken>>
    BY DEF FetchProfile
  <1> HIDE DEF p
  <1>4. /\ call' \in [Calls -> {Idle, Done} \cup Failed \cup Pending]
        /\ call'[c] = p
        /\ \A d \in Calls \ {c} : call'[d] = call[d]
    BY <1>2, <1>3 DEF Inv, TypeOK
  <1>5. \A d \in InFlight' :
            /\ d \in InFlight /\ call'[d].token = call[d].token
            /\ call'[d].session = call[d].session /\ call'[d].object = call[d].object
            /\ d = c \/ call'[d] = call[d]
    BY <1>1, <1>2, <1>4 DEF InFlight
  <1>6. TypeOK'
    BY <1>3, <1>4 DEF Inv, TypeOK
  <1>7. CallsOK'
    <2>1. ~Unopened(c)
      BY DEF FetchProfile
    <2> QED BY <1>3, <1>5, <2>1 DEF Inv, CallsOK, Unopened
  <1>8. SessionsSound'
    BY <1>3 DEF Inv, SessionsSound
  <1>9. CallsCurrent'
    BY <1>3, <1>5 DEF Inv, CallsCurrent, getSessionData
  <1> QED BY <1>6, <1>7, <1>8, <1>9 DEF Inv

\* A call ends well: its user goes into the object it holds, or with the session it read
\* over the one the store has.
LEMMA StoreKeeps ==
    ASSUME Inv, NEW c \in InFlight, NEW profile \in Profiles, ~Unopened(c), Store(c, profile)
    PROVE  Inv'
  <1> DEFINE u == OpenedUser(c, profile)
             i == IF live THEN call[c].object ELSE held
             s == IF live THEN [objects[i] EXCEPT !.user = u]
                  ELSE [call[c].session EXCEPT !.user = u]
  <1>1. c \in Calls /\ call[c] \in Pending /\ call[c].session \in Sessions
    BY InFlightIsPending DEF Inv, InFlight, Pending
  <1>2. u \in Users /\ Sound(u)
    <2>1. Verified(call[c].token)
      BY DEF Inv, CallsOK
    <2> QED BY <1>1, <2>1, OpenedUserOK, OpenedUserSound
  <1>3. i \in 1..Len(objects) /\ objects[i] \in Sessions
    BY SessionTypes DEF Inv, TypeOK, CallsOK
  <1>4. /\ objects' = [objects EXCEPT ![i] = s] /\ held' = i
        /\ asked' = [asked EXCEPT !.user = u]
        /\ call' = [call EXCEPT ![c] = Done]
        /\ UNCHANGED <<live, requests, now, overtaken>>
    BY DEF Store
  <1> HIDE DEF u, i
  <1>5. s \in Sessions /\ s.user = u
    BY <1>1, <1>2, <1>3 DEF Sessions
  <1>6. asked \in Sessions /\ asked' \in Sessions
    BY <1>2, <1>4 DEF Inv, TypeOK, Sessions
  <1>7. live => s.transitKey = objects[i].transitKey
    BY <1>3 DEF Sessions
  <1>8. ~live => s.transitKey = call[c].session.transitKey
    BY <1>1 DEF Sessions
  <1> HIDE DEF s
  <1>9. /\ objects' \in Seq(Sessions) /\ Len(objects') = Len(objects)
        /\ \A j \in 1..Len(objects) : objects'[j] = IF j = i THEN s ELSE objects[j]
    BY <1>3, <1>4, <1>5, PutSession DEF Inv
  <1>10. /\ call' \in [Calls -> {Idle, Done} \cup Failed \cup Pending]
         /\ \A d \in InFlight' : d \in InFlight /\ call'[d] = call[d]
    BY <1>1, <1>4, SettledCall DEF Inv
  <1>11. TypeOK'
    BY <1>3, <1>4, <1>6, <1>9, <1>10 DEF Inv, TypeOK
  <1>12. CallsOK'
    BY <1>9, <1>10 DEF Inv, CallsOK, Unopened
  <1>13. SessionsSound'
    BY <1>2, <1>5, <1>9 DEF Inv, SessionsSound
  <1>14. CallsCurrent'
    <2> SUFFICES ASSUME ~overtaken PROVE CallsCurrent'
      BY <1>4 DEF CallsCurrent
    <2>1. /\ objects[held] = asked
          /\ \A d \in InFlight : IF live THEN call[d].object = held
                                 ELSE call[d].session.transitKey = asked.transitKey
      BY DEF Inv, CallsCurrent, getSessionData
    <2>2. i = held
      BY <2>1 DEF i
    <2>3. s.transitKey = asked.transitKey
      BY <1>7, <1>8, <2>1, <2>2
    <2>4. asked'.transitKey = asked.transitKey /\ asked'.user = u
      BY <1>4, <1>6 DEF Sessions
    <2>5. s = asked'
      BY <1>5, <1>6, <2>3, <2>4 DEF Sessions
    <2>6. getSessionData' = asked'
      BY <1>3, <1>4, <1>9, <2>5 DEF getSessionData
    <2> QED BY <1>4, <1>10, <2>1, <2>2, <2>4, <2>6 DEF CallsCurrent
  <1> QED BY <1>11, <1>12, <1>13, <1>14 DEF Inv

\* A tick of the clock: nothing of the invariant depends on it.
LEMMA TickKeeps == Inv /\ Tick => Inv'
  <1> SUFFICES ASSUME Inv, Tick PROVE Inv'
    OBVIOUS
  <1>1. TypeOK'
    BY SignInAssumption DEF Inv, TypeOK, Tick
  <1>2. CallsOK'
    BY DEF Inv, CallsOK, InFlight, Unopened, Tick
  <1>3. SessionsSound'
    BY DEF Inv, SessionsSound, Tick
  <1>4. CallsCurrent'
    BY DEF Inv, CallsCurrent, InFlight, getSessionData, Tick
  <1> QED BY <1>1, <1>2, <1>3, <1>4 DEF Inv

\* A call that has been started goes on.
LEMMA ContinueKeeps == ASSUME Inv, NEW c \in Calls, Continue(c) PROVE Inv'
  <1>1. CASE Refuse(c)
    BY <1>1, FailsKeeps DEF Refuse, Fails
  <1>2. CASE Opened(c)
    <2>1. c \in InFlight /\ call[c] \in Pending
      BY <1>2, InFlightIsPending DEF Inv, Opened
    <2>2. call[c].token.profile \in Profiles
      BY <1>2, <2>1 DEF Pending, Tokens, Profiles, Opened
    <2> QED BY <1>2, <2>1, <2>2, StoreKeeps DEF Opened
  <1>3. CASE FetchProfile(c)
    BY <1>3, FetchKeeps
  <1>4. CASE ProfileFetched(c)
    <2>1. c \in InFlight /\ ~Unopened(c)
      BY <1>4, InFlightIsPending DEF Inv, CallsOK, ProfileFetched
    <2>2. "fetched" \in Profiles /\ "blank" \in Profiles
      BY DEF Profiles
    <2> QED BY <1>4, <2>1, <2>2, StoreKeeps DEF ProfileFetched
  <1>5. CASE ProfileFails(c)
    BY <1>5, FailsKeeps DEF ProfileFails, Fails
  <1> QED BY <1>1, <1>2, <1>3, <1>4, <1>5 DEF Continue

\* The invariant holds at the start.
LEMMA InitInv == Init => Inv
  <1> SUFFICES ASSUME Init PROVE Inv
    OBVIOUS
  <1>1. Empty \in Sessions /\ Empty.user = NoUser
    BY KeyTypes DEF Empty, Sessions
  <1>2. /\ objects \in Seq(Sessions) /\ Len(objects) = 1
        /\ objects[1] = Empty /\ held = 1
    BY <1>1 DEF Init
  <1>3. InFlight = {}
    BY DEF Init, InFlight, Idle
  <1>4. TypeOK
    <2>1. held \in 1..Len(objects)
      BY <1>2
    <2>2. requests \in 0..MaxRequests /\ now \in 0..MaxTime
      BY SignInAssumption DEF Init
    <2>3. call \in [Calls -> {Idle, Done} \cup Failed \cup Pending]
      BY DEF Init
    <2>4. live \in BOOLEAN /\ overtaken \in BOOLEAN /\ asked \in Sessions
      BY <1>1 DEF Init
    <2> QED BY <1>2, <2>1, <2>2, <2>3, <2>4 DEF TypeOK
  <1>5. SessionsSound
    BY <1>1, <1>2 DEF SessionsSound, Sound
  <1>6. CallsOK /\ CallsCurrent
    BY <1>2, <1>3 DEF Init, CallsOK, CallsCurrent, getSessionData
  <1> QED BY <1>4, <1>5, <1>6 DEF Inv

\* The invariant is inductive: one case per action.
LEMMA NextInv == Inv /\ [Next]_vars => Inv'
  <1> SUFFICES ASSUME Inv, [Next]_vars PROVE Inv'
    OBVIOUS
  <1>1. CASE makeAuthRequestToken
    BY <1>1, RequestKeeps
  <1>2. CASE signUserOut
    BY <1>2, SignOutKeeps
  <1>3. CASE Tick
    BY <1>3, TickKeeps
  <1>4. CASE Begin
    BY <1>4, StartKeeps DEF Begin
  <1>5. CASE \E c \in Calls : Continue(c)
    BY <1>5, ContinueKeeps
  <1>6. CASE UNCHANGED vars
    BY <1>6 DEF vars, Inv, TypeOK, CallsOK, SessionsSound, CallsCurrent, InFlight, Unopened,
                getSessionData
  <1> QED BY <1>1, <1>2, <1>3, <1>4, <1>5, <1>6 DEF Next

\* The invariant is invariant.
LEMMA Invariance == Spec => []Inv
  BY InitInv, NextInv, PTL DEF Spec

--------------------------------------------------------------------------------
(* What follows.                                                           *)

\* Sessions, requests and calls are what the model says they are.
THEOREM SignInTypeCorrect == Spec => []TypeOK
  <1>1. Inv => TypeOK
    BY DEF Inv
  <1> QED BY <1>1, Invariance, PTL

\* As long as no request or sign-out overtakes a sign-in, no number of overlapping
\* sign-ins, requests and sign-outs makes the session differ from what was asked.
THEOREM SessionFollows == Spec => []SessionAsAsked
  <1>1. Inv => SessionAsAsked
    BY DEF Inv, CallsCurrent, SessionAsAsked
  <1> QED BY <1>1, Invariance, PTL

\* Whatever responses there are, who is signed in has signed theirs, alone, under the
\* address it claims, and the key the app uses is the one the response carried, opened
\* where the version check says that it comes sealed.
THEOREM SignedInIsSound == Spec => []SignedInSoundly
  <1>1. ASSUME Inv PROVE SignedInSoundly
    <2>1. held \in 1..Len(objects)
      BY <1>1 DEF Inv, TypeOK
    <2>2. Sound(getSessionData.user)
      BY <1>1, <2>1 DEF Inv, SessionsSound, getSessionData
    <2> QED BY <2>2 DEF Sound, Verified, SignedInSoundly, isUserSignedIn
  <1> QED BY <1>1, Invariance, PTL

--------------------------------------------------------------------------------
(* Induction.                                                              *)

\* Induction over the naturals: a set with 0 and with the successors of its members has all.
LEMMA SetInduction ==
    ASSUME NEW S, 0 \in S, \A n \in Nat : n \in S => n + 1 \in S
    PROVE  Nat \subseteq S
  <1> DEFINE T == Nat \ S
             R == OpToRel(<, Nat)
  <1> SUFFICES ASSUME T # {} PROVE FALSE
    OBVIOUS
  <1>1. IsWellFoundedOn(R, Nat)
    BY NatLessThanWellFounded
  <1>2. PICK x \in T : \A y \in T : <<y, x>> \notin R
    <2> HIDE DEF R
    <2> QED BY <1>1, WFMin
  <1>3. \A y \in T : ~(y < x)
    BY <1>2 DEF OpToRel
  <1> HIDE DEF R
  <1>4. x \in Nat /\ x \notin S /\ x # 0 /\ x - 1 \in Nat
    OBVIOUS
  <1>5. x - 1 \in S
    BY <1>3, <1>4
  <1> QED BY <1>4, <1>5

--------------------------------------------------------------------------------
(* Text as bytes.                                                          *)

\* What a caller may pass as a name or a salt, and what it is as bytes.
Texts == Seq(Nat)
Bytes == Seq(Nat)

\* The bytes of a code point are a sequence of numbers.
LEMMA CodePointBytes ==
    ASSUME NEW c \in Nat
    PROVE  codePointToBytes(c) \in Bytes
  <1>1. ASSUME NEW k \in Nat PROVE Continuation(k) \in Nat
    BY DEF Continuation
  <1>2. c \div 64 \in Nat /\ c \div 4096 \in Nat /\ c \div 262144 \in Nat
    BY SMT
  <1>3. Continuation(c) \in Nat /\ Continuation(c \div 64) \in Nat /\ Continuation(c \div 4096) \in Nat
    BY <1>1, <1>2
  <1>4. <<c>> \in Bytes
    BY DEF Bytes
  <1>5. <<192 + c \div 64, Continuation(c)>> \in Bytes
    BY <1>2, <1>3 DEF Bytes
  <1>6. <<224 + c \div 4096, Continuation(c \div 64), Continuation(c)>> \in Bytes
    BY <1>2, <1>3 DEF Bytes
  <1>7. <<240 + c \div 262144, Continuation(c \div 4096), Continuation(c \div 64),
          Continuation(c)>> \in Bytes
    BY <1>2, <1>3 DEF Bytes
  <1> QED BY <1>4, <1>5, <1>6, <1>7 DEF codePointToBytes

\* p[i] is the bytes of the first i of the n code points of a text.
IsBytesOf(p, text, n) ==
    /\ p[0] = <<>>
    /\ \A i \in 1..n : p[i] = p[i - 1] \o codePointToBytes(text[i])

\* So are those of the beginning of a text.
LEMMA PrefixIsBytes ==
    ASSUME NEW text \in Texts, NEW p, NEW n \in Nat, n <= Len(text), IsBytesOf(p, text, n)
    PROVE  \A i \in 0..n : p[i] \in Bytes
  <1> DEFINE S == {i \in Nat : i <= n => p[i] \in Bytes}
  <1>1. 0 \in S
    <2>1. <<>> \in Bytes
      BY EmptySeq DEF Bytes
    <2> QED BY <2>1 DEF IsBytesOf
  <1>2. ASSUME NEW i \in Nat, i \in S PROVE i + 1 \in S
    <2> SUFFICES ASSUME i + 1 <= n PROVE p[i + 1] \in Bytes
      OBVIOUS
    <2>1. p[i] \in Bytes /\ i + 1 \in 1..n /\ (i + 1) - 1 = i
      BY <1>2
    <2>2. p[i + 1] = p[i] \o codePointToBytes(text[i + 1])
      BY <2>1 DEF IsBytesOf
    <2>3. text[i + 1] \in Nat
      <3>1. i + 1 \in 1..Len(text)
        BY DEF Texts
      <3> QED BY <3>1, ElementOfSeq DEF Texts
    <2>4. codePointToBytes(text[i + 1]) \in Bytes
      BY <2>3, CodePointBytes
    <2> QED BY <2>1, <2>2, <2>4, ConcatProperties DEF Bytes
  <1> HIDE DEF S
  <1>3. Nat \subseteq S
    BY <1>1, <1>2, SetInduction
  <1> QED BY <1>3 DEF S

\* What FlattenSeq computes, one sequence after the other.
IsFlat(g, seqs, n) == g = [i \in 1..n |-> IF i = 1 THEN seqs[i] ELSE g[i - 1] \o seqs[i]]

\* There is one of every length, so what FlattenSeq chooses is one.
LEMMA FlatExists ==
    ASSUME NEW seqs
    PROVE  \A n \in Nat : \E g : IsFlat(g, seqs, n)
  <1> DEFINE S == {n \in Nat : \E g : IsFlat(g, seqs, n)}
  <1>1. 0 \in S
    <2>1. IsFlat([i \in 1..0 |-> 0], seqs, 0)
      BY DEF IsFlat
    <2> QED BY <2>1
  <1>2. ASSUME NEW n \in Nat, n \in S PROVE n + 1 \in S
    <2>1. PICK g : IsFlat(g, seqs, n)
      BY <1>2
    <2> DEFINE F(i) == IF i = n + 1 THEN (IF i = 1 THEN seqs[i] ELSE g[i - 1] \o seqs[i]) ELSE g[i]
               h == [i \in 1..(n + 1) |-> F(i)]
    <2>2. ASSUME NEW i \in 1..(n + 1)
          PROVE  F(i) = IF i = 1 THEN seqs[i] ELSE h[i - 1] \o seqs[i]
      <3>1. i # 1 => i - 1 \in 1..(n + 1) /\ i - 1 # n + 1
        OBVIOUS
      <3>2. i # 1 => h[i - 1] = g[i - 1]
        BY <3>1
      <3> HIDE DEF h
      <3>3. CASE i = n + 1
        BY <3>2, <3>3
      <3>4. CASE i # n + 1
        <4>1. i \in 1..n
          BY <3>4
        <4>2. g[i] = IF i = 1 THEN seqs[i] ELSE g[i - 1] \o seqs[i]
          BY <2>1, <4>1 DEF IsFlat
        <4> QED BY <3>2, <3>4, <4>2
      <3> QED BY <3>3, <3>4
    <2>3. IsFlat(h, seqs, n + 1)
      <3> HIDE DEF F
      <3>1. h = [i \in 1..(n + 1) |-> F(i)]
        OBVIOUS
      <3> HIDE DEF h
      <3> QED BY <2>2, <3>1 DEF IsFlat
    <2> HIDE DEF h
    <2> QED BY <2>3
  <1> HIDE DEF S
  <1>3. Nat \subseteq S
    BY <1>1, <1>2, SetInduction
  <1> QED BY <1>3 DEF S

\* The bytes of a text are those of its code points in turn.
LEMMA TextBytes ==
    ASSUME NEW text \in Texts
    PROVE  \E p : IsBytesOf(p, text, Len(text)) /\ utf8ToBytes(text) = p[Len(text)]
  <1> DEFINE n == Len(text)
             seqs == [i \in DOMAIN text |-> codePointToBytes(text[i])]
             g == CHOOSE g : IsFlat(g, seqs, n)
             p == [i \in 0..n |-> IF i = 0 THEN <<>> ELSE g[i]]
  <1>1. n \in Nat /\ DOMAIN text = 1..n
    BY LenProperties DEF Texts
  <1>2. \A i \in 1..n : seqs[i] = codePointToBytes(text[i]) /\ seqs[i] \in Bytes
    <2> TAKE i \in 1..n
    <2>1. text[i] \in Nat
      BY ElementOfSeq DEF Texts
    <2> QED BY <1>1, <2>1, CodePointBytes
  <1>3. Len(seqs) = n
    BY <1>1
  <1>4. IsFlat(g, seqs, n)
    <2> HIDE DEF seqs, n
    <2> QED BY <1>1, FlatExists
  <1>5. utf8ToBytes(text) = IF n = 0 THEN seqs ELSE g[n]
    <2>1. utf8ToBytes(text) = FlattenSeq(seqs)
      BY DEF utf8ToBytes
    <2> HIDE DEF seqs
    <2>2. FlattenSeq(seqs) = IF n = 0 THEN seqs ELSE g[n]
      <3> HIDE DEF n
      <3> QED BY <1>3 DEF FlattenSeq, IsFlat
    <2> QED BY <2>1, <2>2
  <1> HIDE DEF g
  <1>6. p[n] = utf8ToBytes(text)
    <2>1. CASE n = 0
      <3>1. seqs = <<>>
        BY <1>1, <2>1
      <3> QED BY <1>5, <2>1, <3>1
    <2>2. CASE n # 0
      <3> HIDE DEF seqs
      <3> QED BY <1>1, <1>5, <2>2
    <2> QED BY <2>1, <2>2
  <1>7. IsBytesOf(p, text, n)
    <2>1. p[0] = <<>>
      BY <1>1
    <2>2. ASSUME NEW i \in 1..n PROVE p[i] = p[i - 1] \o codePointToBytes(text[i])
      <3>1. p[i] = g[i] /\ g[i] = IF i = 1 THEN seqs[i] ELSE g[i - 1] \o seqs[i]
        <4> HIDE DEF seqs
        <4>1. p[i] = g[i]
          BY <1>1
        <4> HIDE DEF p
        <4> QED BY <1>4, <4>1 DEF IsFlat
      <3>2. seqs[i] = codePointToBytes(text[i]) /\ seqs[i] \in Bytes
        BY <1>2
      <3> HIDE DEF seqs
      <3>3. CASE i = 1
        <4>1. p[i - 1] = <<>>
          BY <2>1, <3>3
        <4>2. <<>> \o seqs[i] = seqs[i]
          BY <3>2, ConcatEmptySeq DEF Bytes
        <4> HIDE DEF p
        <4> QED BY <3>1, <3>2, <3>3, <4>1, <4>2
      <3>4. CASE i # 1
        <4>1. p[i - 1] = g[i - 1]
          BY <1>1, <3>4
        <4> HIDE DEF p
        <4> QED BY <3>1, <3>2, <3>4, <4>1
      <3> QED BY <3>3, <3>4
    <2> HIDE DEF p
    <2> QED BY <2>1, <2>2 DEF IsBytesOf
  <1> HIDE DEF p
  <1> QED BY <1>6, <1>7 DEF n

\* The bytes of a text are a sequence of numbers.
LEMMA BytesAreNumbers ==
    ASSUME NEW text \in Texts
    PROVE  utf8ToBytes(text) \in Bytes
  <1>1. PICK p : IsBytesOf(p, text, Len(text)) /\ utf8ToBytes(text) = p[Len(text)]
    BY TextBytes
  <1>2. Len(text) \in Nat
    BY DEF Texts
  <1> QED BY <1>1, <1>2, PrefixIsBytes

\* How bytes were put together does not matter.
LEMMA BytesAssociate ==
    ASSUME NEW a \in Bytes, NEW b \in Bytes, NEW c \in Bytes
    PROVE  (a \o b) \o c = a \o (b \o c)
  <1> DEFINE S == Nat
  <1>1. a \in Seq(S) /\ b \in Seq(S) /\ c \in Seq(S)
    BY DEF Bytes
  <1> HIDE DEF S
  <1> QED BY <1>1, ConcatAssociative

\* The bytes of two texts are those of the first, then those of the second.
LEMMA BytesOfConcat ==
    ASSUME NEW s \in Texts, NEW t \in Texts
    PROVE  utf8ToBytes(s \o t) = utf8ToBytes(s) \o utf8ToBytes(t)
  <1> DEFINE m == Len(s)
             k == Len(t)
  <1>1. /\ m \in Nat /\ k \in Nat /\ s \o t \in Texts /\ Len(s \o t) = m + k
        /\ \A i \in 1..m : (s \o t)[i] = s[i]
        /\ \A j \in 1..k : (s \o t)[m + j] = t[j]
    BY DEF Texts
  <1>2. PICK p : IsBytesOf(p, s \o t, Len(s \o t)) /\ utf8ToBytes(s \o t) = p[Len(s \o t)]
    BY <1>1, TextBytes
  <1>3. PICK g : IsBytesOf(g, s, m) /\ utf8ToBytes(s) = g[m]
    BY TextBytes
  <1>4. PICK h : IsBytesOf(h, t, k) /\ utf8ToBytes(t) = h[k]
    BY TextBytes
  <1>5. IsBytesOf(p, s \o t, m + k) /\ utf8ToBytes(s \o t) = p[m + k]
    BY <1>1, <1>2
  <1> HIDE DEF m, k
  <1>6. p[m] = g[m]
    <2> DEFINE S == {i \in Nat : i <= m => p[i] = g[i]}
    <2>1. 0 \in S
      BY <1>3, <1>5 DEF IsBytesOf
    <2>2. ASSUME NEW i \in Nat, i \in S PROVE i + 1 \in S
      <3> SUFFICES ASSUME i + 1 <= m PROVE p[i + 1] = g[i + 1]
        OBVIOUS
      <3>1. p[i] = g[i] /\ i + 1 \in 1..m /\ i + 1 \in 1..(m + k) /\ (i + 1) - 1 = i
        BY <1>1, <2>2
      <3>2. p[i + 1] = p[i] \o codePointToBytes((s \o t)[i + 1])
        BY <1>5, <3>1 DEF IsBytesOf
      <3>3. g[i + 1] = g[i] \o codePointToBytes(s[i + 1])
        BY <1>3, <3>1 DEF IsBytesOf
      <3> QED BY <1>1, <3>1, <3>2, <3>3
    <2> HIDE DEF S
    <2>3. Nat \subseteq S
      BY <2>1, <2>2, SetInduction
    <2> QED BY <1>1, <2>3 DEF S
  <1>7. g[m] \in Bytes /\ \A j \in 0..k : h[j] \in Bytes
    <2>1. \A i \in 0..m : g[i] \in Bytes
      BY <1>1, <1>3, PrefixIsBytes DEF m
    <2>2. \A j \in 0..k : h[j] \in Bytes
      BY <1>1, <1>4, PrefixIsBytes DEF k
    <2> QED BY <1>1, <2>1, <2>2
  <1>8. p[m + k] = g[m] \o h[k]
    <2> DEFINE Q(j) == p[m + j] = g[m] \o h[j]
               S == {j \in Nat : j <= k => Q(j)}
    <2>1. Q(0)
      <3>1. h[0] = <<>> /\ m + 0 = m
        BY <1>1, <1>4 DEF IsBytesOf
      <3>2. g[m] \o <<>> = g[m]
        BY <1>7, ConcatEmptySeq DEF Bytes
      <3> QED BY <1>6, <3>1, <3>2
    <2>2. ASSUME NEW j \in Nat, j + 1 <= k, Q(j) PROVE Q(j + 1)
      <3>1. /\ j + 1 \in 1..k /\ (j + 1) - 1 = j /\ j \in 0..k
            /\ m + (j + 1) \in 1..(m + k) /\ (m + (j + 1)) - 1 = m + j
        BY <1>1, <2>2
      <3>2. p[m + (j + 1)] = p[m + j] \o codePointToBytes((s \o t)[m + (j + 1)])
        BY <1>5, <3>1 DEF IsBytesOf
      <3>3. h[j + 1] = h[j] \o codePointToBytes(t[j + 1])
        BY <1>4, <3>1 DEF IsBytesOf
      <3>4. (s \o t)[m + (j + 1)] = t[j + 1]
        BY <1>1, <3>1
      <3>5. codePointToBytes(t[j + 1]) \in Bytes
        <4>1. t[j + 1] \in Nat
          BY <3>1, ElementOfSeq DEF Texts, k
        <4> QED BY <4>1, CodePointBytes
      <3>6. (g[m] \o h[j]) \o codePointToBytes(t[j + 1]) = g[m] \o (h[j] \o codePointToBytes(t[j + 1]))
        BY <1>7, <3>1, <3>5, BytesAssociate
      <3> QED BY <2>2, <3>2, <3>3, <3>4, <3>6
    <2> HIDE DEF Q
    <2>3. 0 \in S /\ \A j \in Nat : j \in S => j + 1 \in S
      BY <1>1, <2>1, <2>2
    <2> HIDE DEF S
    <2>4. Nat \subseteq S
      BY <2>3, SetInduction
    <2>5. Q(k)
      BY <1>1, <2>4 DEF S
    <2> QED BY <2>5 DEF Q
  <1> QED BY <1>3, <1>4, <1>5, <1>8

\* The byte of the dot is the one the contract puts between the parts.
LEMMA DotBytes == utf8ToBytes(<<Dot>>) = <<Dot>>
  <1>1. <<Dot>> \in Texts /\ Len(<<Dot>>) = 1 /\ <<Dot>>[1] = Dot
    BY DEF Texts, Dot
  <1>2. PICK p : IsBytesOf(p, <<Dot>>, 1) /\ utf8ToBytes(<<Dot>>) = p[1]
    BY <1>1, TextBytes
  <1>3. p[1] = p[0] \o codePointToBytes(Dot) /\ p[0] = <<>>
    <2>1. 1 \in 1..1 /\ 1 - 1 = 0
      OBVIOUS
    <2>2. p[1] = p[1 - 1] \o codePointToBytes(<<Dot>>[1]) /\ p[0] = <<>>
      BY <1>2, <2>1 DEF IsBytesOf
    <2> QED BY <1>1, <2>1, <2>2
  <1>4. codePointToBytes(Dot) = <<Dot>>
    BY DEF codePointToBytes, Dot
  <1>5. <<>> \o <<Dot>> = <<Dot>>
    BY <1>1, ConcatEmptySeq DEF Texts
  <1> QED BY <1>2, <1>3, <1>4, <1>5

--------------------------------------------------------------------------------
(* The parts of a name.                                                    *)

\* The members of a set of numbers below one of them, and how many there are.
Below(S, i) == {j \in S : j < i}
RankIs(S, i, k) == i \in S /\ Cardinality(Below(S, i)) = k

\* The member of the set that follows one of them.
IsNext(S, i, j) == i \in S /\ j \in S /\ i < j /\ \A x \in S : x <= i \/ j <= x

\* One member has as many below it.
LEMMA RankIsOne ==
    ASSUME NEW S, S \subseteq Nat, IsFiniteSet(S), NEW i, NEW j, NEW k, RankIs(S, i, k), RankIs(S, j, k)
    PROVE  i = j
  <1>1. /\ i \in S /\ j \in S /\ i \in Nat /\ j \in Nat
        /\ Cardinality(Below(S, i)) = Cardinality(Below(S, j))
    BY DEF RankIs
  <1>2. ASSUME NEW x \in S, NEW y \in S, x < y, Cardinality(Below(S, x)) = Cardinality(Below(S, y))
        PROVE  FALSE
    <2>1. x \in Nat /\ y \in Nat
      OBVIOUS
    <2>2. ASSUME NEW z \in Below(S, x) PROVE z \in Below(S, y)
      <3>1. z \in S /\ z \in Nat /\ z < x
        BY DEF Below
      <3>2. z < y
        BY <1>2, <2>1, <3>1
      <3> QED BY <3>1, <3>2 DEF Below
    <2>3. x \in Below(S, y) /\ x \notin Below(S, x)
      BY <1>2, <2>1 DEF Below
    <2>4. IsFiniteSet(Below(S, y))
      BY FS_Subset DEF Below
    <2>5. Below(S, x) = Below(S, y)
      BY <1>2, <2>2, <2>4, FS_Subset
    <2> QED BY <2>3, <2>5
  <1>3. i < j \/ j < i \/ i = j
    BY <1>1
  <1> QED BY <1>1, <1>2, <1>3

\* The member that follows has one more.
LEMMA NextRank ==
    ASSUME NEW S, S \subseteq Nat, IsFiniteSet(S), NEW i, NEW j, NEW k, RankIs(S, i, k), IsNext(S, i, j)
    PROVE  RankIs(S, j, k + 1)
  <1>1. i \in S /\ j \in S /\ i \in Nat /\ j \in Nat /\ i < j
    BY DEF IsNext
  <1>2. ASSUME NEW x PROVE x \in Below(S, j) <=> x \in Below(S, i) \cup {i}
    <2>1. x \in S => x \in Nat /\ (x <= i \/ j <= x)
      BY DEF IsNext
    <2> QED BY <1>1, <2>1 DEF Below
  <1>3. IsFiniteSet(Below(S, i)) /\ i \notin Below(S, i)
    BY <1>1, FS_Subset DEF Below
  <1>4. Below(S, j) = Below(S, i) \cup {i}
    BY <1>2
  <1>5. Cardinality(Below(S, j)) = Cardinality(Below(S, i)) + 1
    BY <1>3, <1>4, FS_AddElement
  <1> QED BY <1>1, <1>5 DEF RankIs

\* The last one has all the others.
LEMMA LastRank ==
    ASSUME NEW S, S \subseteq Nat, IsFiniteSet(S), NEW i, NEW k, RankIs(S, i, k), \A x \in S : x <= i
    PROVE  Cardinality(S) = k + 1
  <1>1. i \in S /\ i \in Nat
    BY DEF RankIs
  <1>2. ASSUME NEW x PROVE x \in S <=> x \in Below(S, i) \cup {i}
    <2>1. x \in S => x \in Nat /\ x <= i
      OBVIOUS
    <2> QED BY <1>1, <2>1 DEF Below
  <1>3. IsFiniteSet(Below(S, i)) /\ i \notin Below(S, i)
    BY <1>1, FS_Subset DEF Below
  <1>4. S = Below(S, i) \cup {i}
    BY <1>2
  <1> QED BY <1>3, <1>4, FS_AddElement DEF RankIs

\* One that is not the last does not.
LEMMA HigherRank ==
    ASSUME NEW S, S \subseteq Nat, IsFiniteSet(S), NEW i, NEW j, NEW k, RankIs(S, i, k), j \in S, i < j
    PROVE  Cardinality(S) > k + 1
  <1>1. i \in S /\ i \in Nat /\ j \in Nat
    BY DEF RankIs
  <1>2. Below(S, i) \cup {i} \subseteq S \ {j} /\ i \notin Below(S, i)
    <2>1. ASSUME NEW x \in Below(S, i) PROVE x \in S \ {j}
      BY <1>1 DEF Below
    <2> QED BY <1>1, <2>1 DEF Below
  <1>3. IsFiniteSet(Below(S, i)) /\ IsFiniteSet(S \ {j}) /\ Cardinality(S \ {j}) = Cardinality(S) - 1
    BY FS_Subset, FS_RemoveElement DEF Below
  <1>4. Cardinality(Below(S, i) \cup {i}) = k + 1
    BY <1>2, <1>3, FS_AddElement DEF RankIs
  <1>5. Cardinality(Below(S, i) \cup {i}) <= Cardinality(S \ {j})
    BY <1>2, <1>3, FS_Subset
  <1>6. Cardinality(S) \in Nat /\ k \in Nat
    BY <1>3, FS_CardinalityType DEF RankIs
  <1> QED BY <1>3, <1>4, <1>5, <1>6

\* The ends of a text's parts.
LEMMA EndsAreFinite ==
    ASSUME NEW text \in Texts
    PROVE  /\ PartEnds(text) \subseteq 0..(Len(text) + 1)
           /\ PartEnds(text) \subseteq Nat /\ IsFiniteSet(PartEnds(text))
           /\ RankIs(PartEnds(text), 0, 0)
           /\ Len(text) + 1 \in PartEnds(text)
  <1>1. Len(text) \in Nat
    BY DEF Texts
  <1>2. /\ PartEnds(text) \subseteq 0..(Len(text) + 1)
        /\ 0 \in PartEnds(text) /\ Len(text) + 1 \in PartEnds(text)
    BY <1>1 DEF PartEnds
  <1>3. IsFiniteSet(0..(Len(text) + 1))
    BY <1>1, FS_Interval
  <1>4. PartEnds(text) \subseteq Nat /\ IsFiniteSet(PartEnds(text))
    BY <1>1, <1>2, <1>3, FS_Subset
  <1>5. Below(PartEnds(text), 0) = {}
    BY <1>4 DEF Below
  <1> QED BY <1>2, <1>4, <1>5, FS_EmptySet DEF RankIs

\* EndAt finds the end with so many before it.
LEMMA EndOfRank ==
    ASSUME NEW text \in Texts, NEW k, NEW i, RankIs(PartEnds(text), i, k)
    PROVE  EndAt(text, k) = i
  <1> DEFINE E == PartEnds(text)
  <1>1. E \subseteq Nat /\ IsFiniteSet(E)
    BY EndsAreFinite
  <1>2. EndAt(text, k) = CHOOSE x \in E : RankIs(E, x, k)
    BY DEF EndAt, RankIs, Below
  <1>3. i \in E
    BY DEF RankIs
  <1> HIDE DEF E
  <1>4. RankIs(E, CHOOSE x \in E : RankIs(E, x, k), k)
    BY <1>3 DEF E
  <1> QED BY <1>1, <1>2, <1>4, RankIsOne DEF E

\* Every end but the last has a next one.
LEMMA EndHasNext ==
    ASSUME NEW text \in Texts, NEW i \in PartEnds(text), i # Len(text) + 1
    PROVE  \E j : IsNext(PartEnds(text), i, j)
  <1> DEFINE E == PartEnds(text)
             T == {x \in E : i < x}
             R == OpToRel(<, Nat)
  <1>1. E \subseteq Nat /\ E \subseteq 0..(Len(text) + 1) /\ Len(text) + 1 \in E /\ Len(text) \in Nat
    BY EndsAreFinite DEF Texts
  <1>2. T # {} /\ T \subseteq Nat
    BY <1>1
  <1>3. PICK j \in T : \A y \in T : <<y, j>> \notin R
    <2>1. IsWellFoundedOn(R, Nat)
      BY NatLessThanWellFounded
    <2> HIDE DEF R, T
    <2> QED BY <1>2, <2>1, WFMin
  <1>4. \A y \in T : ~(y < j)
    BY <1>2, <1>3 DEF OpToRel
  <1> HIDE DEF R
  <1>5. \A x \in E : x <= i \/ j <= x
    BY <1>1, <1>4
  <1> QED BY <1>1, <1>3, <1>5 DEF IsNext

\* An end that is neither the start nor the end of the text is a dot.
LEMMA EndIsDot ==
    ASSUME NEW text \in Texts, NEW i \in PartEnds(text), 0 < i, i # Len(text) + 1
    PROVE  i \in 1..Len(text) /\ text[i] = Dot
  <1>1. Len(text) \in Nat
    BY DEF Texts
  <1> QED BY <1>1 DEF PartEnds

\* The k-th part of a text lies between its ends.
LEMMA PartOf ==
    ASSUME NEW text \in Texts, NEW k \in Nat, k # 0, NEW i, NEW j,
           RankIs(PartEnds(text), i, k - 1), IsNext(PartEnds(text), i, j)
    PROVE  /\ RankIs(PartEnds(text), j, k)
           /\ k \in DOMAIN SplitAtDots(text)
           /\ SplitAtDots(text)[k] = SubSeq(text, i + 1, j - 1)
  <1> DEFINE E == PartEnds(text)
  <1>1. E \subseteq Nat /\ IsFiniteSet(E)
    BY EndsAreFinite
  <1>2. k - 1 + 1 = k
    OBVIOUS
  <1> HIDE DEF E
  <1>3. RankIs(E, j, k)
    BY <1>1, <1>2, NextRank DEF E
  <1>4. j \in E /\ i \in E /\ i < j
    BY DEF IsNext, E
  <1>5. Cardinality(E) > k /\ Cardinality(E) \in Nat
    BY <1>1, <1>2, <1>4, HigherRank, FS_CardinalityType DEF E
  <1>6. k \in 1..(Cardinality(E) - 1)
    BY <1>5
  <1>7. EndAt(text, k - 1) = i /\ EndAt(text, k) = j
    BY <1>3, EndOfRank DEF E
  <1> QED BY <1>3, <1>6, <1>7 DEF SplitAtDots, E

\* There are as many parts as ends behind the start.
LEMMA PartsCounted ==
    ASSUME NEW text \in Texts, NEW k \in Nat, RankIs(PartEnds(text), Len(text) + 1, k)
    PROVE  Len(SplitAtDots(text)) = k
  <1> DEFINE E == PartEnds(text)
  <1>1. E \subseteq Nat /\ IsFiniteSet(E) /\ E \subseteq 0..(Len(text) + 1) /\ Len(text) \in Nat
    BY EndsAreFinite DEF Texts
  <1>2. \A x \in E : x <= Len(text) + 1
    BY <1>1
  <1> HIDE DEF E
  <1>3. Cardinality(E) = k + 1
    BY <1>1, <1>2, LastRank DEF E
  <1> QED BY <1>3 DEF SplitAtDots, E

\* No dot, one, or two or more of which the first two are at d and e.
OneDot(text, d) ==
    /\ d \in 1..Len(text) /\ text[d] = Dot
    /\ Len(SplitAtDots(text)) = 2
    /\ SplitAtDots(text)[1] = SubSeq(text, 1, d - 1)
    /\ SplitAtDots(text)[2] = SubSeq(text, d + 1, Len(text))
MoreDots(text, d, e, f) ==
    /\ d \in 1..Len(text) /\ e \in 1..Len(text) /\ f \in 1..(Len(text) + 1) /\ d < e /\ e < f
    /\ text[d] = Dot /\ text[e] = Dot
    /\ Len(SplitAtDots(text)) > 2 /\ Len(SplitAtDots(text)) \in Nat
    /\ SplitAtDots(text)[1] = SubSeq(text, 1, d - 1)
    /\ SplitAtDots(text)[2] = SubSeq(text, d + 1, e - 1)
    /\ SplitAtDots(text)[3] = SubSeq(text, e + 1, f - 1)

\* Every text has one part, two, or more.
LEMMA SplitCases ==
    ASSUME NEW text \in Texts
    PROVE  \/ Len(SplitAtDots(text)) = 1 /\ SplitAtDots(text)[1] = text
           \/ \E d : OneDot(text, d)
           \/ \E d, e, f : MoreDots(text, d, e, f)
  <1> DEFINE E == PartEnds(text)
             n == Len(text)
             parts == SplitAtDots(text)
  <1>1. /\ E \subseteq Nat /\ IsFiniteSet(E) /\ RankIs(E, 0, 0) /\ n + 1 \in E
        /\ n \in Nat /\ E \subseteq 0..(n + 1)
    BY EndsAreFinite DEF Texts
  <1>2. 0 \in E /\ 0 # n + 1
    BY <1>1 DEF RankIs
  <1>3. PICK d : IsNext(E, 0, d)
    BY <1>1, <1>2, EndHasNext
  <1>4. RankIs(E, d, 1) /\ parts[1] = SubSeq(text, 1, d - 1) /\ d \in E /\ 0 < d
    <2>1. RankIs(E, 0, 1 - 1) /\ 0 + 1 = 1
      BY <1>1
    <2>2. RankIs(E, d, 1) /\ parts[1] = SubSeq(text, 0 + 1, d - 1)
      BY <1>3, <2>1, PartOf
    <2> QED BY <1>3, <2>1, <2>2 DEF IsNext
  <1>5. CASE d = n + 1
    <2>1. Len(parts) = 1
      BY <1>4, <1>5, PartsCounted
    <2>2. d - 1 = n
      BY <1>1, <1>5
    <2>3. parts[1] = text
      BY <1>4, <2>2, SubSeqFull DEF Texts
    <2> QED BY <2>1, <2>3
  <1>6. CASE d # n + 1
    <2>1. d \in 1..n /\ text[d] = Dot
      BY <1>4, <1>6, EndIsDot
    <2>2. PICK e : IsNext(E, d, e)
      BY <1>4, <1>6, EndHasNext
    <2>3. RankIs(E, e, 2) /\ parts[2] = SubSeq(text, d + 1, e - 1) /\ e \in E /\ d < e
      <3>1. RankIs(E, d, 2 - 1)
        BY <1>4
      <3>2. RankIs(E, e, 2) /\ parts[2] = SubSeq(text, d + 1, e - 1)
        BY <2>2, <3>1, PartOf
      <3> QED BY <2>2, <3>2 DEF IsNext
    <2>4. CASE e = n + 1
      <3>1. Len(parts) = 2
        BY <2>3, <2>4, PartsCounted
      <3>2. e - 1 = n
        BY <1>1, <2>4
      <3>3. OneDot(text, d)
        BY <1>4, <2>1, <2>3, <3>1, <3>2 DEF OneDot
      <3> QED BY <3>3
    <2>5. CASE e # n + 1
      <3>1. e \in 1..n /\ text[e] = Dot
        <4>1. 0 < e
          BY <1>1, <1>4, <2>3
        <4> QED BY <2>3, <2>5, <4>1, EndIsDot
      <3>2. PICK f : IsNext(E, e, f)
        BY <2>3, <2>5, EndHasNext
      <3>3. 3 \in DOMAIN parts /\ parts[3] = SubSeq(text, e + 1, f - 1) /\ f \in E /\ e < f
        <4>1. RankIs(E, e, 3 - 1)
          BY <2>3
        <4>2. 3 \in DOMAIN parts /\ parts[3] = SubSeq(text, e + 1, f - 1)
          BY <3>2, <4>1, PartOf
        <4> QED BY <3>2, <4>2 DEF IsNext
      <3>4. Len(parts) > 2 /\ Len(parts) \in Nat
        <4>1. Cardinality(E) \in Nat
          BY <1>1, FS_CardinalityType
        <4>2. DOMAIN parts = 1..(Cardinality(E) - 1)
          BY DEF SplitAtDots
        <4>3. Cardinality(E) - 1 \in Nat /\ Cardinality(E) - 1 > 2
          BY <3>3, <4>1, <4>2
        <4>4. Len(parts) = Cardinality(E) - 1
          BY <4>3 DEF SplitAtDots
        <4> QED BY <4>3, <4>4
      <3>5. f \in 1..(n + 1)
        BY <1>1, <3>1, <3>3
      <3>6. MoreDots(text, d, e, f)
        BY <1>4, <2>1, <2>3, <3>1, <3>3, <3>4, <3>5 DEF MoreDots
      <3> QED BY <3>6
    <2> QED BY <2>4, <2>5
  <1> QED BY <1>5, <1>6

--------------------------------------------------------------------------------
(* The bytes of the parts.                                                 *)

\* A part of a text is a text.
LEMMA PartIsText ==
    ASSUME NEW text \in Texts, NEW a \in Int, NEW b \in Int, 1 <= a, b <= Len(text)
    PROVE  SubSeq(text, a, b) \in Texts
  <1>1. \A i \in a..b : text[i] \in Nat
    BY DEF Texts
  <1> QED BY <1>1, SubSeqProperties DEF Texts

\* The bytes of two neighbouring parts make up those of both.
LEMMA AdjacentBytes ==
    ASSUME NEW text \in Texts, NEW a \in 1..(Len(text) + 1), NEW b \in (a - 1)..Len(text),
           NEW c \in b..Len(text)
    PROVE  /\ utf8ToBytes(SubSeq(text, a, c)) =
                  utf8ToBytes(SubSeq(text, a, b)) \o utf8ToBytes(SubSeq(text, b + 1, c))
           /\ utf8ToBytes(SubSeq(text, a, b)) \in Bytes
           /\ utf8ToBytes(SubSeq(text, b + 1, c)) \in Bytes
  <1>1. Len(text) \in Nat
    BY DEF Texts
  <1>2. SubSeq(text, a, c) = SubSeq(text, a, b) \o SubSeq(text, b + 1, c)
    BY ConcatAdjacentSubSeq DEF Texts
  <1>3. SubSeq(text, a, b) \in Texts
    BY <1>1, PartIsText
  <1>4. SubSeq(text, b + 1, c) \in Texts
    BY <1>1, PartIsText
  <1>5. utf8ToBytes(SubSeq(text, a, b)) \in Bytes /\ utf8ToBytes(SubSeq(text, b + 1, c)) \in Bytes
    BY <1>3, <1>4, BytesAreNumbers
  <1> QED BY <1>2, <1>3, <1>4, <1>5, BytesOfConcat

\* What is before a dot, the dot, and what is behind it.
LEMMA CutAtDot ==
    ASSUME NEW text \in Texts, NEW a \in 1..Len(text), NEW d \in a..Len(text), text[d] = Dot,
           NEW before, before = utf8ToBytes(SubSeq(text, a, d - 1)),
           NEW behind, behind = utf8ToBytes(SubSeq(text, d + 1, Len(text)))
    PROVE  /\ utf8ToBytes(SubSeq(text, a, Len(text))) = before \o (<<Dot>> \o behind)
           /\ before \in Bytes /\ behind \in Bytes /\ <<Dot>> \in Bytes
  <1>1. Len(text) \in Nat /\ d \in Nat /\ a \in Nat /\ (d - 1) + 1 = d
    BY DEF Texts
  <1>2. <<Dot>> \in Bytes
    BY DEF Bytes, Dot
  <1>3. SubSeq(text, d, d) = <<Dot>>
    <2>1. d \in 1..Len(text) /\ d \in d..Len(text)
      BY <1>1
    <2>2. SubSeq(text, d, d) = <<Dot>> \o SubSeq(text, d + 1, d)
      BY <2>1, SubSeqRecursiveFirst DEF Texts
    <2>3. SubSeq(text, d + 1, d) = <<>>
      BY <1>1, SubSeqEmpty
    <2>4. <<Dot>> \o <<>> = <<Dot>>
      BY <1>2, ConcatEmptySeq DEF Bytes
    <2> QED BY <2>2, <2>3, <2>4
  <1>4. /\ utf8ToBytes(SubSeq(text, a, Len(text)))
               = before \o utf8ToBytes(SubSeq(text, (d - 1) + 1, Len(text)))
        /\ before \in Bytes
    <2>1. a \in 1..(Len(text) + 1) /\ d - 1 \in (a - 1)..Len(text) /\ Len(text) \in (d - 1)..Len(text)
      BY <1>1
    <2> QED BY <2>1, AdjacentBytes
  <1>5. /\ utf8ToBytes(SubSeq(text, d, Len(text))) = utf8ToBytes(SubSeq(text, d, d)) \o behind
        /\ behind \in Bytes
    <2>1. d \in 1..(Len(text) + 1) /\ d \in (d - 1)..Len(text) /\ Len(text) \in d..Len(text)
      BY <1>1
    <2> QED BY <2>1, AdjacentBytes
  <1> QED BY <1>1, <1>2, <1>3, <1>4, <1>5, DotBytes

--------------------------------------------------------------------------------
(* The calls.                                                              *)

\* The name and the namespace of a call, as its arguments.
NameArg(fqn) == bufferCVFromString(decodeFQN(fqn).name)
NamespaceArg(fqn) == bufferCVFromString(decodeFQN(fqn).namespace)
HasSubdomain(fqn) == decodeFQN(fqn).subdomain # <<>>

\* The two calls whose arguments the contract compares.
LEMMA RegisterCall ==
    ASSUME NEW fqn, NEW salt, NEW zonefile
    PROVE  buildRegisterNameTx(fqn, salt, zonefile) =
               IF HasSubdomain(fqn) THEN Declined
               ELSE BnsCall("name-register",
                            <<NamespaceArg(fqn), NameArg(fqn), bufferCVFromString(salt),
                              HashCV(getZonefileHash(zonefile))>>, {})
  BY DEF buildRegisterNameTx, OfName, NameArg, NamespaceArg, HasSubdomain

LEMMA PreorderCall ==
    ASSUME NEW fqn, NEW salt, NEW stx, NEW owner
    PROVE  buildPreorderNameTx(fqn, salt, stx, owner) =
               IF HasSubdomain(fqn) THEN Declined
               ELSE BnsCall("name-preorder",
                            <<HashCV(hash160(utf8ToBytes(fqn \o salt))), UInt(stx)>>,
                            {Burns(stx, owner)})
  BY DEF buildPreorderNameTx, HasSubdomain

\* A call that has a name was not declined.
LEMMA NamedIsMade ==
    ASSUME NEW functionName, functionName # "none", NEW functionArgs, NEW conditions
    PROVE  BnsCall(functionName, functionArgs, conditions) # Declined
  BY DEF BnsCall, Declined

\* Preorder and registration are declined for a subdomain only, both.
LEMMA DeclinedForSubdomain ==
    ASSUME NEW fqn, NEW salt, NEW zonefile, NEW stx, NEW owner
    PROVE  /\ buildPreorderNameTx(fqn, salt, stx, owner) = Declined <=> HasSubdomain(fqn)
           /\ buildRegisterNameTx(fqn, salt, zonefile) = Declined <=> HasSubdomain(fqn)
  <1>1. "name-preorder" # "none" /\ "name-register" # "none"
    OBVIOUS
  <1>2. buildPreorderNameTx(fqn, salt, stx, owner) = Declined <=> HasSubdomain(fqn)
    BY <1>1, PreorderCall, NamedIsMade
  <1>3. buildRegisterNameTx(fqn, salt, zonefile) = Declined <=> HasSubdomain(fqn)
    BY <1>1, RegisterCall, NamedIsMade
  <1> QED BY <1>2, <1>3

\* What the contract hashes of the arguments of a registration.
Spelt(name, namespace, salt) ==
    utf8ToBytes(name) \o <<Dot>> \o utf8ToBytes(namespace) \o utf8ToBytes(salt)

\* The preorder's hash is the contract's.
IsOpened(fqn, salt) ==
    buildPreorderNameTx(fqn, salt, 1, 1).functionArgs[1] =
        HashCV(hash160(NamePreimage(buildRegisterNameTx(fqn, salt, <<>>))))

\* Hashes are equal when what was hashed is.
LEMMA HashesCompare ==
    ASSUME NEW x, NEW y
    PROVE  HashCV(hash160(x)) = HashCV(hash160(y)) <=> x = y
  BY DEF HashCV, hash160, CV

\* A preorder is opened when the parts put together are the name that was preordered.
LEMMA OpenedIsSpelt ==
    ASSUME NEW fqn, NEW salt, ~HasSubdomain(fqn)
    PROVE  IsOpened(fqn, salt) <=>
               utf8ToBytes(fqn \o salt) =
                   Spelt(decodeFQN(fqn).name, decodeFQN(fqn).namespace, salt)
  <1> DEFINE preorder == buildPreorderNameTx(fqn, salt, 1, 1)
             register == buildRegisterNameTx(fqn, salt, <<>>)
  <1>1. preorder.functionArgs[1] = HashCV(hash160(utf8ToBytes(fqn \o salt)))
    BY PreorderCall DEF BnsCall
  <1>2. /\ register.functionArgs[1] = NamespaceArg(fqn)
        /\ register.functionArgs[2] = NameArg(fqn)
        /\ register.functionArgs[3] = bufferCVFromString(salt)
    BY RegisterCall DEF BnsCall
  <1>3. ASSUME NEW text PROVE Value(bufferCVFromString(text)) = utf8ToBytes(text)
    BY DEF Value, bufferCVFromString, CV
  <1> HIDE DEF register, preorder
  <1>4. NamePreimage(register) = Spelt(decodeFQN(fqn).name, decodeFQN(fqn).namespace, salt)
    BY <1>2, <1>3 DEF NamePreimage, Spelt, NameArg, NamespaceArg
  <1> QED BY <1>1, <1>4, HashesCompare DEF IsOpened, register, preorder

\* What the contract hashes is a dot longer than the parts and the salt.
LEMMA SpeltLength ==
    ASSUME NEW name \in Texts, NEW namespace \in Texts, NEW salt \in Texts
    PROVE  /\ Spelt(name, namespace, salt) \in Bytes
           /\ Len(Spelt(name, namespace, salt)) =
                  Len(utf8ToBytes(name)) + 1 + Len(utf8ToBytes(namespace)) + Len(utf8ToBytes(salt))
  <1> DEFINE a == utf8ToBytes(name)
             b == utf8ToBytes(namespace)
             c == utf8ToBytes(salt)
  <1>1. a \in Bytes /\ b \in Bytes /\ c \in Bytes /\ <<Dot>> \in Bytes /\ Len(<<Dot>>) = 1
    BY BytesAreNumbers DEF Bytes, Dot
  <1> HIDE DEF a, b, c
  <1>2. a \o <<Dot>> \in Bytes /\ Len(a \o <<Dot>>) = Len(a) + 1
    BY <1>1, ConcatProperties DEF Bytes
  <1>3. a \o <<Dot>> \o b \in Bytes /\ Len(a \o <<Dot>> \o b) = Len(a) + 1 + Len(b)
    BY <1>1, <1>2, ConcatProperties DEF Bytes
  <1>4. /\ a \o <<Dot>> \o b \o c \in Bytes
        /\ Len(a \o <<Dot>> \o b \o c) = Len(a) + 1 + Len(b) + Len(c)
    BY <1>1, <1>3, ConcatProperties DEF Bytes
  <1> QED BY <1>4 DEF Spelt, a, b, c

\* Only a name as long as its parts and one dot is opened.
LEMMA OpenedLength ==
    ASSUME NEW fqn \in Texts, NEW salt \in Texts, NEW name \in Texts, NEW namespace \in Texts,
           utf8ToBytes(fqn \o salt) = Spelt(name, namespace, salt)
    PROVE  Len(utf8ToBytes(fqn)) = Len(utf8ToBytes(name)) + 1 + Len(utf8ToBytes(namespace))
  <1>1. /\ utf8ToBytes(fqn) \in Bytes /\ utf8ToBytes(salt) \in Bytes
        /\ utf8ToBytes(name) \in Bytes /\ utf8ToBytes(namespace) \in Bytes
    BY BytesAreNumbers
  <1>2. utf8ToBytes(fqn \o salt) = utf8ToBytes(fqn) \o utf8ToBytes(salt)
    BY BytesOfConcat
  <1>3. Len(utf8ToBytes(fqn \o salt)) = Len(utf8ToBytes(fqn)) + Len(utf8ToBytes(salt))
    BY <1>1, <1>2, ConcatProperties DEF Bytes
  <1>4. Len(utf8ToBytes(fqn)) + Len(utf8ToBytes(salt)) =
            Len(utf8ToBytes(name)) + 1 + Len(utf8ToBytes(namespace)) + Len(utf8ToBytes(salt))
    <2>1. Len(Spelt(name, namespace, salt)) =
              Len(utf8ToBytes(name)) + 1 + Len(utf8ToBytes(namespace)) + Len(utf8ToBytes(salt))
      BY SpeltLength
    <2> QED BY <1>3, <2>1
  <1>5. /\ Len(utf8ToBytes(fqn)) \in Nat /\ Len(utf8ToBytes(salt)) \in Nat
        /\ Len(utf8ToBytes(name)) \in Nat /\ Len(utf8ToBytes(namespace)) \in Nat
    BY <1>1, LenProperties DEF Bytes
  <1> QED BY <1>4, <1>5

\* Two parts: the preorder is opened.
LEMMA OneDotIsOpened ==
    ASSUME NEW fqn \in Texts, NEW salt \in Texts, NEW d, OneDot(fqn, d)
    PROVE  ~HasSubdomain(fqn) /\ IsOpened(fqn, salt)
  <1> DEFINE name == SubSeq(fqn, 1, d - 1)
             namespace == SubSeq(fqn, d + 1, Len(fqn))
  <1>1. /\ d \in 1..Len(fqn) /\ fqn[d] = Dot /\ Len(fqn) \in Nat
        /\ Len(SplitAtDots(fqn)) = 2
        /\ SplitAtDots(fqn)[1] = name /\ SplitAtDots(fqn)[2] = namespace
    BY DEF OneDot, Texts
  <1>2. decodeFQN(fqn) = [subdomain |-> <<>>, name |-> name, namespace |-> namespace]
    <2> HIDE DEF name, namespace
    <2>1. ~(2 > 2)
      OBVIOUS
    <2> QED BY <1>1, <2>1 DEF decodeFQN
  <1>3. /\ utf8ToBytes(SubSeq(fqn, 1, Len(fqn)))
               = utf8ToBytes(name) \o (<<Dot>> \o utf8ToBytes(namespace))
        /\ utf8ToBytes(name) \in Bytes /\ utf8ToBytes(namespace) \in Bytes /\ <<Dot>> \in Bytes
    <2>1. 1 \in 1..Len(fqn) /\ d \in 1..Len(fqn)
      BY <1>1
    <2> QED BY <1>1, <2>1, CutAtDot
  <1>4. SubSeq(fqn, 1, Len(fqn)) = fqn
    BY SubSeqFull DEF Texts
  <1> HIDE DEF name, namespace
  <1>5. utf8ToBytes(fqn) = utf8ToBytes(name) \o <<Dot>> \o utf8ToBytes(namespace)
    BY <1>3, <1>4, BytesAssociate
  <1>6. utf8ToBytes(fqn \o salt) = Spelt(name, namespace, salt)
    BY <1>5, BytesOfConcat DEF Spelt
  <1>7. ~HasSubdomain(fqn)
    BY <1>2 DEF HasSubdomain
  <1>8. decodeFQN(fqn).name = name /\ decodeFQN(fqn).namespace = namespace
    BY <1>2
  <1> QED BY <1>6, <1>7, <1>8, OpenedIsSpelt

\* One part: the contract hashes one more byte, the dot.
LEMMA OnePartIsNotOpened ==
    ASSUME NEW fqn \in Texts, NEW salt \in Texts,
           Len(SplitAtDots(fqn)) = 1, SplitAtDots(fqn)[1] = fqn
    PROVE  ~HasSubdomain(fqn) /\ ~IsOpened(fqn, salt)
  <1>1. decodeFQN(fqn) = [subdomain |-> <<>>, name |-> fqn, namespace |-> <<>>]
    <2>1. ~(1 > 2) /\ 1 # 2
      OBVIOUS
    <2> QED BY <2>1 DEF decodeFQN
  <1>2. ~HasSubdomain(fqn)
    BY <1>1 DEF HasSubdomain
  <1>3. decodeFQN(fqn).name = fqn /\ decodeFQN(fqn).namespace = <<>>
    BY <1>1
  <1>4. <<>> \in Texts
    BY EmptySeq DEF Texts
  <1>5. Len(utf8ToBytes(fqn)) \in Nat /\ Len(utf8ToBytes(<<>>)) \in Nat
    BY <1>4, BytesAreNumbers, LenProperties DEF Bytes
  <1>6. utf8ToBytes(fqn \o salt) # Spelt(fqn, <<>>, salt)
    <2> SUFFICES ASSUME utf8ToBytes(fqn \o salt) = Spelt(fqn, <<>>, salt) PROVE FALSE
      OBVIOUS
    <2>1. Len(utf8ToBytes(fqn)) = Len(utf8ToBytes(fqn)) + 1 + Len(utf8ToBytes(<<>>))
      BY <1>4, OpenedLength
    <2> QED BY <1>5, <2>1
  <1> QED BY <1>2, <1>3, <1>6, OpenedIsSpelt

\* More parts: declined for the first one or, where that is empty, a dot of it is missing
\* from what the contract hashes.
LEMMA MoreDotsAreNotOpened ==
    ASSUME NEW fqn \in Texts, NEW salt \in Texts, NEW d, NEW e, NEW f, MoreDots(fqn, d, e, f)
    PROVE  HasSubdomain(fqn) \/ ~IsOpened(fqn, salt)
  <1> DEFINE n == Len(fqn)
             first == SubSeq(fqn, 1, d - 1)
             rest == SubSeq(fqn, d + 1, n)
             name == SubSeq(fqn, d + 1, e - 1)
             last == SubSeq(fqn, e + 1, n)
             namespace == SubSeq(fqn, e + 1, f - 1)
             left == SubSeq(fqn, f, n)
             L(text) == Len(utf8ToBytes(text))
  <1>1. /\ d \in 1..n /\ e \in 1..n /\ f \in 1..(n + 1) /\ n \in Nat /\ d < e /\ e < f
        /\ fqn[d] = Dot /\ fqn[e] = Dot
    BY DEF MoreDots, Texts
  <1>2. decodeFQN(fqn) = [subdomain |-> first, name |-> name, namespace |-> namespace]
    <2>1. /\ Len(SplitAtDots(fqn)) > 2 /\ SplitAtDots(fqn)[1] = first
          /\ SplitAtDots(fqn)[2] = name /\ SplitAtDots(fqn)[3] = namespace
      BY DEF MoreDots
    <2> HIDE DEF first, name, namespace
    <2> QED BY <2>1 DEF decodeFQN
  <1>3. decodeFQN(fqn).name = name /\ decodeFQN(fqn).namespace = namespace
    <2> HIDE DEF first, name, namespace
    <2> QED BY <1>2
  <1>4. Len(<<Dot>>) = 1
    OBVIOUS
  <1>5. L(fqn) = L(first) + 1 + L(rest) /\ L(first) \in Nat /\ L(rest) \in Nat
    <2>1. 1 \in 1..n /\ d \in 1..n
      BY <1>1
    <2>2. /\ utf8ToBytes(SubSeq(fqn, 1, n)) = utf8ToBytes(first) \o (<<Dot>> \o utf8ToBytes(rest))
          /\ utf8ToBytes(first) \in Bytes /\ utf8ToBytes(rest) \in Bytes /\ <<Dot>> \in Bytes
      BY <1>1, <2>1, CutAtDot
    <2>3. SubSeq(fqn, 1, n) = fqn
      BY SubSeqFull DEF Texts
    <2> HIDE DEF first, rest
    <2>4. /\ <<Dot>> \o utf8ToBytes(rest) \in Bytes
          /\ Len(<<Dot>> \o utf8ToBytes(rest)) = 1 + L(rest)
      BY <1>4, <2>2, ConcatProperties DEF Bytes
    <2>5. utf8ToBytes(fqn) = utf8ToBytes(first) \o (<<Dot>> \o utf8ToBytes(rest))
      BY <2>2, <2>3
    <2>6. L(fqn) = L(first) + (1 + L(rest))
      BY <2>2, <2>4, <2>5, ConcatProperties DEF Bytes
    <2>7. L(first) \in Nat /\ L(rest) \in Nat
      BY <2>2, LenProperties DEF Bytes
    <2> HIDE DEF L
    <2> QED BY <2>6, <2>7
  <1>6. L(rest) = L(name) + 1 + L(last) /\ L(name) \in Nat /\ L(last) \in Nat
    <2>1. d + 1 \in 1..n /\ e \in (d + 1)..n
      BY <1>1
    <2>2. /\ utf8ToBytes(rest) = utf8ToBytes(name) \o (<<Dot>> \o utf8ToBytes(last))
          /\ utf8ToBytes(name) \in Bytes /\ utf8ToBytes(last) \in Bytes /\ <<Dot>> \in Bytes
      BY <1>1, <2>1, CutAtDot
    <2> HIDE DEF rest, name, last
    <2>3. /\ <<Dot>> \o utf8ToBytes(last) \in Bytes
          /\ Len(<<Dot>> \o utf8ToBytes(last)) = 1 + L(last)
      BY <1>4, <2>2, ConcatProperties DEF Bytes
    <2>4. L(rest) = L(name) + (1 + L(last))
      BY <2>2, <2>3, ConcatProperties DEF Bytes
    <2>5. L(name) \in Nat /\ L(last) \in Nat
      BY <2>2, LenProperties DEF Bytes
    <2> HIDE DEF L
    <2> QED BY <2>4, <2>5
  <1>7. L(last) = L(namespace) + L(left) /\ L(namespace) \in Nat /\ L(left) \in Nat
    <2>1. /\ e + 1 \in 1..(n + 1) /\ f - 1 \in ((e + 1) - 1)..n /\ n \in (f - 1)..n
          /\ (f - 1) + 1 = f
      BY <1>1
    <2>2. /\ utf8ToBytes(last) = utf8ToBytes(namespace) \o utf8ToBytes(SubSeq(fqn, (f - 1) + 1, n))
          /\ utf8ToBytes(namespace) \in Bytes
          /\ utf8ToBytes(SubSeq(fqn, (f - 1) + 1, n)) \in Bytes
      BY <2>1, AdjacentBytes
    <2>3. /\ utf8ToBytes(last) = utf8ToBytes(namespace) \o utf8ToBytes(left)
          /\ utf8ToBytes(namespace) \in Bytes /\ utf8ToBytes(left) \in Bytes
      BY <2>1, <2>2
    <2> HIDE DEF last, namespace, left
    <2> QED BY <2>3, ConcatProperties, LenProperties DEF Bytes
  <1>8. name \in Texts /\ namespace \in Texts
    <2>1. d + 1 \in Int /\ e - 1 \in Int /\ 1 <= d + 1 /\ e - 1 <= n
      BY <1>1
    <2>2. e + 1 \in Int /\ f - 1 \in Int /\ 1 <= e + 1 /\ f - 1 <= n
      BY <1>1
    <2> QED BY <2>1, <2>2, PartIsText
  <1> HIDE DEF first, rest, name, last, namespace, left, L
  <1>9. utf8ToBytes(fqn \o salt) # Spelt(name, namespace, salt)
    <2> SUFFICES ASSUME utf8ToBytes(fqn \o salt) = Spelt(name, namespace, salt) PROVE FALSE
      OBVIOUS
    <2>1. L(fqn) = L(name) + 1 + L(namespace)
      BY <1>8, OpenedLength DEF L
    <2> QED BY <1>5, <1>6, <1>7, <2>1
  <1> QED BY <1>3, <1>9, OpenedIsSpelt

\* Only a name of two parts, or one that is declined, is opened.
LEMMA OpenedOrDeclined ==
    ASSUME NEW fqn \in Texts, NEW salt \in Texts
    PROVE  /\ Misspelt(fqn) => HasSubdomain(fqn) \/ ~IsOpened(fqn, salt)
           /\ ~Misspelt(fqn) => IsOpened(fqn, salt)
  <1>1. CASE Len(SplitAtDots(fqn)) = 1 /\ SplitAtDots(fqn)[1] = fqn
    BY <1>1, OnePartIsNotOpened DEF Misspelt
  <1>2. ASSUME NEW d, OneDot(fqn, d)
        PROVE  ~Misspelt(fqn) /\ IsOpened(fqn, salt)
    <2>1. Len(SplitAtDots(fqn)) = 2
      BY <1>2 DEF OneDot
    <2> QED BY <1>2, <2>1, OneDotIsOpened DEF Misspelt
  <1>3. ASSUME NEW d, NEW e, NEW f, MoreDots(fqn, d, e, f)
        PROVE  Misspelt(fqn) /\ (HasSubdomain(fqn) \/ ~IsOpened(fqn, salt))
    <2> DEFINE n == Len(SplitAtDots(fqn))
    <2>1. n > 2 /\ n \in Nat
      BY <1>3 DEF MoreDots
    <2>2. n # 2
      <3> HIDE DEF n
      <3> QED BY <2>1
    <2>3. HasSubdomain(fqn) \/ ~IsOpened(fqn, salt)
      BY <1>3, MoreDotsAreNotOpened
    <2> QED BY <2>2, <2>3 DEF Misspelt
  <1> QED BY <1>1, <1>2, <1>3, SplitCases

\* A call is declined for a subdomain, and otherwise begins with the namespace and the name.
IsOfName(made, fqn) ==
    IF HasSubdomain(fqn) THEN made = Declined
    ELSE SubSeq(made.functionArgs, 1, 2) = <<NamespaceArg(fqn), NameArg(fqn)>>

\* The first two of the arguments of a call, with two to five of them.
LEMMA FirstTwoOf ==
    ASSUME NEW S, NEW s \in Seq(S), Len(s) >= 2
    PROVE  SubSeq(s, 1, 2) = <<s[1], s[2]>>
  <1>1. /\ SubSeq(s, 1, 2) \in Seq(S) /\ Len(SubSeq(s, 1, 2)) = 2
        /\ SubSeq(s, 1, 2)[1] = s[1] /\ SubSeq(s, 1, 2)[2] = s[2]
    <2>1. 1 \in 1..Len(s) /\ 2 \in 1..Len(s)
      BY LenProperties
    <2>2. \A i \in 1..2 : s[i] \in S
      BY <2>1, ElementOfSeq
    <2>3. /\ SubSeq(s, 1, 2) \in Seq(S)
          /\ Len(SubSeq(s, 1, 2)) = IF 1 <= 2 THEN 2 - 1 + 1 ELSE 0
          /\ \A i \in 1..(2 - 1 + 1) : SubSeq(s, 1, 2)[i] = s[1 + i - 1]
      BY <2>2, SubSeqProperties
    <2> QED BY <2>3
  <1>2. <<s[1], s[2]>> \in Seq(S) /\ Len(<<s[1], s[2]>>) = 2
    <2>1. 1 \in 1..Len(s) /\ 2 \in 1..Len(s)
      BY LenProperties
    <2> QED BY <2>1, ElementOfSeq
  <1>3. \A i \in 1..2 : SubSeq(s, 1, 2)[i] = <<s[1], s[2]>>[i]
    BY <1>1
  <1> QED BY <1>1, <1>2, <1>3, SeqEqual

LEMMA FirstTwo ==
    ASSUME NEW a, NEW b, NEW c, NEW d, NEW e
    PROVE  /\ SubSeq(<<a, b>>, 1, 2) = <<a, b>>
           /\ SubSeq(<<a, b, c>>, 1, 2) = <<a, b>>
           /\ SubSeq(<<a, b, c, d>>, 1, 2) = <<a, b>>
           /\ SubSeq(<<a, b, c, d, e>>, 1, 2) = <<a, b>>
  <1> DEFINE S == {a, b, c, d, e}
  <1>1. SubSeq(<<a, b>>, 1, 2) = <<a, b>>
    <2> DEFINE s == <<a, b>>
    <2>1. s \in Seq(S) /\ Len(s) >= 2 /\ s[1] = a /\ s[2] = b
      OBVIOUS
    <2> HIDE DEF S, s
    <2>2. SubSeq(s, 1, 2) = <<s[1], s[2]>>
      BY <2>1, FirstTwoOf, Zenon
    <2>3. SubSeq(s, 1, 2) = <<a, b>>
      BY <2>1, <2>2, Zenon
    <2> QED BY <2>3 DEF s
  <1>2. SubSeq(<<a, b, c>>, 1, 2) = <<a, b>>
    <2> DEFINE s == <<a, b, c>>
    <2>1. s \in Seq(S) /\ Len(s) >= 2 /\ s[1] = a /\ s[2] = b
      OBVIOUS
    <2> HIDE DEF S, s
    <2>2. SubSeq(s, 1, 2) = <<s[1], s[2]>>
      BY <2>1, FirstTwoOf, Zenon
    <2>3. SubSeq(s, 1, 2) = <<a, b>>
      BY <2>1, <2>2, Zenon
    <2> QED BY <2>3 DEF s
  <1>3. SubSeq(<<a, b, c, d>>, 1, 2) = <<a, b>>
    <2> DEFINE s == <<a, b, c, d>>
    <2>1. s \in Seq(S) /\ Len(s) >= 2 /\ s[1] = a /\ s[2] = b
      OBVIOUS
    <2> HIDE DEF S, s
    <2>2. SubSeq(s, 1, 2) = <<s[1], s[2]>>
      BY <2>1, FirstTwoOf, Zenon
    <2>3. SubSeq(s, 1, 2) = <<a, b>>
      BY <2>1, <2>2, Zenon
    <2> QED BY <2>3 DEF s
  <1>4. SubSeq(<<a, b, c, d, e>>, 1, 2) = <<a, b>>
    <2> DEFINE s == <<a, b, c, d, e>>
    <2>1. s \in Seq(S) /\ Len(s) >= 2 /\ s[1] = a /\ s[2] = b
      OBVIOUS
    <2> HIDE DEF S, s
    <2>2. SubSeq(s, 1, 2) = <<s[1], s[2]>>
      BY <2>1, FirstTwoOf, Zenon
    <2>3. SubSeq(s, 1, 2) = <<a, b>>
      BY <2>1, <2>2, Zenon
    <2> QED BY <2>3 DEF s
  <1> QED BY <1>1, <1>2, <1>3, <1>4

\* Every call about a name begins with the same namespace and name, or is declined.
LEMMA CallsAreOfName ==
    ASSUME NEW fqn, NEW salt,
           NEW made \in {canRegisterName(fqn), getNamePrice(fqn), buildUpdateNameTx(fqn, salt),
                         buildTransferNameTx(fqn, 1, 2, salt), buildRevokeNameTx(fqn),
                         buildRenewNameTx(fqn, 1, 1, <<>>, salt),
                         buildRegisterNameTx(fqn, salt, <<>>)}
    PROVE  IsOfName(made, fqn)
  <1> DEFINE a == NamespaceArg(fqn)
             b == NameArg(fqn)
             zonefile == HashCV(getZonefileHash(salt))
  <1>1. HasSubdomain(fqn) => made = Declined
    BY DEF HasSubdomain, OfName, canRegisterName, getNamePrice, buildUpdateNameTx,
           buildTransferNameTx, buildRevokeNameTx, buildRenewNameTx, buildRegisterNameTx
  <1>2. ASSUME ~HasSubdomain(fqn), NEW functionName, NEW functionArgs, NEW conditions,
               made = BnsCall(functionName, functionArgs, conditions),
               SubSeq(functionArgs, 1, 2) = <<a, b>>
        PROVE  IsOfName(made, fqn)
    BY <1>2 DEF IsOfName, BnsCall
  <1>3. CASE made = canRegisterName(fqn)
    <2>1. ~HasSubdomain(fqn) => made = BnsCall("can-name-be-registered", <<a, b>>, {})
      BY <1>3 DEF canRegisterName, OfName, HasSubdomain, NameArg, NamespaceArg
    <2> HIDE DEF a, b
    <2>2. SubSeq(<<a, b>>, 1, 2) = <<a, b>>
      BY FirstTwo
    <2> QED BY <1>1, <1>2, <2>1, <2>2 DEF IsOfName
  <1>4. CASE made = getNamePrice(fqn)
    <2>1. ~HasSubdomain(fqn) => made = BnsCall("get-name-price", <<a, b>>, {})
      BY <1>4 DEF getNamePrice, OfName, HasSubdomain, NameArg, NamespaceArg
    <2> HIDE DEF a, b
    <2>2. SubSeq(<<a, b>>, 1, 2) = <<a, b>>
      BY FirstTwo
    <2> QED BY <1>1, <1>2, <2>1, <2>2 DEF IsOfName
  <1>5. CASE made = buildUpdateNameTx(fqn, salt)
    <2>1. ~HasSubdomain(fqn) => made = BnsCall("name-update", <<a, b, zonefile>>, {})
      BY <1>5 DEF buildUpdateNameTx, OfName, HasSubdomain, NameArg, NamespaceArg
    <2> HIDE DEF a, b, zonefile
    <2>2. SubSeq(<<a, b, zonefile>>, 1, 2) = <<a, b>>
      BY FirstTwo
    <2> QED BY <1>1, <1>2, <2>1, <2>2 DEF IsOfName
  <1>6. CASE made = buildTransferNameTx(fqn, 1, 2, salt)
    <2> DEFINE newOwner == 2
               conditions == {Names(1, "sent", a, b), Names(newOwner, "not-sent", a, b)}
    <2>1. ~HasSubdomain(fqn) =>
              made = BnsCall("name-transfer", <<a, b, newOwner, OptionalHash(salt)>>, conditions)
      BY <1>6 DEF buildTransferNameTx, OfName, HasSubdomain, NameArg, NamespaceArg
    <2> HIDE DEF a, b, newOwner, conditions
    <2>2. SubSeq(<<a, b, newOwner, OptionalHash(salt)>>, 1, 2) = <<a, b>>
      BY FirstTwo
    <2> QED BY <1>1, <1>2, <2>1, <2>2 DEF IsOfName
  <1>7. CASE made = buildRevokeNameTx(fqn)
    <2>1. ~HasSubdomain(fqn) => made = BnsCall("name-revoke", <<a, b>>, {})
      BY <1>7 DEF buildRevokeNameTx, OfName, HasSubdomain, NameArg, NamespaceArg
    <2> HIDE DEF a, b
    <2>2. SubSeq(<<a, b>>, 1, 2) = <<a, b>>
      BY FirstTwo
    <2> QED BY <1>1, <1>2, <2>1, <2>2 DEF IsOfName
  <1>8. CASE made = buildRenewNameTx(fqn, 1, 1, <<>>, salt)
    <2> DEFINE cost == UInt(1)
    <2>1. ~HasSubdomain(fqn) =>
              made = BnsCall("name-renewal", <<a, b, cost, none, OptionalHash(salt)>>,
                             {Burns(1, 1)})
      BY <1>8 DEF buildRenewNameTx, OfName, HasSubdomain, NameArg, NamespaceArg
    <2> HIDE DEF a, b, cost
    <2>2. SubSeq(<<a, b, cost, none, OptionalHash(salt)>>, 1, 2) = <<a, b>>
      BY FirstTwo
    <2> QED BY <1>1, <1>2, <2>1, <2>2 DEF IsOfName
  <1>9. CASE made = buildRegisterNameTx(fqn, salt, <<>>)
    <2>1. ~HasSubdomain(fqn) =>
              made = BnsCall("name-register",
                             <<a, b, bufferCVFromString(salt), HashCV(getZonefileHash(<<>>))>>, {})
      BY <1>9, RegisterCall
    <2> HIDE DEF a, b
    <2>2. SubSeq(<<a, b, bufferCVFromString(salt), HashCV(getZonefileHash(<<>>))>>, 1, 2) = <<a, b>>
      BY FirstTwo
    <2> QED BY <1>1, <1>2, <2>1, <2>2 DEF IsOfName
  <1> QED BY <1>3, <1>4, <1>5, <1>6, <1>7, <1>8, <1>9

\* PreorderIsOpened, for every name and salt.
LEMMA NameIsOpened ==
    ASSUME NEW fqn \in Texts, NEW salt \in Texts
    PROVE  PreorderIsOpened(fqn, salt)
  <1> DEFINE preorder == buildPreorderNameTx(fqn, salt, 1, 1)
             register == buildRegisterNameTx(fqn, salt, <<>>)
             calls == {canRegisterName(fqn), getNamePrice(fqn), buildUpdateNameTx(fqn, salt),
                       buildTransferNameTx(fqn, 1, 2, salt), buildRevokeNameTx(fqn),
                       buildRenewNameTx(fqn, 1, 1, <<>>, salt)}
             opened == preorder.functionArgs[1] = HashCV(hash160(NamePreimage(register)))
  <1>1. preorder = Declined <=> HasSubdomain(fqn)
    BY DeclinedForSubdomain
  <1>2. register = Declined <=> HasSubdomain(fqn)
    BY DeclinedForSubdomain
  <1>3. opened <=> IsOpened(fqn, salt)
    BY DEF IsOpened
  <1>4. IsOfName(register, fqn)
    BY CallsAreOfName
  <1>5. \A made \in calls : IsOfName(made, fqn)
    BY CallsAreOfName
  <1>6. PreorderIsOpened(fqn, salt) <=>
            /\ preorder = Declined <=> register = Declined
            /\ Misspelt(fqn) => register = Declined \/ ~opened
            /\ ~Misspelt(fqn) => opened
            /\ \A made \in calls :
                  IF register = Declined THEN made = Declined
                  ELSE SubSeq(made.functionArgs, 1, 2) = SubSeq(register.functionArgs, 1, 2)
    BY DEF PreorderIsOpened
  <1> HIDE DEF preorder, register, calls, opened
  <1>7. \A made \in calls :
            IF register = Declined THEN made = Declined
            ELSE SubSeq(made.functionArgs, 1, 2) = SubSeq(register.functionArgs, 1, 2)
    BY <1>2, <1>4, <1>5 DEF IsOfName
  <1> QED BY <1>1, <1>2, <1>3, <1>6, <1>7, OpenedOrDeclined

\* NamespacePreorderIsOpened, for every namespace and salt.
LEMMA NamespaceIsOpened ==
    ASSUME NEW namespace \in Texts, NEW salt \in Texts
    PROVE  NamespacePreorderIsOpened(namespace, salt)
  <1> DEFINE preorder == buildPreorderNamespaceTx(namespace, salt, 1, 1)
             reveal == buildRevealNamespaceTx(namespace, salt, [i \in 1..20 |-> i], 1, 1)
             given == <<bufferCVFromString(namespace), bufferCVFromString(salt)>>
             prices == [i \in 1..20 |-> UInt([k \in 1..20 |-> k][i])]
             last == <<UInt(1), 1>>
             args == {given[1], given[2], 1} \cup {UInt(i) : i \in 1..20}
  <1>1. preorder.functionArgs[1] = HashCV(hash160(utf8ToBytes(namespace \o salt)))
    BY DEF buildPreorderNamespaceTx, BnsCall
  <1>2. reveal.functionArgs = given \o prices \o last
    BY DEF buildRevealNamespaceTx, BnsCall
  <1>3. Len(given) = 2 /\ given[1] = bufferCVFromString(namespace) /\ given[2] = bufferCVFromString(salt)
    OBVIOUS
  <1>4. (given \o prices \o last)[1] = given[1] /\ (given \o prices \o last)[2] = given[2]
    <2>1. given \in Seq(args)
      OBVIOUS
    <2>2. prices \in Seq(args)
      <3>1. \A i \in 1..20 : UInt([k \in 1..20 |-> k][i]) \in args
        OBVIOUS
      <3> HIDE DEF args
      <3> QED BY <3>1
    <2>3. last \in Seq(args)
      <3>1. UInt(1) \in args /\ 1 \in args
        OBVIOUS
      <3> HIDE DEF args
      <3> QED BY <3>1
    <2> HIDE DEF prices, last, given, args
    <2>4. ASSUME NEW s \in Seq(args), NEW t \in Seq(args), Len(s) >= 2
          PROVE  /\ s \o t \in Seq(args) /\ Len(s \o t) >= 2
                 /\ (s \o t)[1] = s[1] /\ (s \o t)[2] = s[2]
      <3>1. Len(s) \in Nat /\ Len(t) \in Nat
        BY LenProperties
      <3>2. /\ s \o t \in Seq(args) /\ Len(s \o t) = Len(s) + Len(t)
            /\ \A i \in 1..(Len(s) + Len(t)) :
                  (s \o t)[i] = IF i <= Len(s) THEN s[i] ELSE t[i - Len(s)]
        BY ConcatProperties
      <3>3. 1 \in 1..(Len(s) + Len(t)) /\ 2 \in 1..(Len(s) + Len(t)) /\ 1 <= Len(s)
        BY <2>4, <3>1
      <3> QED BY <2>4, <3>1, <3>2, <3>3
    <2> DEFINE front == given \o prices
    <2>5. front \in Seq(args) /\ Len(front) >= 2 /\ front[1] = given[1] /\ front[2] = given[2]
      <3>1. Len(given) >= 2
        BY <1>3
      <3> QED BY <2>1, <2>2, <2>4, <3>1, Zenon
    <2> HIDE DEF front
    <2>6. (front \o last)[1] = front[1] /\ (front \o last)[2] = front[2]
      BY <2>3, <2>4, <2>5, Zenon
    <2>7. (front \o last)[1] = given[1] /\ (front \o last)[2] = given[2]
      BY <2>5, <2>6, Zenon
    <2> QED BY <2>7 DEF front
  <1>5. ASSUME NEW text PROVE Value(bufferCVFromString(text)) = utf8ToBytes(text)
    BY DEF Value, bufferCVFromString, CV
  <1> HIDE DEF given, prices, last
  <1>6. /\ reveal.functionArgs[1] = bufferCVFromString(namespace)
        /\ reveal.functionArgs[2] = bufferCVFromString(salt)
    BY <1>2, <1>3, <1>4
  <1> HIDE DEF reveal, preorder
  <1>7. NamespacePreimage(reveal) = utf8ToBytes(namespace) \o utf8ToBytes(salt)
    BY <1>5, <1>6 DEF NamespacePreimage
  <1> QED BY <1>1, <1>7, BytesOfConcat DEF NamespacePreorderIsOpened, reveal, preorder

-----------------------------------------------------------------------------------
(* The theorem.                                                            *)

\* The name and the salt of the input are text, as the types of the functions demand.
TextIsGiven == Is("name") => input[2] \in Texts /\ input[3] \in Texts

\* Whatever text an application passes as a name and as a salt, a preorder commits to what
\* the registration opens, and all calls about the name mean the same one: the calls of
\* bns/src/index.ts, over decodeFQN and utf8ToBytes.
THEOREM EveryNameIsOpened == []TextIsGiven => []NamesAreOpened
  <1>1. TextIsGiven => NamesAreOpened
    BY NameIsOpened, NamespaceIsOpened DEF TextIsGiven, NamesAreOpened
  <1> QED BY <1>1, PTL

--------------------------------------------------------------------------------
(* Powers of two.                                                           *)

\* p[i] is the i-th power of two.
IsPower(p, n) == p = [i \in 0..n |-> IF i = 0 THEN 1 ELSE 2 * p[i - 1]]

\* There is such a table of any length.
LEMMA PowerExists == \A n \in Nat : \E p : IsPower(p, n)
  <1> DEFINE S == {n \in Nat : \E p : IsPower(p, n)}
  <1>1. 0 \in S
    <2>1. IsPower([i \in 0..0 |-> 1], 0)
      BY DEF IsPower
    <2> QED BY <2>1
  <1>2. ASSUME NEW n \in Nat, n \in S PROVE n + 1 \in S
    <2>1. PICK p : IsPower(p, n)
      BY <1>2
    <2> DEFINE q == [i \in 0..(n + 1) |-> IF i = n + 1 THEN 2 * p[n] ELSE p[i]]
    <2>2. ASSUME NEW i \in 0..(n + 1) PROVE q[i] = IF i = 0 THEN 1 ELSE 2 * q[i - 1]
      <3>1. CASE i = n + 1
        BY <3>1
      <3>2. CASE i # n + 1
        <4>1. i \in 0..n /\ (i # 0 => i - 1 \in 0..n)
          BY <3>2
        <4>2. p[i] = IF i = 0 THEN 1 ELSE 2 * p[i - 1]
          BY <2>1, <4>1 DEF IsPower
        <4> QED BY <4>1, <4>2
      <3> QED BY <3>1, <3>2
    <2>3. IsPower(q, n + 1)
      <3>1. q = [i \in 0..(n + 1) |-> q[i]]
        OBVIOUS
      <3> HIDE DEF q
      <3> QED BY <2>2, <3>1 DEF IsPower
    <2> HIDE DEF q
    <2> QED BY <2>3
  <1> HIDE DEF S
  <1>3. Nat \subseteq S
    BY <1>1, <1>2, SetInduction
  <1> QED BY <1>3 DEF S

\* Two tables agree where both are defined.
LEMMA PowersAgree ==
    ASSUME NEW m \in Nat, NEW n \in Nat, m <= n, NEW p, NEW q, IsPower(p, m), IsPower(q, n)
    PROVE  \A i \in 0..m : p[i] = q[i] /\ p[i] \in Nat /\ p[i] # 0
  <1> DEFINE Q(i) == p[i] = q[i] /\ p[i] \in Nat /\ p[i] # 0
             S == {i \in Nat : i <= m => Q(i)}
  <1>1. Q(0)
    BY DEF IsPower
  <1>2. ASSUME NEW i \in Nat, i + 1 <= m, Q(i) PROVE Q(i + 1)
    <2>1. i + 1 \in 0..m /\ i + 1 \in 0..n /\ i + 1 # 0 /\ (i + 1) - 1 = i
      BY <1>2
    <2>2. p[i + 1] = 2 * p[i] /\ q[i + 1] = 2 * q[i]
      BY <2>1 DEF IsPower
    <2> QED BY <1>2, <2>2
  <1> HIDE DEF Q
  <1>3. 0 \in S /\ \A i \in Nat : i \in S => i + 1 \in S
    BY <1>1, <1>2
  <1> HIDE DEF S
  <1>4. Nat \subseteq S
    BY <1>3, SetInduction
  <1>5. \A i \in 0..m : Q(i)
    BY <1>4 DEF S
  <1> QED BY <1>5 DEF Q

\* TwoTo doubles from one bit to the next.
LEMMA PowerOfTwo ==
    ASSUME NEW n \in Nat
    PROVE  TwoTo(n) \in Nat /\ TwoTo(n) # 0 /\ TwoTo(0) = 1 /\ TwoTo(n + 1) = 2 * TwoTo(n)
  <1> DEFINE P(k) == CHOOSE p : IsPower(p, k)
  <1>1. ASSUME NEW k \in Nat PROVE IsPower(P(k), k) /\ TwoTo(k) = P(k)[k]
    <2>1. IsPower(P(k), k)
      BY PowerExists
    <2>2. TwoTo(k) = P(k)[k]
      BY DEF TwoTo, IsPower
    <2> QED BY <2>1, <2>2
  <1> HIDE DEF P
  <1>2. TwoTo(0) = 1
    BY <1>1 DEF IsPower
  <1>3. n + 1 \in Nat /\ n <= n + 1 /\ n \in 0..n /\ n + 1 \in 0..(n + 1) /\ (n + 1) - 1 = n /\ n + 1 # 0
    OBVIOUS
  <1>4. P(n)[n] = P(n + 1)[n] /\ P(n)[n] \in Nat /\ P(n)[n] # 0
    BY <1>1, <1>3, PowersAgree
  <1>5. P(n + 1)[n + 1] = 2 * P(n + 1)[n]
    BY <1>1, <1>3 DEF IsPower
  <1> QED BY <1>1, <1>2, <1>3, <1>4, <1>5

\* One byte more is 256 times as much, and a whole number of bytes halves evenly.
LEMMA EightBits ==
    ASSUME NEW n \in Nat
    PROVE  TwoTo(8 * (n + 1)) = 256 * TwoTo(8 * n) /\ TwoTo(8 * (n + 1)) = 2 * TwoTo(8 * (n + 1) - 1)
  <1> DEFINE a == 8 * n
  <1>1. a \in Nat /\ 8 * (n + 1) = a + 8
    OBVIOUS
  <1> HIDE DEF a
  <1>2. /\ TwoTo(a + 1) = 2 * TwoTo(a)     /\ TwoTo(a + 2) = 2 * TwoTo(a + 1)
        /\ TwoTo(a + 3) = 2 * TwoTo(a + 2) /\ TwoTo(a + 4) = 2 * TwoTo(a + 3)
        /\ TwoTo(a + 5) = 2 * TwoTo(a + 4) /\ TwoTo(a + 6) = 2 * TwoTo(a + 5)
        /\ TwoTo(a + 7) = 2 * TwoTo(a + 6) /\ TwoTo(a + 8) = 2 * TwoTo(a + 7)
    <2>1. ASSUME NEW i \in 0..7 PROVE TwoTo(a + (i + 1)) = 2 * TwoTo(a + i)
      <3>1. a + i \in Nat /\ (a + i) + 1 = a + (i + 1)
        BY <1>1
      <3>2. TwoTo((a + i) + 1) = 2 * TwoTo(a + i)
        BY <3>1, PowerOfTwo
      <3> QED BY <3>1, <3>2
    <2>2. /\ 0 + 1 = 1 /\ 1 + 1 = 2 /\ 2 + 1 = 3 /\ 3 + 1 = 4 /\ 4 + 1 = 5 /\ 5 + 1 = 6
          /\ 6 + 1 = 7 /\ 7 + 1 = 8 /\ a + 0 = a
      BY <1>1
    <2> QED BY <2>1, <2>2
  <1>3. TwoTo(a) \in Nat
    BY <1>1, PowerOfTwo
  <1>4. TwoTo(a + 8) = 256 * TwoTo(a)
    BY <1>2, <1>3
  <1>5. 8 * (n + 1) - 1 = a + 7
    BY <1>1
  <1> QED BY <1>1, <1>2, <1>4, <1>5 DEF a

--------------------------------------------------------------------------------
(* Bytes as a number.                                                      *)

\* v[i] is the number the first i of n bytes stand for.
IsNumberOf(v, bytes, n) ==
    /\ v[0] = 0
    /\ \A i \in 1..n : v[i] = 256 * v[i - 1] + bytes[i]

\* What FoldLeft computes, from the last byte back.
IsFold(fold, bytes, n) ==
    fold = [s \in SUBSET (1..n) |->
               IF s = {} THEN 0 ELSE 256 * fold[s \ {Max(s)}] + bytes[Max(s)]]

\* The last of the numbers up to n is their maximum.
LEMMA LastIsMax ==
    ASSUME NEW n \in Nat, NEW s \in SUBSET (1..n), n \in s
    PROVE  Max(s) = n
  <1>1. \A x \in s : n >= x
    OBVIOUS
  <1>2. \A x \in s : (\A y \in s : x >= y) => x = n
    OBVIOUS
  <1> QED BY <1>1, <1>2 DEF Max

\* There is such a fold over any number of bytes.
LEMMA FoldExists ==
    ASSUME NEW bytes
    PROVE  \A n \in Nat : \E fold : IsFold(fold, bytes, n)
  <1> DEFINE S == {n \in Nat : \E fold : IsFold(fold, bytes, n)}
  <1>1. 0 \in S
    <2>1. \A s \in SUBSET (1..0) : s = {}
      OBVIOUS
    <2>2. IsFold([s \in SUBSET (1..0) |-> 0], bytes, 0)
      BY <2>1 DEF IsFold
    <2> QED BY <2>2
  <1>2. ASSUME NEW n \in Nat, n \in S PROVE n + 1 \in S
    <2>1. PICK fold : IsFold(fold, bytes, n)
      BY <1>2
    <2> DEFINE F(s) == IF n + 1 \in s THEN 256 * fold[s \ {n + 1}] + bytes[n + 1] ELSE fold[s]
               g == [s \in SUBSET (1..(n + 1)) |-> F(s)]
    <2>2. ASSUME NEW s \in SUBSET (1..(n + 1))
          PROVE  g[s] = IF s = {} THEN 0 ELSE 256 * g[s \ {Max(s)}] + bytes[Max(s)]
      <3>1. g[s] = F(s)
        OBVIOUS
      <3>2. s \ {Max(s)} \in SUBSET (1..(n + 1))
        OBVIOUS
      <3>3. g[s \ {Max(s)}] = F(s \ {Max(s)})
        BY <3>2
      <3> HIDE DEF g
      <3>4. CASE n + 1 \in s
        <4>1. Max(s) = n + 1
          BY <3>4, LastIsMax
        <4>2. F(s \ {n + 1}) = fold[s \ {n + 1}]
          OBVIOUS
        <4>3. F(s) = 256 * fold[s \ {n + 1}] + bytes[n + 1] /\ s # {}
          BY <3>4
        <4> HIDE DEF F
        <4> QED BY <3>1, <3>3, <4>1, <4>2, <4>3
      <3>5. CASE n + 1 \notin s
        <4>1. s \in SUBSET (1..n)
          BY <3>5
        <4>2. F(s) = fold[s] /\ F(s \ {Max(s)}) = fold[s \ {Max(s)}]
          BY <3>5
        <4>3. fold[s] = IF s = {} THEN 0 ELSE 256 * fold[s \ {Max(s)}] + bytes[Max(s)]
          BY <2>1, <4>1 DEF IsFold
        <4> HIDE DEF F
        <4> QED BY <3>1, <3>3, <4>2, <4>3
      <3> QED BY <3>4, <3>5
    <2>3. IsFold(g, bytes, n + 1)
      <3>1. g = [s \in SUBSET (1..(n + 1)) |-> g[s]]
        OBVIOUS
      <3> HIDE DEF g
      <3> QED BY <2>2, <3>1 DEF IsFold
    <2> HIDE DEF g
    <2> QED BY <2>3
  <1> HIDE DEF S
  <1>3. Nat \subseteq S
    BY <1>1, <1>2, SetInduction
  <1> QED BY <1>3 DEF S

\* What BigInt reads is the last entry of the table of its bytes.
LEMMA NumberOfBytes ==
    ASSUME NEW bytes \in Bytes
    PROVE  \E v : IsNumberOf(v, bytes, Len(bytes)) /\ BigInt(bytes) = v[Len(bytes)]
  <1> DEFINE n == Len(bytes)
             fold == CHOOSE fold : IsFold(fold, bytes, n)
             v == [i \in 0..n |-> fold[1..i]]
  <1>1. n \in Nat /\ DOMAIN bytes = 1..n
    BY LenProperties DEF Bytes
  <1>2. IsFold(fold, bytes, n)
    <2> HIDE DEF n
    <2> QED BY <1>1, FoldExists
  <1>3. BigInt(bytes) = fold[1..n]
    BY <1>1 DEF BigInt, FoldLeft, MapThenFoldSet, IsFold
  <1> HIDE DEF fold, n
  <1>4. v[0] = 0
    <2>1. {} \in SUBSET (1..n) /\ 1..0 = {} /\ 0 \in 0..n
      BY <1>1
    <2>2. fold[{}] = 0
      BY <1>2, <2>1 DEF IsFold
    <2> QED BY <2>1, <2>2
  <1>5. ASSUME NEW i \in 1..n PROVE v[i] = 256 * v[i - 1] + bytes[i]
    <2>1. /\ 1..i \in SUBSET (1..n) /\ 1..i \in SUBSET (1..i) /\ i \in 1..i /\ i \in Nat
          /\ (1..i) \ {i} = 1..(i - 1) /\ i \in 0..n /\ i - 1 \in 0..n
      BY <1>1
    <2>2. Max(1..i) = i
      BY <2>1, LastIsMax
    <2>3. fold[1..i] = 256 * fold[(1..i) \ {Max(1..i)}] + bytes[Max(1..i)]
      <3>1. 1..i # {}
        BY <2>1
      <3> QED BY <1>2, <2>1, <3>1 DEF IsFold
    <2>4. v[i] = fold[1..i] /\ v[i - 1] = fold[1..(i - 1)]
      BY <2>1
    <2> HIDE DEF v
    <2> QED BY <2>1, <2>2, <2>3, <2>4
  <1>6. v[n] = BigInt(bytes)
    BY <1>1, <1>3
  <1> HIDE DEF v
  <1>7. IsNumberOf(v, bytes, n)
    BY <1>4, <1>5 DEF IsNumberOf
  <1> QED BY <1>6, <1>7 DEF n

\* The first n bytes are the same.
SameBytes(a, b, n) == \A i \in 1..n : a[i] = b[i]

\* Two tables of the same bytes agree.
LEMMA NumbersAgree ==
    ASSUME NEW n \in Nat, NEW a, NEW b, SameBytes(a, b, n),
           NEW v, NEW w, IsNumberOf(v, a, n), IsNumberOf(w, b, n)
    PROVE  \A i \in 0..n : v[i] = w[i]
  <1> DEFINE S == {i \in Nat : i <= n => v[i] = w[i]}
  <1>1. 0 \in S
    BY DEF IsNumberOf
  <1>2. ASSUME NEW i \in Nat, i \in S PROVE i + 1 \in S
    <2> SUFFICES ASSUME i + 1 <= n PROVE v[i + 1] = w[i + 1]
      OBVIOUS
    <2>1. i + 1 \in 1..n /\ (i + 1) - 1 = i /\ v[i] = w[i]
      BY <1>2
    <2>2. v[i + 1] = 256 * v[i] + a[i + 1] /\ w[i + 1] = 256 * w[i] + b[i + 1]
      BY <2>1 DEF IsNumberOf
    <2> QED BY <2>1, <2>2 DEF SameBytes
  <1> HIDE DEF S
  <1>3. Nat \subseteq S
    BY <1>1, <1>2, SetInduction
  <1> QED BY <1>3 DEF S

\* Appending a byte shifts the number by eight bits.
LEMMA AppendedByte ==
    ASSUME NEW bytes \in Bytes, NEW b \in Nat
    PROVE  BigInt(Append(bytes, b)) = 256 * BigInt(bytes) + b
  <1> DEFINE n == Len(bytes)
             longer == Append(bytes, b)
  <1>1. /\ n \in Nat /\ longer \in Bytes /\ Len(longer) = n + 1 /\ longer[n + 1] = b
        /\ \A i \in 1..n : longer[i] = bytes[i]
    BY AppendProperties, LenProperties DEF Bytes
  <1>2. PICK v : IsNumberOf(v, bytes, n) /\ BigInt(bytes) = v[n]
    BY NumberOfBytes
  <1>3. PICK w : IsNumberOf(w, longer, n + 1) /\ BigInt(longer) = w[n + 1]
    BY <1>1, NumberOfBytes
  <1> HIDE DEF n, longer
  <1>4. IsNumberOf(w, longer, n)
    BY <1>1, <1>3 DEF IsNumberOf
  <1>5. w[n] = v[n]
    <2>1. n \in 0..n
      BY <1>1
    <2>2. SameBytes(longer, bytes, n)
      BY <1>1 DEF SameBytes
    <2>3. \A i \in 0..n : w[i] = v[i]
      BY <1>1, <1>2, <1>4, <2>2, NumbersAgree
    <2> QED BY <2>1, <2>3
  <1>6. w[n + 1] = 256 * w[n] + b
    <2>1. n + 1 \in 1..(n + 1) /\ (n + 1) - 1 = n
      BY <1>1
    <2> QED BY <1>1, <1>3, <2>1 DEF IsNumberOf
  <1> QED BY <1>2, <1>3, <1>5, <1>6 DEF longer

\* Zeros in front do not count.
LEMMA PaddedNumber ==
    ASSUME NEW bytes \in Bytes, NEW length \in Nat, Len(bytes) <= length
    PROVE  /\ padStart(bytes, length) \in Bytes /\ Len(padStart(bytes, length)) = length
           /\ BigInt(padStart(bytes, length)) = BigInt(bytes)
  <1> DEFINE n == Len(bytes)
             k == length - Len(bytes)
             zeros == [i \in 1..k |-> 0]
             padded == padStart(bytes, length)
  <1>1. n \in Nat /\ k \in Nat /\ k + n = length /\ padded = zeros \o bytes
    BY LenProperties DEF Bytes, padStart
  <1>2. zeros \in Bytes /\ Len(zeros) = k /\ \A i \in 1..k : zeros[i] = 0
    BY <1>1 DEF Bytes
  <1> HIDE DEF zeros, k, padded, n
  <1>3. /\ padded \in Bytes /\ Len(padded) = k + n
        /\ \A i \in 1..(k + n) : padded[i] = IF i <= k THEN zeros[i] ELSE bytes[i - k]
    BY <1>1, <1>2, ConcatProperties DEF Bytes, n
  <1>4. PICK v : IsNumberOf(v, bytes, n) /\ BigInt(bytes) = v[n]
    BY NumberOfBytes DEF n
  <1>5. PICK w : IsNumberOf(w, padded, k + n) /\ BigInt(padded) = w[k + n]
    BY <1>3, NumberOfBytes
  <1>6. w[k] = 0
    <2> DEFINE S == {i \in Nat : i <= k => w[i] = 0}
    <2>1. 0 \in S
      BY <1>5 DEF IsNumberOf
    <2>2. ASSUME NEW i \in Nat, i \in S PROVE i + 1 \in S
      <3> SUFFICES ASSUME i + 1 <= k PROVE w[i + 1] = 0
        OBVIOUS
      <3>1. /\ i + 1 \in 1..(k + n) /\ i + 1 \in 1..k /\ i + 1 <= k /\ (i + 1) - 1 = i
            /\ w[i] = 0
        BY <1>1, <2>2
      <3>2. w[i + 1] = 256 * w[i] + padded[i + 1]
        BY <1>5, <3>1 DEF IsNumberOf
      <3>3. padded[i + 1] = 0
        BY <1>2, <1>3, <3>1
      <3> QED BY <3>1, <3>2, <3>3
    <2> HIDE DEF S
    <2>3. Nat \subseteq S
      BY <2>1, <2>2, SetInduction
    <2> QED BY <1>1, <2>3 DEF S
  <1>7. w[k + n] = v[n]
    <2> DEFINE Q(i) == w[k + i] = v[i]
               S == {i \in Nat : i <= n => Q(i)}
    <2>1. Q(0)
      BY <1>1, <1>4, <1>6 DEF IsNumberOf
    <2>2. ASSUME NEW i \in Nat, i + 1 <= n, Q(i) PROVE Q(i + 1)
      <3>1. /\ k + (i + 1) \in 1..(k + n) /\ i + 1 \in 1..n /\ (i + 1) - 1 = i
            /\ (k + (i + 1)) - 1 = k + i /\ ~(k + (i + 1) <= k) /\ (k + (i + 1)) - k = i + 1
        <4>1. k \in Nat /\ n \in Nat /\ i \in Nat /\ i + 1 <= n
          BY <1>1, <2>2
        <4>2. k + (i + 1) \in 1..(k + n) /\ i + 1 \in 1..n
          BY <4>1
        <4>3. /\ (i + 1) - 1 = i /\ (k + (i + 1)) - 1 = k + i
              /\ ~(k + (i + 1) <= k) /\ (k + (i + 1)) - k = i + 1
          BY <4>1
        <4> QED BY <4>2, <4>3
      <3>2. w[k + (i + 1)] = 256 * w[k + i] + padded[k + (i + 1)]
        BY <1>5, <3>1 DEF IsNumberOf
      <3>3. v[i + 1] = 256 * v[i] + bytes[i + 1]
        BY <1>4, <3>1 DEF IsNumberOf
      <3>4. padded[k + (i + 1)] = bytes[i + 1]
        BY <1>3, <3>1
      <3> QED BY <2>2, <3>2, <3>3, <3>4
    <2> HIDE DEF Q
    <2>3. 0 \in S /\ \A i \in Nat : i \in S => i + 1 \in S
      BY <1>1, <2>1, <2>2
    <2> HIDE DEF S
    <2>4. Nat \subseteq S
      BY <2>3, SetInduction
    <2>5. Q(n)
      BY <1>1, <2>4 DEF S
    <2> QED BY <2>5 DEF Q
  <1> QED BY <1>1, <1>3, <1>4, <1>5, <1>7 DEF padded

--------------------------------------------------------------------------------
(* A number as bytes.                                                      *)

\* A number of one byte; otherwise its last byte, and the number the others stand for.
Single(n) == n < 256
Lead(n) == n \div 256
Low(n) == n % 256

\* f[i] is the digits of i, for the first numbers.
IsHex(f, n) ==
    f = [i \in 0..n |-> IF Single(i) THEN <<i>> ELSE Append(f[Lead(i)], Low(i))]

\* A number is 256 times what leads, and its last byte; what leads is smaller.
LEMMA Digits ==
    ASSUME NEW n \in Nat
    PROVE  /\ Lead(n) \in Nat /\ Low(n) \in Nat /\ Lead(n) <= n
           /\ n = 256 * Lead(n) + Low(n)
           /\ ~Single(n) => Lead(n) < n
  <1>1. Lead(n) \in Nat /\ Low(n) \in Nat /\ n = 256 * Lead(n) + Low(n)
    BY SMT DEF Lead, Low
  <1>2. Lead(n) <= n
    BY <1>1, SMT
  <1>3. ~Single(n) => Lead(n) < n
    BY <1>1, SMT DEF Single
  <1> QED BY <1>1, <1>2, <1>3

\* Zero is a byte.
LEMMA ZeroIsSingle == Single(0)
  BY SMT DEF Single

\* There is such a table of any length.
LEMMA HexExists == \A n \in Nat : \E f : IsHex(f, n)
  <1> DEFINE S == {n \in Nat : \E f : IsHex(f, n)}
  <1>1. 0 \in S
    <2>1. \A i \in 0..0 : Single(i)
      BY ZeroIsSingle
    <2>2. IsHex([i \in 0..0 |-> <<i>>], 0)
      BY <2>1 DEF IsHex
    <2> QED BY <2>2
  <1>2. ASSUME NEW n \in Nat, n \in S PROVE n + 1 \in S
    <2>1. PICK f : IsHex(f, n)
      BY <1>2
    <2> DEFINE F(i) == IF i = n + 1
                       THEN IF Single(i) THEN <<i>> ELSE Append(f[Lead(i)], Low(i))
                       ELSE f[i]
               g == [i \in 0..(n + 1) |-> F(i)]
    <2>2. ASSUME NEW i \in 0..(n + 1)
          PROVE  g[i] = IF Single(i) THEN <<i>> ELSE Append(g[Lead(i)], Low(i))
      <3>1. g[i] = F(i)
        OBVIOUS
      <3>2. ~Single(i) => Lead(i) \in 0..n /\ Lead(i) # n + 1 /\ Lead(i) \in 0..(n + 1)
        <4>1. i \in Nat
          OBVIOUS
        <4>2. Lead(i) \in Nat /\ (~Single(i) => Lead(i) < i)
          BY <4>1, Digits, Zenon
        <4> QED BY <4>1, <4>2
      <3>3. ~Single(i) => g[Lead(i)] = f[Lead(i)]
        BY <3>2
      <3>4. CASE i = n + 1
        <4>1. F(i) = IF Single(i) THEN <<i>> ELSE Append(f[Lead(i)], Low(i))
          BY <3>4
        <4> HIDE DEF F, g
        <4> QED BY <3>1, <3>3, <4>1
      <3>5. CASE i # n + 1
        <4>1. F(i) = f[i] /\ i \in 0..n
          BY <3>5
        <4>2. f[i] = IF Single(i) THEN <<i>> ELSE Append(f[Lead(i)], Low(i))
          BY <2>1, <4>1 DEF IsHex
        <4> HIDE DEF F, g
        <4> QED BY <3>1, <3>3, <4>1, <4>2
      <3> QED BY <3>4, <3>5
    <2>3. IsHex(g, n + 1)
      <3>1. g = [i \in 0..(n + 1) |-> g[i]]
        OBVIOUS
      <3> HIDE DEF g
      <3> QED BY <2>2, <3>1 DEF IsHex
    <2> HIDE DEF g
    <2> QED BY <2>3
  <1> HIDE DEF S
  <1>3. Nat \subseteq S
    BY <1>1, <1>2, SetInduction
  <1> QED BY <1>3 DEF S

\* Two of them agree where both are defined.
LEMMA HexAgrees ==
    ASSUME NEW m \in Nat, NEW n \in Nat, m <= n, NEW f, NEW g, IsHex(f, m), IsHex(g, n)
    PROVE  \A i \in 0..m : f[i] = g[i]
  <1> DEFINE S == {i \in Nat : \A j \in 0..i : j <= m => f[j] = g[j]}
  <1>1. ASSUME NEW i \in 0..m
        PROVE  /\ f[i] = IF Single(i) THEN <<i>> ELSE Append(f[Lead(i)], Low(i))
               /\ g[i] = IF Single(i) THEN <<i>> ELSE Append(g[Lead(i)], Low(i))
    <2>1. i \in 0..n
      OBVIOUS
    <2> QED BY <2>1 DEF IsHex
  <1>2. 0 \in S
    <2>1. 0 \in 0..m /\ Single(0)
      BY ZeroIsSingle
    <2>2. f[0] = <<0>> /\ g[0] = <<0>>
      BY <1>1, <2>1
    <2>3. \A j \in 0..0 : j = 0
      OBVIOUS
    <2> QED BY <2>2, <2>3
  <1>3. ASSUME NEW i \in Nat, i \in S PROVE i + 1 \in S
    <2> SUFFICES ASSUME NEW j \in 0..(i + 1), j <= m PROVE f[j] = g[j]
      OBVIOUS
    <2>1. CASE Single(j)
      <3>1. j \in 0..m
        OBVIOUS
      <3>2. f[j] = <<j>> /\ g[j] = <<j>>
        BY <1>1, <2>1, <3>1
      <3> QED BY <3>2
    <2>2. CASE ~Single(j)
      <3>1. Lead(j) \in 0..i /\ Lead(j) <= m /\ ~Single(j) /\ j \in 0..m
        <4>1. j \in Nat
          OBVIOUS
        <4>2. Lead(j) \in Nat /\ Lead(j) < j
          BY <2>2, <4>1, Digits, Zenon
        <4> QED BY <2>2, <4>1, <4>2
      <3>2. f[Lead(j)] = g[Lead(j)]
        BY <1>3, <3>1
      <3> QED BY <1>1, <3>1, <3>2
    <2> QED BY <2>1, <2>2
  <1> HIDE DEF S
  <1>4. Nat \subseteq S
    BY <1>2, <1>3, SetInduction
  <1> QED BY <1>4 DEF S

\* The recursive definition has a solution.
LEMMA HexUnfolds ==
    ASSUME NEW n \in Nat
    PROVE  intToHex[n] = IF Single(n) THEN <<n>> ELSE Append(intToHex[Lead(n)], Low(n))
  <1> DEFINE P(k) == CHOOSE f : IsHex(f, k)
             F == [k \in Nat |-> P(k)[k]]
             IsAll(f) == f = [k \in Nat |-> IF Single(k) THEN <<k>>
                                            ELSE Append(f[Lead(k)], Low(k))]
  <1>1. \A k \in Nat : IsHex(P(k), k)
    BY HexExists
  <1> HIDE DEF P
  <1>2. ASSUME NEW k \in Nat
        PROVE  F[k] = IF Single(k) THEN <<k>> ELSE Append(F[Lead(k)], Low(k))
    <2>1. F[k] = P(k)[k] /\ k \in 0..k
      OBVIOUS
    <2>2. Lead(k) \in Nat /\ Lead(k) <= k /\ Lead(k) \in 0..(Lead(k))
      BY Digits
    <2>3. F[Lead(k)] = P(Lead(k))[Lead(k)]
      BY <2>2
    <2> HIDE DEF F
    <2>4. P(Lead(k))[Lead(k)] = P(k)[Lead(k)]
      BY <1>1, <2>2, HexAgrees
    <2>5. P(k)[k] = IF Single(k) THEN <<k>> ELSE Append(P(k)[Lead(k)], Low(k))
      BY <1>1, <2>1 DEF IsHex
    <2> QED BY <2>1, <2>3, <2>4, <2>5
  <1>3. IsAll(F)
    <2>1. F = [k \in Nat |-> F[k]]
      OBVIOUS
    <2> HIDE DEF F
    <2> QED BY <1>2, <2>1
  <1> HIDE DEF F
  <1>4. IsAll(CHOOSE f : IsAll(f))
    <2> HIDE DEF IsAll
    <2> QED BY <1>3
  <1>5. intToHex = CHOOSE f : IsAll(f)
    BY DEF intToHex, Single, Lead, Low
  <1>6. IsAll(intToHex)
    <2> HIDE DEF IsAll
    <2> QED BY <1>4, <1>5
  <1> QED BY <1>6

\* The digits of a number are bytes that stand for it.
DigitsOf(n) ==
    /\ intToHex[n] \in Bytes
    /\ BigInt(intToHex[n]) = n

\* A number of one byte is that byte.
LEMMA SingleDigit ==
    ASSUME NEW n \in Nat
    PROVE  <<n>> \in Bytes /\ Len(<<n>>) = 1 /\ BigInt(<<n>>) = n
  <1>1. <<>> \in Bytes /\ Len(<<>>) = 0
    BY EmptySeq DEF Bytes
  <1>2. BigInt(<<>>) = 0
    <2>1. PICK v : IsNumberOf(v, <<>>, 0) /\ BigInt(<<>>) = v[0]
      BY <1>1, NumberOfBytes
    <2> QED BY <2>1 DEF IsNumberOf
  <1>3. Append(<<>>, n) = <<n>>
    OBVIOUS
  <1>4. BigInt(Append(<<>>, n)) = 256 * BigInt(<<>>) + n
    BY <1>1, AppendedByte, Zenon
  <1>5. BigInt(Append(<<>>, n)) = n
    BY <1>2, <1>4
  <1> QED BY <1>3, <1>5 DEF Bytes

\* Every number has its digits.
LEMMA HexReads == \A n \in Nat : DigitsOf(n)
  <1> DEFINE S == {n \in Nat : \A j \in 0..n : DigitsOf(j)}
  <1>1. ASSUME NEW n \in Nat, Single(n) PROVE DigitsOf(n)
    BY <1>1, HexUnfolds, SingleDigit DEF DigitsOf
  <1>2. 0 \in S
    <2>1. DigitsOf(0)
      BY <1>1, ZeroIsSingle
    <2>2. \A j \in 0..0 : j = 0
      OBVIOUS
    <2> QED BY <2>1, <2>2
  <1>3. ASSUME NEW n \in Nat, n \in S PROVE n + 1 \in S
    <2> SUFFICES ASSUME NEW j \in 0..(n + 1) PROVE DigitsOf(j)
      OBVIOUS
    <2>1. CASE Single(j)
      BY <1>1, <2>1
    <2>2. CASE ~Single(j)
      <3> DEFINE d == Lead(j)
                 r == Low(j)
      <3>1. d \in 0..n /\ d \in Nat /\ r \in Nat /\ j = 256 * d + r /\ j \in Nat
        <4>1. j \in Nat /\ ~Single(j)
          BY <2>2
        <4>2. d \in Nat /\ r \in Nat /\ j = 256 * d + r /\ d < j
          BY <4>1, Digits
        <4> HIDE DEF d, r
        <4> QED BY <4>1, <4>2
      <3>2. DigitsOf(d)
        <4> HIDE DEF d
        <4> QED BY <1>3, <3>1
      <3>3. intToHex[j] = Append(intToHex[d], r)
        BY <2>2, <3>1, HexUnfolds
      <3> HIDE DEF d, r
      <3>4. Append(intToHex[d], r) \in Bytes
        BY <3>1, <3>2, AppendProperties DEF DigitsOf, Bytes
      <3>5. BigInt(Append(intToHex[d], r)) = 256 * d + r
        BY <3>1, <3>2, AppendedByte DEF DigitsOf
      <3> QED BY <3>1, <3>3, <3>4, <3>5 DEF DigitsOf
    <2> QED BY <2>1, <2>2
  <1> HIDE DEF S
  <1>4. Nat \subseteq S
    BY <1>2, <1>3, SetInduction
  <1> QED BY <1>4 DEF S

\* A number of so many bytes has no more digits.
HexFit(k) == \A n \in Nat : n < TwoTo(8 * k) => Len(intToHex[n]) <= k

\* So it is for every width but none.
LEMMA HexFits == \A k \in Nat : HexFit(k + 1)
  <1> DEFINE S == {k \in Nat : HexFit(k + 1)}
  <1>1. ASSUME NEW n \in Nat, Single(n) PROVE Len(intToHex[n]) = 1
    BY <1>1, HexUnfolds, SingleDigit
  <1>2. 0 \in S
    <2>1. 8 * (0 + 1) = 8 /\ 8 * 0 = 0 /\ 0 + 1 = 1
      OBVIOUS
    <2> DEFINE w == 8 * (0 + 1)
    <2>2. TwoTo(w) = 256
      BY <2>1, EightBits, PowerOfTwo
    <2> HIDE DEF w
    <2>3. ASSUME NEW n \in Nat, n < TwoTo(w) PROVE Len(intToHex[n]) <= 0 + 1
      <3>1. Len(intToHex[n]) = 1
        BY <1>1, <2>2, <2>3 DEF Single
      <3> QED BY <3>1
    <2>4. HexFit(0 + 1)
      BY <2>3 DEF HexFit, w
    <2> QED BY <2>4
  <1>3. ASSUME NEW k \in Nat, k \in S PROVE k + 1 \in S
    <2> DEFINE p == TwoTo(8 * (k + 1))
    <2>1. k + 1 \in Nat /\ HexFit(k + 1)
      BY <1>3
    <2>2. TwoTo(8 * ((k + 1) + 1)) = 256 * p
      BY <2>1, EightBits
    <2>3. p \in Nat
      <3>1. 8 * (k + 1) \in Nat
        BY <2>1
      <3> QED BY <3>1, PowerOfTwo
    <2>4. ASSUME NEW n \in Nat, n < TwoTo(8 * ((k + 1) + 1)) PROVE Len(intToHex[n]) <= (k + 1) + 1
      <3>1. CASE Single(n)
        <4>1. Len(intToHex[n]) = 1
          BY <1>1, <3>1
        <4> QED BY <2>1, <4>1
      <3>2. CASE ~Single(n)
        <4> DEFINE d == Lead(n)
                   r == Low(n)
        <4>1. d \in Nat /\ r \in Nat /\ n = 256 * d + r /\ n < 256 * p
          BY <2>2, <2>4, Digits
        <4>2. intToHex[n] = Append(intToHex[d], r)
          BY <3>2, HexUnfolds
        <4> HIDE DEF d, r, p
        <4>3. d < p
          BY <2>3, <4>1
        <4>4. Len(intToHex[d]) <= k + 1 /\ intToHex[d] \in Bytes
          BY <2>1, <4>1, <4>3, HexReads DEF HexFit, DigitsOf, p
        <4>5. Len(Append(intToHex[d], r)) = Len(intToHex[d]) + 1 /\ Len(intToHex[d]) \in Nat
          BY <4>1, <4>4, AppendProperties, LenProperties DEF Bytes
        <4> QED BY <2>1, <4>2, <4>4, <4>5
      <3> QED BY <3>1, <3>2
    <2>5. HexFit((k + 1) + 1)
      BY <2>4 DEF HexFit
    <2> QED BY <2>1, <2>5
  <1> HIDE DEF S
  <1>4. Nat \subseteq S
    BY <1>2, <1>3, SetInduction
  <1> QED BY <1>4 DEF S

\* A number that fits is read back from so many bytes.
LEMMA NumberReadsBack ==
    ASSUME NEW k \in Nat, k # 0, NEW n \in Nat, n < TwoTo(8 * k)
    PROVE  /\ bigIntToBytes(n, k) \in Bytes
           /\ Len(bigIntToBytes(n, k)) = k
           /\ BigInt(bigIntToBytes(n, k)) = n
  <1>1. k - 1 \in Nat /\ (k - 1) + 1 = k
    OBVIOUS
  <1>2. HexFit(k)
    BY <1>1, HexFits
  <1>3. intToHex[n] \in Bytes /\ BigInt(intToHex[n]) = n /\ Len(intToHex[n]) <= k
    BY <1>2, HexReads DEF DigitsOf, HexFit
  <1> QED BY <1>3, PaddedNumber DEF bigIntToBytes

\* The integers of a width, the signed ones in two's complement.
LEMMA SignedFit ==
    ASSUME NEW n \in MinInt..MaxInt
    PROVE  /\ n \in Int /\ toTwos(n, 8 * IntBytes) \in Nat
           /\ toTwos(n, 8 * IntBytes) < TwoTo(8 * IntBytes)
           /\ fromTwos(toTwos(n, 8 * IntBytes), 8 * IntBytes) = n
  <1> DEFINE w == 8 * IntBytes
             h == TwoTo(w - 1)
  <1>1. IntBytes \in Nat /\ IntBytes # 0 /\ IntBytes - 1 \in Nat /\ (IntBytes - 1) + 1 = IntBytes
    BY WidthAssumption
  <1>2. TwoTo(w) = 2 * h
    BY <1>1, EightBits
  <1>3. h \in Nat
    <2>1. w - 1 \in Nat
      BY <1>1
    <2> HIDE DEF w
    <2> QED BY <2>1, PowerOfTwo
  <1>4. n \in (-h)..(h - 1)
    BY DEF MinInt, MaxInt
  <1> HIDE DEF h, w
  <1>5. toTwos(n, w) = IF n >= 0 THEN n ELSE n + 2 * h
    BY <1>2 DEF toTwos
  <1>6. ASSUME NEW m \in Nat PROVE fromTwos(m, w) = IF m >= h THEN m - 2 * h ELSE m
    BY <1>2 DEF fromTwos, h
  <1>7. n \in Int /\ toTwos(n, w) \in Nat /\ toTwos(n, w) < 2 * h
    BY <1>3, <1>4, <1>5
  <1>8. fromTwos(toTwos(n, w), w) = n
    <2>1. fromTwos(toTwos(n, w), w) = IF toTwos(n, w) >= h THEN toTwos(n, w) - 2 * h ELSE toTwos(n, w)
      BY <1>6, <1>7
    <2> QED BY <1>3, <1>4, <1>5, <2>1
  <1> QED BY <1>2, <1>7, <1>8 DEF w

\* Every integer of the width the code gives it is read back from its bytes, which are as
\* many as the width: intCV of what serializeCV writes of an int, uintCV of a uint.
THEOREM IntegersReadBack ==
    /\ \A n \in MinInt..MaxInt :
          LET bytes == bigIntToBytes(toTwos(n, 8 * IntBytes), IntBytes)
          IN Len(bytes) = IntBytes /\ intCV([bytes |-> bytes]) = CV("int", n)
    /\ \A n \in 0..MaxUInt :
          LET bytes == bigIntToBytes(n, IntBytes)
          IN Len(bytes) = IntBytes /\ uintCV([bytes |-> bytes]) = CV("uint", n)
  <1>1. IntBytes \in Nat /\ IntBytes # 0
    BY WidthAssumption
  <1>2. ASSUME NEW bytes \in Bytes, Len(bytes) = IntBytes PROVE bytes # <<>>
    BY <1>1, <1>2
  <1>3. ASSUME NEW n \in MinInt..MaxInt, NEW bytes,
               bytes = bigIntToBytes(toTwos(n, 8 * IntBytes), IntBytes)
        PROVE  Len(bytes) = IntBytes /\ intCV([bytes |-> bytes]) = CV("int", n)
    <2> DEFINE m == toTwos(n, 8 * IntBytes)
    <2>1. m \in Nat /\ m < TwoTo(8 * IntBytes) /\ fromTwos(m, 8 * IntBytes) = n
      BY SignedFit
    <2> HIDE DEF m
    <2>2. bytes \in Bytes /\ Len(bytes) = IntBytes /\ BigInt(bytes) = m
      BY <1>1, <1>3, <2>1, NumberReadsBack DEF m
    <2>3. bytesToTwosBigInt(bytes) = n
      BY <2>1, <2>2 DEF bytesToTwosBigInt
    <2>4. bytes # <<>>
      BY <1>2, <2>2
    <2> QED BY <2>2, <2>3, <2>4 DEF intCV
  <1>4. ASSUME NEW n \in 0..MaxUInt, NEW bytes, bytes = bigIntToBytes(n, IntBytes)
        PROVE  Len(bytes) = IntBytes /\ uintCV([bytes |-> bytes]) = CV("uint", n)
    <2>1. n \in Nat /\ n < TwoTo(8 * IntBytes)
      <3>1. 8 * IntBytes \in Nat
        BY <1>1
      <3>2. TwoTo(8 * IntBytes) \in Nat
        BY <3>1, PowerOfTwo
      <3> QED BY <3>2 DEF MaxUInt
    <2>2. bytes \in Bytes /\ Len(bytes) = IntBytes /\ BigInt(bytes) = n
      BY <1>1, <1>4, <2>1, NumberReadsBack
    <2>3. bytes # <<>>
      BY <1>2, <2>2
    <2> QED BY <2>2, <2>3 DEF uintCV
  <1> QED BY <1>3, <1>4

--------------------------------------------------------------------------------
(* Reward addresses, cycles and locks.                                     *)

\* A cycle's worth of blocks: what is left of one goes into the next whole number of them.
LEMMA NextCycle ==
    ASSUME NEW height \in Nat, NEW first \in Nat, NEW length \in Nat, length # 0
    PROVE  NextCycleStarts(height, first, length)
  <1> DEFINE d == height - first
             m == d % length
             q == d \div length
             b == length - m
  <1> SUFFICES ASSUME height >= first
               PROVE  /\ blocksToNextCycle(height, first, length) \in 1..length
                      /\ (height + blocksToNextCycle(height, first, length) - first) % length = 0
    BY DEF NextCycleStarts
  <1>1. d \in Nat /\ blocksToNextCycle(height, first, length) = b
    BY DEF blocksToNextCycle
  <1>2. m \in 0..(length - 1) /\ q \in Nat /\ d = length * q + m
    <2> HIDE DEF d
    <2> QED BY <1>1
  <1>3. height + b - first = length * (q + 1)
    <2> HIDE DEF m, q
    <2>1. length * (q + 1) = length * q + length
      BY <1>2
    <2>2. height + b - first = d + b
      BY <1>2
    <2> QED BY <1>2, <2>1, <2>2
  <1>4. (length * (q + 1)) % length = 0
    <2> HIDE DEF q
    <2>1. q + 1 \in Nat
      BY <1>2
    <2> QED BY <2>1
  <1>5. b \in 1..length
    <2> HIDE DEF m
    <2> QED BY <1>2
  <1> QED BY <1>1, <1>3, <1>4, <1>5

\* What the text of a Bitcoin address spells: in base58 the 20 bytes of a hash and no
\* prefix.
BitcoinAddresses ==
    [form : {"base58"}, version : Nat, hrp : {""}, data : {hash \in Bytes : Len(hash) = 20}]
    \cup [form : {"bech32", "bech32m"}, version : Nat, hrp : STRING, data : Bytes]

\* The address of a reward address, version by version.
LEMMA AddressOfReward ==
    ASSUME NEW hash, NEW network
    PROVE  /\ poxAddressToBtcAddress(P2PKH, hash, network)
                  = Base58(BitcoinNetworkVersion(network).p2pkh, hash)
           /\ \A version \in {P2SH, P2SHP2WPKH, P2SHP2WSH} :
                 poxAddressToBtcAddress(version, hash, network)
                     = Base58(BitcoinNetworkVersion(network).p2sh, hash)
           /\ \A version \in {P2WPKH, P2WSH} :
                 poxAddressToBtcAddress(version, hash, network)
                     = Segwit("bech32", 0, network, hash)
           /\ poxAddressToBtcAddress(P2TR, hash, network) = Segwit("bech32m", 1, network, hash)
  BY DEF poxAddressToBtcAddress, P2PKH, P2SH, P2SHP2WPKH, P2SHP2WSH, P2WPKH, P2WSH, P2TR

\* What decoding accepts, case by case.
LEMMA DecodedAddress ==
    ASSUME NEW address \in BitcoinAddresses, decodeBtcAddress(address) # Thrown
    PROVE  /\ decodeBtcAddress(address) = <<decodeBtcAddress(address)[1], address.data>>
           /\ Len(address.data) = HashLength(decodeBtcAddress(address)[1])
           /\ \E network \in Networks :
                 poxAddressToBtcAddress(decodeBtcAddress(address)[1], address.data, network)
                     = address
  <1> DEFINE native == nativeAddressToSegwitVersion(address.version, Len(address.data))
             hash == address.data
  <1>1. CASE B58_ADDR_PREFIXES(address)
    <2>1. /\ address = [form |-> "base58", version |-> address.version, hrp |-> "",
                        data |-> hash]
          /\ Len(hash) = 20 /\ address.version \in {0, 5, 111, 196}
      BY <1>1 DEF BitcoinAddresses, B58_ADDR_PREFIXES
    <2>2. decodeBtcAddress(address)
              = <<btcAddressVersionToLegacyHashMode(address.version), hash>>
      BY <1>1 DEF decodeBtcAddress
    <2>3. address.version \in {0, 111} =>
              btcAddressVersionToLegacyHashMode(address.version) = P2PKH
      BY DEF btcAddressVersionToLegacyHashMode
    <2>4. address.version \in {5, 196} =>
              btcAddressVersionToLegacyHashMode(address.version) = P2SH
      BY DEF btcAddressVersionToLegacyHashMode
    <2>5. /\ BitcoinNetworkVersion("mainnet") = [p2pkh |-> 0, p2sh |-> 5]
          /\ BitcoinNetworkVersion("testnet") = [p2pkh |-> 111, p2sh |-> 196]
          /\ "mainnet" \in Networks /\ "testnet" \in Networks
      BY DEF BitcoinNetworkVersion, Networks
    <2>6. HashLength(P2PKH) = 20 /\ HashLength(P2SH) = 20
      BY DEF HashLength, P2PKH, P2SH, P2WSH, P2TR
    <2>7. CASE address.version \in {0, 111}
      <3>1. PICK network \in Networks : BitcoinNetworkVersion(network).p2pkh = address.version
        BY <2>5, <2>7
      <3>2. decodeBtcAddress(address) = <<P2PKH, address.data>>
        BY <2>2, <2>3, <2>7
      <3>3. poxAddressToBtcAddress(P2PKH, address.data, network) = address
        <4>1. poxAddressToBtcAddress(P2PKH, address.data, network)
                  = Base58(address.version, address.data)
          BY <3>1, AddressOfReward
        <4>2. Base58(address.version, address.data) = address
          BY <2>1 DEF Base58
        <4> QED BY <4>1, <4>2
      <3>4. decodeBtcAddress(address)[1] = P2PKH
        BY <3>2
      <3>5. Len(address.data) = HashLength(P2PKH)
        BY <2>1, <2>6
      <3> HIDE DEF hash, native
      <3> QED BY <3>2, <3>3, <3>4, <3>5
    <2>8. CASE address.version \in {5, 196}
      <3>1. PICK network \in Networks : BitcoinNetworkVersion(network).p2sh = address.version
        BY <2>5, <2>8
      <3>2. decodeBtcAddress(address) = <<P2SH, address.data>>
        BY <2>2, <2>4, <2>8
      <3>3. poxAddressToBtcAddress(P2SH, address.data, network) = address
        <4>1. poxAddressToBtcAddress(P2SH, address.data, network)
                  = Base58(address.version, address.data)
          BY <3>1, AddressOfReward
        <4>2. Base58(address.version, address.data) = address
          BY <2>1 DEF Base58
        <4> QED BY <4>1, <4>2
      <3>4. decodeBtcAddress(address)[1] = P2SH
        BY <3>2
      <3>5. Len(address.data) = HashLength(P2SH)
        BY <2>1, <2>6
      <3> HIDE DEF hash, native
      <3> QED BY <3>2, <3>3, <3>4, <3>5
    <2> QED BY <2>1, <2>7, <2>8
  <1>2. CASE ~B58_ADDR_PREFIXES(address)
    <2>1. /\ SEGWIT_ADDR_PREFIXES(address) /\ decodeNativeSegwitBtcAddress(address)
          /\ native # Unsupported /\ decodeBtcAddress(address) = <<native, hash>>
      BY <1>2 DEF decodeBtcAddress
    <2>2. /\ address = [form |-> address.form, version |-> address.version,
                        hrp |-> address.hrp, data |-> hash]
          /\ address.hrp \in {"bc", "tb", "bcrt"}
      BY <2>1 DEF BitcoinAddresses, SEGWIT_ADDR_PREFIXES
    <2>3. \E network \in Networks : SegwitPrefix(network) = address.hrp
      <3>1. /\ SegwitPrefix("mainnet") = "bc" /\ SegwitPrefix("testnet") = "tb"
            /\ SegwitPrefix("devnet") = "bcrt"
        BY DEF SegwitPrefix
      <3>2. "mainnet" \in Networks /\ "testnet" \in Networks /\ "devnet" \in Networks
        BY DEF Networks
      <3> QED BY <2>2, <3>1, <3>2
    <2>4. \/ /\ address.form = "bech32" /\ address.version = 0
             /\ native = P2WPKH /\ Len(hash) = 20
          \/ /\ address.form = "bech32" /\ address.version = 0
             /\ native = P2WSH /\ Len(hash) = 32
          \/ /\ address.form = "bech32m" /\ address.version = 1
             /\ native = P2TR /\ Len(hash) = 32
      BY <2>1 DEF decodeNativeSegwitBtcAddress, nativeAddressToSegwitVersion
    <2>5. /\ HashLength(P2WPKH) = 20 /\ HashLength(P2WSH) = 32 /\ HashLength(P2TR) = 32
      BY DEF HashLength, P2WPKH, P2WSH, P2TR
    <2>6. \A network :
             /\ poxAddressToBtcAddress(P2WPKH, hash, network) = Segwit("bech32", 0, network, hash)
             /\ poxAddressToBtcAddress(P2WSH, hash, network) = Segwit("bech32", 0, network, hash)
             /\ poxAddressToBtcAddress(P2TR, hash, network) = Segwit("bech32m", 1, network, hash)
      BY AddressOfReward
    <2> HIDE DEF native, hash
    <2>7. /\ decodeBtcAddress(address)[1] = native
          /\ decodeBtcAddress(address) = <<native, address.data>>
      BY <2>1 DEF hash
    <2>8. \E network \in Networks :
             poxAddressToBtcAddress(native, hash, network) = address
      <3>1. PICK network \in Networks : SegwitPrefix(network) = address.hrp
        BY <2>3
      <3>2. address = Segwit(address.form, address.version, network, hash)
        BY <2>2, <3>1 DEF Segwit
      <3> QED BY <2>4, <2>6, <3>2
    <2>9. Len(hash) = HashLength(native)
      BY <2>4, <2>5
    <2> QED BY <2>7, <2>8, <2>9 DEF hash
  <1> QED BY <1>1, <1>2

\* A reward address becomes the Bitcoin address it was made from.
LEMMA AddressIsRead ==
    ASSUME NEW address \in BitcoinAddresses
    PROVE  AddressReadsBack(address)
  <1> DEFINE tuple == poxAddressToTuple(address)
             decoded == decodeBtcAddress(address)
  <1> SUFFICES ASSUME tuple # Thrown
               PROVE  extractPoxAddressFromClarityValue(tuple) = decoded /\ decoded # Thrown
    <2>1. ASSUME extractPoxAddressFromClarityValue(tuple) = decoded, decoded # Thrown
          PROVE  /\ Len(decoded[2]) = HashLength(decoded[1])
                 /\ \E network \in Networks :
                       poxAddressToBtcAddress(decoded[1], decoded[2], network) = address
      <3>1. decoded[2] = address.data
        BY <2>1, DecodedAddress
      <3> QED BY <2>1, <3>1, DecodedAddress
    <2> HIDE DEF tuple, decoded
    <2> QED BY <2>1 DEF AddressReadsBack, tuple
  <1>1. decoded # Thrown
    BY DEF poxAddressToTuple
  <1> DEFINE entries == <<Pair("version", CV("buffer", <<decoded[1]>>)),
                          Pair("hashbytes", CV("buffer", decoded[2]))>>
  <1>2. tuple = CV("tuple", entries)
    BY <1>1 DEF poxAddressToTuple
  <1>3. decoded = <<decoded[1], decoded[2]>>
    BY <1>1, DecodedAddress
  <1> HIDE DEF tuple, decoded
  <1>4. Type(tuple) = "tuple" /\ Value(tuple) = entries
    BY <1>2 DEF Type, Value, CV
  <1> DEFINE At(k) == {Value(tuple)[i].value : i \in FieldNamed(Value(tuple), k)}
  <1>5. /\ At("version") = {CV("buffer", <<decoded[1]>>)}
        /\ At("hashbytes") = {CV("buffer", decoded[2])}
    <2>1. FieldNamed(entries, "version") = {1} /\ FieldNamed(entries, "hashbytes") = {2}
      BY DEF FieldNamed, Pair
    <2>2. /\ entries[1].value = CV("buffer", <<decoded[1]>>)
          /\ entries[2].value = CV("buffer", decoded[2])
      BY DEF Pair
    <2> HIDE DEF entries
    <2> QED BY <1>4, <2>1, <2>2
  <1>6. \A x : Type(CV("buffer", x)) = "buffer" /\ Value(CV("buffer", x)) = x
    BY DEF Type, Value, CV
  <1> DEFINE version == CHOOSE v \in At("version") : TRUE
             hash == CHOOSE v \in At("hashbytes") : TRUE
  <1>7. ~\E k \in {"version", "hashbytes"} :
            At(k) = {} \/ \E v \in At(k) : Type(v) # "buffer"
    <2> HIDE DEF At
    <2> QED BY <1>5, <1>6
  <1>8. version = CV("buffer", <<decoded[1]>>) /\ hash = CV("buffer", decoded[2])
    <2> HIDE DEF At
    <2> QED BY <1>5
  <1>9. extractPoxAddressFromClarityValue(tuple) = <<Value(version)[1], Value(hash)>>
    BY <1>4, <1>7 DEF extractPoxAddressFromClarityValue
  <1>10. extractPoxAddressFromClarityValue(tuple) = <<decoded[1], decoded[2]>>
    <2> HIDE DEF version, hash
    <2>1. Value(version) = <<decoded[1]>> /\ Value(hash) = decoded[2]
      BY <1>6, <1>8
    <2> QED BY <1>9, <2>1
  <1> QED BY <1>1, <1>3, <1>10

\* The address of a reward address is read as that reward address.
LEMMA RewardIsRead ==
    ASSUME NEW version \in 0..6, NEW hash, NEW network \in Networks
    PROVE  RewardReadsBack(version, hash, network)
  <1> DEFINE address == poxAddressToBtcAddress(version, hash, network)
  <1> SUFFICES ASSUME Len(hash) = HashLength(version)
               PROVE  decodeBtcAddress(address) =
                        <<IF version \in {P2SHP2WPKH, P2SHP2WSH} THEN P2SH ELSE version, hash>>
    BY DEF RewardReadsBack
  <1>1. BitcoinNetworkVersion(network) \in {[p2pkh |-> 0, p2sh |-> 5], [p2pkh |-> 111, p2sh |-> 196]}
    BY DEF BitcoinNetworkVersion
  <1>2. SegwitPrefix(network) \in {"bc", "tb", "bcrt"}
    BY DEF SegwitPrefix
  <1>3. ASSUME NEW v \in {0, 5, 111, 196}
        PROVE  decodeBtcAddress(Base58(v, hash)) = <<btcAddressVersionToLegacyHashMode(v), hash>>
    <2>1. Base58(v, hash).version = v /\ Base58(v, hash).data = hash
      BY DEF Base58
    <2>2. B58_ADDR_PREFIXES(Base58(v, hash))
      BY DEF B58_ADDR_PREFIXES, Base58
    <2> QED BY <2>1, <2>2 DEF decodeBtcAddress
  <1>4. ASSUME NEW form \in {"bech32", "bech32m"}, NEW v, NEW native,
               nativeAddressToSegwitVersion(v, Len(hash)) = native, native # Unsupported,
               (v = 0 /\ form = "bech32") \/ (v = 1 /\ form = "bech32m")
        PROVE  decodeBtcAddress(Segwit(form, v, network, hash)) = <<native, hash>>
    <2> DEFINE made == Segwit(form, v, network, hash)
    <2>1. /\ made.form = form /\ made.version = v /\ made.data = hash
          /\ made.hrp = SegwitPrefix(network)
      BY DEF Segwit
    <2> HIDE DEF made
    <2>2. ~B58_ADDR_PREFIXES(made) /\ SEGWIT_ADDR_PREFIXES(made)
      BY <1>2, <2>1 DEF B58_ADDR_PREFIXES, SEGWIT_ADDR_PREFIXES
    <2>3. decodeNativeSegwitBtcAddress(made)
      BY <1>4, <2>1 DEF decodeNativeSegwitBtcAddress
    <2> QED BY <1>4, <2>1, <2>2, <2>3 DEF decodeBtcAddress, made
  <1>5. CASE version = P2PKH
    <2>1. btcAddressVersionToLegacyHashMode(BitcoinNetworkVersion(network).p2pkh) = P2PKH
      BY <1>1 DEF btcAddressVersionToLegacyHashMode
    <2>2. BitcoinNetworkVersion(network).p2pkh \in {0, 5, 111, 196}
      BY <1>1
    <2>3. address = Base58(BitcoinNetworkVersion(network).p2pkh, hash)
      BY <1>5, AddressOfReward
    <2>4. version \notin {P2SHP2WPKH, P2SHP2WSH}
      BY <1>5 DEF P2PKH, P2SHP2WPKH, P2SHP2WSH
    <2> HIDE DEF address
    <2> QED BY <1>3, <1>5, <2>1, <2>2, <2>3, <2>4
  <1>6. CASE version \in {P2SH, P2SHP2WPKH, P2SHP2WSH}
    <2>1. btcAddressVersionToLegacyHashMode(BitcoinNetworkVersion(network).p2sh) = P2SH
      BY <1>1 DEF btcAddressVersionToLegacyHashMode
    <2>2. BitcoinNetworkVersion(network).p2sh \in {0, 5, 111, 196}
      BY <1>1
    <2>3. address = Base58(BitcoinNetworkVersion(network).p2sh, hash)
      BY <1>6, AddressOfReward
    <2> HIDE DEF address
    <2> QED BY <1>3, <1>6, <2>1, <2>2, <2>3
  <1>7. CASE version \in {P2WPKH, P2WSH}
    <2>1. /\ nativeAddressToSegwitVersion(0, Len(hash)) = version /\ version # Unsupported
          /\ version \notin {P2SHP2WPKH, P2SHP2WSH}
      BY <1>7 DEF nativeAddressToSegwitVersion, HashLength, Unsupported, P2WPKH, P2WSH, P2TR,
                  P2SHP2WPKH, P2SHP2WSH
    <2>2. address = Segwit("bech32", 0, network, hash)
      BY <1>7, AddressOfReward
    <2> HIDE DEF address
    <2> QED BY <1>4, <2>1, <2>2
  <1>8. CASE version = P2TR
    <2>1. /\ nativeAddressToSegwitVersion(1, Len(hash)) = version /\ version # Unsupported
          /\ version \notin {P2SHP2WPKH, P2SHP2WSH}
      BY <1>8 DEF nativeAddressToSegwitVersion, HashLength, Unsupported, P2WPKH, P2WSH, P2TR,
                  P2SHP2WPKH, P2SHP2WSH
    <2>2. address = Segwit("bech32m", 1, network, hash)
      BY <1>8, AddressOfReward
    <2> HIDE DEF address
    <2> QED BY <1>4, <2>1, <2>2
  <1>9. version \in {P2PKH, P2SH, P2SHP2WPKH, P2SHP2WSH, P2WPKH, P2WSH, P2TR}
    BY DEF P2PKH, P2SH, P2SHP2WPKH, P2SHP2WSH, P2WPKH, P2WSH, P2TR
  <1> HIDE DEF address
  <1> QED BY <1>5, <1>6, <1>7, <1>8, <1>9

\* A lock reduced by a fee.
LEMMA FeeIsTaken ==
    ASSUME NEW p, NEW o, NEW fee \in Nat
    PROVE  FeeComesOutOfLock(p, o, fee)
  <1> DEFINE locked == stack(p, o)
             c == getStackingContract(p)
             x == UInt(o.amount)
             y == PoxAddress(o)
             z == UInt(o.burnHeight)
             u == UInt(o.cycles)
             first == <<x, y, z, u>>
             signer == SignerArgs(o)
             args == first \o signer
             rest == UInt(o.amount - fee)
             less == modifyLockTxFee(locked, o.amount, fee)
  <1> SUFFICES ASSUME locked # Refused, fee <= o.amount
               PROVE  /\ Value(less.functionArgs[1]) + fee = o.amount
                      /\ \A i \in 2..Len(locked.functionArgs) :
                            less.functionArgs[i] = locked.functionArgs[i]
    BY DEF FeeComesOutOfLock
  <1>1. signer \in Seq({signer[1], signer[2], signer[3], signer[4]})
    <2>1. \A s1, s2, s3, s4 : <<s1, s2, s3, s4>> \in Seq({s1, s2, s3, s4})
      OBVIOUS
    <2>2. signer = <<>> \/ signer = <<signer[1], signer[2], signer[3], signer[4]>>
      BY Zenon DEF SignerArgs
    <2>3. CASE signer = <<>>
      BY <2>3, EmptySeq
    <2>4. CASE signer # <<>>
      <3> DEFINE s1 == signer[1]
                 s2 == signer[2]
                 s3 == signer[3]
                 s4 == signer[4]
      <3>1. signer = <<s1, s2, s3, s4>>
        BY <2>2, <2>4
      <3> HIDE DEF s1, s2, s3, s4, signer
      <3>2. signer \in Seq({s1, s2, s3, s4})
        BY <2>1, <3>1
      <3> QED BY <3>2 DEF s1, s2, s3, s4
    <2> QED BY <2>3, <2>4
  <1> HIDE DEF signer
  <1>2. /\ DOMAIN args = 1..Len(args) /\ Len(args) \in Nat /\ 1 \in DOMAIN args /\ args[1] = x
    <2> DEFINE S == {x, y, z, u} \cup {signer[1], signer[2], signer[3], signer[4]}
    <2>1. first \in Seq(S) /\ Len(first) = 4 /\ first[1] = x
      OBVIOUS
    <2>2. signer \in Seq(S) /\ Len(signer) \in Nat
      BY <1>1
    <2> HIDE DEF S, first
    <2>3. /\ args \in Seq(S) /\ Len(args) = 4 + Len(signer)
          /\ \A i \in 1..(4 + Len(signer)) :
                args[i] = IF i <= 4 THEN first[i] ELSE signer[i - 4]
      <3> HIDE DEF args
      <3>1. args = first \o signer
        BY DEF args
      <3>2. /\ first \o signer \in Seq(S) /\ Len(first \o signer) = Len(first) + Len(signer)
            /\ \A i \in 1..(Len(first) + Len(signer)) :
                  (first \o signer)[i] = IF i <= Len(first) THEN first[i]
                                         ELSE signer[i - Len(first)]
        BY <2>1, <2>2, ConcatProperties, Zenon
      <3> QED BY <2>1, <3>1, <3>2
    <2> HIDE DEF args
    <2>4. 1 \in 1..(4 + Len(signer))
      BY <2>2
    <2> QED BY <2>1, <2>2, <2>3, <2>4
  <1>3. /\ locked = [contract |-> c, functionName |-> "stack-stx", functionArgs |-> args]
        /\ \A i \in DOMAIN args : args[i] # Thrown
    <2>1. locked = getStackOptions(c, o)
      BY DEF stack, Guarded
    <2>2. getStackOptions(c, o) = Call(c, "stack-stx", args)
      BY DEF getStackOptions, signer
    <2> HIDE DEF args, locked, c
    <2> QED BY <2>1, <2>2 DEF Call
  <1> HIDE DEF args, locked, c, first
  <1>4. MaxUInt \in Int /\ o.amount \in 0..MaxUInt
    <2>1. x # Thrown
      BY <1>2, <1>3
    <2>2. o.amount \in 0..MaxUInt
      BY <2>1 DEF UInt, uintCV
    <2>3. TwoTo(8 * IntBytes) \in Nat
      <3>1. 8 * IntBytes \in Nat
        BY WidthAssumption
      <3> QED BY <3>1, PowerOfTwo
    <2> QED BY <2>2, <2>3 DEF MaxUInt
  <1>5. rest = CV("uint", o.amount - fee) /\ rest # Thrown
    <2>1. o.amount - fee \in 0..MaxUInt
      BY <1>4
    <2>2. rest = CV("uint", o.amount - fee)
      BY <2>1 DEF UInt, uintCV
    <2> HIDE DEF rest
    <2> QED BY <2>2 DEF CV, Thrown
  <1>6. less = [locked EXCEPT !.functionArgs = [args EXCEPT ![1] = rest]]
    <2>1. less = [locked EXCEPT !.functionArgs[1] = rest]
      BY <1>5 DEF modifyLockTxFee
    <2> HIDE DEF less, rest
    <2> QED BY <1>3, <2>1
  <1>7. less.functionArgs = [args EXCEPT ![1] = rest] /\ locked.functionArgs = args
    <2> HIDE DEF less, rest
    <2> QED BY <1>3, <1>6
  <1> HIDE DEF less, rest
  <1>8. less.functionArgs[1] = rest /\ \A i \in 2..Len(args) : less.functionArgs[i] = args[i]
    BY <1>2, <1>7
  <1>9. Value(rest) + fee = o.amount
    BY <1>4, <1>5 DEF Value, CV
  <1> QED BY <1>7, <1>8, <1>9

\* What the types of the functions demand of an input: a Bitcoin address, a reward address,
\* and for a cycle heights and a length.
RewardsAreGiven ==
    /\ Is("address") => input[2] \in BitcoinAddresses
    /\ Is("reward") => input[2] \in 0..6 /\ input[4] \in Networks
    /\ Is("cycle") => input[2] \in Nat /\ input[3] \in Nat /\ input[4] \in Nat \ {0}

\* Whatever address an application passes, the reward address is that of it and of nothing
\* else; a fee comes out of the lock; and the next cycle starts a whole number of cycles
\* after the first: stacking/src/utils.ts and index.ts.
THEOREM RewardsReadBack == []RewardsAreGiven => []StackingFaithful
  <1>1. RewardsAreGiven => StackingFaithful
    BY AddressIsRead, RewardIsRead, FeeIsTaken, NextCycle DEF RewardsAreGiven, StackingFaithful
  <1> QED BY <1>1, PTL
================================================================================
