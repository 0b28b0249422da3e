-------------------------------- MODULE SignIn --------------------------------
(***************************************************************************)
(* Signing in to an app: the session an app keeps (@funai/auth), the       *)
(* requests it makes, the responses wallets give, and handlePendingSignIn, *)
(* which reads the session, awaits, and writes the session it read.        *)
(*                                                                         *)
(* One session store, kept either in the instance (live: everybody holds   *)
(* the same object) or in localStorage (everybody holds a copy).           *)
(***************************************************************************)
EXTENDS Naturals, Sequences

CONSTANTS
    Accounts,     \* identities; an identity also stands for its key and its address
    Responses,    \* the responses wallets give
    MaxRequests,  \* bound: authentication requests
    MaxCalls,     \* bound: calls of handlePendingSignIn
    MaxSignOuts,  \* bound: sign-outs
    MaxTime       \* bound: ticks of the clock

ASSUME SignInAssumption ==
    /\ MaxRequests \in Nat /\ MaxCalls \in Nat
    /\ MaxSignOuts \in Nat /\ MaxTime \in Nat
    /\ {"none", "junk"} \cap Accounts = {}

VARIABLES
    live,       \* whether the store hands out its object or copies of it
    objects,    \* the session objects the store has held, oldest first
    held,       \* the one it holds
    requests,   \* requests made with a stored transit key; the n-th has transit key n
    call,       \* the calls of handlePendingSignIn
    now,        \* the clock
    (* history *)
    asked,      \* the session if every operation had been instantaneous
    overtaken   \* a call in flight has been overtaken by a request or a sign-out

vars == <<live, objects, held, requests, call, now, asked, overtaken>>

Calls == 1..MaxCalls
NoKey == 0
NobodysKey == MaxRequests + 1   \* a transit key the app gave and did not store
TransitKeys == 0..NobodysKey

\* A private key, in the clear (to = NoKey) or sealed to a transit key; or no key at all.
Secrets == [of : Accounts \cup {"junk"}, to : TransitKeys] \cup {[of |-> "none", to |-> NoKey]}

Missing == <<0, 0, 0>>
Versions == {Missing, <<1, 0, 0>>, <<1, 1, 0>>, <<1, 4, 0>>, <<2, 0, 0>>}

\* The comparison goes component by component and never stops early on a larger one.
isLaterVersion(v1, v2) == \A i \in 1..3 : ~(v1[i] < v2[i])

--------------------------------------------------------------------------------
(***************************************************************************)
(* Responses                                                               *)
(***************************************************************************)
Tokens == [iss : Accounts, signer : Accounts, keys : {<<a>> : a \in Accounts} \cup
               {<<a, b>> : a, b \in Accounts},
           from : 0..MaxTime, until : 0..MaxTime, version : Versions,
           key : Secrets, core : Secrets, profile : {"inline", "url", "no"}]

ASSUME ResponsesAssumption == Responses \subseteq Tokens

\* What makeAuthResponse gives an app: secrets are sealed when the request carried a
\* transit key, and a response without app key has no version.
makeAuthResponse(account, appKey, coreToken, transitKey) ==
    LET Sealed(secret) == IF secret = "none" \/ appKey = "none"
                          THEN [of |-> secret, to |-> NoKey]
                          ELSE [of |-> secret, to |-> transitKey]
    IN [iss |-> account, signer |-> account, keys |-> <<account>>,
        from |-> 0, until |-> MaxTime,
        version |-> IF appKey = "none" THEN Missing ELSE <<1, 4, 0>>,
        key |-> Sealed(appKey), core |-> Sealed(coreToken), profile |-> "inline"]

isExpirationDateValid(token) == now <= token.until
isIssuanceDateValid(token) == token.from <= now
doSignaturesMatchPublicKeys(token) == token.signer = token.keys[1]
\* Mutation: whoever signed may claim any address.
AnyIssuer(token) == TRUE
doPublicKeysMatchIssuer(token) == token.keys[1] = token.iss

\* Several keys throw, in the two functions that look at the keys.
verifyAuthResponse(token) ==
    /\ Len(token.keys) = 1
    /\ isExpirationDateValid(token)
    /\ isIssuanceDateValid(token)
    /\ doSignaturesMatchPublicKeys(token)
    /\ doPublicKeysMatchIssuer(token)

isValidPrivateKey(secret) == secret.to = NoKey /\ secret.of \in Accounts

Decrypts(transitKey, secret) == secret.to = transitKey /\ secret.to # NoKey

\* What the caller goes on with: a failure leaves what was sent.
decryptPrivateKey(transitKey, secret) ==
    IF Decrypts(transitKey, secret) THEN [secret EXCEPT !.to = NoKey] ELSE secret

--------------------------------------------------------------------------------
(***************************************************************************)
(* The session                                                             *)
(***************************************************************************)
NoUser == [token |-> "none"]
Users == [token : Tokens, key : Secrets, core : Secrets,
          profile : {"inline", "fetched", "blank", "no"}]
Empty == [transitKey |-> NoKey, user |-> NoUser]

getSessionData == objects[held]
isUserSignedIn == getSessionData.user # NoUser

Idle == [pc |-> "idle"]
Done == [pc |-> "done"]
InFlight == {c \in Calls : call[c].pc = "fetching" \/ call[c].pc = "opening"}

Init ==
    /\ live \in BOOLEAN
    /\ objects = <<Empty>> /\ held = 1
    /\ requests = 0 /\ now = 0
    /\ call = [c \in Calls |-> Idle]
    /\ asked = Empty /\ overtaken = FALSE

\* generateAndStoreTransitKey: read, change, write, with nothing in between.
makeAuthRequestToken ==
    /\ requests < MaxRequests
    /\ requests' = requests + 1
    /\ objects' = [objects EXCEPT ![held].transitKey = requests + 1]
    /\ asked' = [asked EXCEPT !.transitKey = requests + 1]
    /\ overtaken' = (overtaken \/ (InFlight # {} /\ ~live))
    /\ UNCHANGED <<live, held, call, now>>

signUserOut ==
    /\ Len(objects) <= MaxSignOuts
    /\ objects' = Append(objects, Empty) /\ held' = Len(objects) + 1
    /\ asked' = Empty
    /\ overtaken' = (overtaken \/ InFlight # {})
    /\ UNCHANGED <<live, requests, call, now>>

\* Up to its first await the call reads the session once, and the clock.
handlePendingSignIn(c, token) ==
    /\ call[c] = Idle
    /\ \A t \in {token.key.to, token.core.to} : t <= requests \/ t = NobodysKey
    /\ call' = [call EXCEPT ![c] =
          IF isUserSignedIn THEN [pc |-> "failed", why |-> "existing"]
          ELSE IF ~verifyAuthResponse(token) THEN [pc |-> "failed", why |-> "invalid"]
          ELSE [pc |-> "opening", token |-> token, session |-> getSessionData,
                object |-> held]]
    /\ UNCHANGED <<live, objects, held, requests, now, asked, overtaken>>

NeedsTransitKey(token) == isLaterVersion(token.version, <<1, 1, 0>>)

Unopened(c) ==
    LET token == call[c].token  transitKey == call[c].session.transitKey IN
    /\ NeedsTransitKey(token)
    /\ \/ transitKey = NoKey
       \/ /\ token.key.of # "none"
          /\ ~Decrypts(transitKey, token.key)
          /\ ~isValidPrivateKey(token.key)

OpenedUser(c, profile) ==
    LET token == call[c].token  transitKey == call[c].session.transitKey
        Open(secret) == IF NeedsTransitKey(token)
                        THEN decryptPrivateKey(transitKey, secret) ELSE secret
    IN [token |-> token, key |-> Open(token.key), core |-> Open(token.core),
        profile |-> profile]

\* Mutation: the user is stored in a session of their own.
StoreAnew(c, profile) ==
    LET user == OpenedUser(c, profile) IN
    /\ objects' = [objects EXCEPT ![held] = [Empty EXCEPT !.user = user]]
    /\ asked' = [asked EXCEPT !.user = user]
    /\ call' = [call EXCEPT ![c] = Done]
    /\ UNCHANGED <<live, held, requests, now, overtaken>>

\* What was read at the start is written, with the user in it: the object itself, or
\* over whatever the store has by now.
Store(c, profile) ==
    LET user == OpenedUser(c, profile) IN
    /\ IF live
       THEN /\ objects' = [objects EXCEPT ![call[c].object].user = user]
            /\ held' = call[c].object
       ELSE /\ objects' = [objects EXCEPT ![held] = [call[c].session EXCEPT !.user = user]]
            /\ UNCHANGED held
    /\ asked' = [asked EXCEPT !.user = user]
    /\ call' = [call EXCEPT ![c] = Done]
    /\ UNCHANGED <<live, requests, now, overtaken>>

Fails(c, why) ==
    /\ call' = [call EXCEPT ![c] = [pc |-> "failed", why |-> why]]
    /\ UNCHANGED <<live, objects, held, requests, now, asked, overtaken>>

\* After the awaits of the verification and of the two decryptions, between which nothing
\* shared is touched.
Refuse(c) == call[c].pc = "opening" /\ Unopened(c) /\ Fails(c, "transit")

Opened(c) ==
    /\ call[c].pc = "opening" /\ ~Unopened(c)
    /\ call[c].token.profile # "url"
    /\ Store(c, call[c].token.profile)

FetchProfile(c) ==
    /\ call[c].pc = "opening" /\ ~Unopened(c)
    /\ call[c].token.profile = "url"
    /\ call' = [call EXCEPT ![c].pc = "fetching"]
    /\ UNCHANGED <<live, objects, held, requests, now, asked, overtaken>>

\* A status that is not ok gives the default profile.
ProfileFetched(c) ==
    /\ call[c].pc = "fetching"
    /\ Store(c, "fetched") \/ Store(c, "blank")

\* The request is rejected, or the body is not a list of token records.
ProfileFails(c) == call[c].pc = "fetching" /\ Fails(c, "network")

Tick ==
    /\ now < MaxTime /\ now' = now + 1
    /\ UNCHANGED <<live, objects, held, requests, call, asked, overtaken>>

Continue(c) == Refuse(c) \/ Opened(c) \/ FetchProfile(c) \/ ProfileFetched(c) \/ ProfileFails(c)

Begin == \E c \in Calls, token \in Responses : handlePendingSignIn(c, token)

Next == makeAuthRequestToken \/ signUserOut \/ Tick \/ Begin \/ \E c \in Calls : Continue(c)

Spec == Init /\ [][Next]_vars

\* An await is resumed once what it waits for has settled; decryption settles, and the
\* answer to a profile request is assumed to.
SignInFairness == \A c \in Calls : WF_vars(Continue(c))

--------------------------------------------------------------------------------
(***************************************************************************)
(* Properties                                                              *)
(***************************************************************************)
Sessions == [transitKey : TransitKeys, user : Users \cup {NoUser}]
Failed  == [pc : {"failed"}, why : {"existing", "invalid", "transit", "network"}]
Pending == [pc : {"opening", "fetching"}, token : Tokens, session : Sessions, object : Nat]

TypeOK ==
    /\ live \in BOOLEAN /\ overtaken \in BOOLEAN
    /\ objects \in Seq(Sessions) /\ held \in 1..Len(objects)
    /\ requests \in 0..MaxRequests /\ now \in 0..MaxTime
    /\ asked \in Sessions
    /\ call \in [Calls -> {Idle, Done} \cup Failed \cup Pending]

\* Unless a request or a sign-out overtook a sign-in (a request only matters to the store
\* that hands out copies), the session is what the operations say in the order in which
\* they completed: the transit key of the newest request since the last sign-out, which
\* the answer to it needs, and the user who signed in last.
SessionAsAsked == overtaken \/ getSessionData = asked

\* Whoever is signed in has signed the response, alone, under the address it claims. And
\* what the app uses as its key is the key the response carried, opened and never the
\* ciphertext where the version check says that it comes sealed.
SignedInSoundly ==
    isUserSignedIn =>
        LET user == getSessionData.user  token == user.token IN
        /\ token.keys = <<token.iss>> /\ token.signer = token.iss
        /\ user.key.of = token.key.of
        /\ NeedsTransitKey(token) => user.key.to = NoKey

\* As the comment of isLaterVersion has it (common/src/utils.ts:96), it is true iff
\* v1 >= v2: of the versions of the responses users sign in with, none is taken for older
\* than the one since which keys come sealed unless it is older.
AtLeast(v1, v2) ==
    \/ v1 = v2
    \/ \E i \in 1..3 : v1[i] > v2[i] /\ \A j \in 1..(i - 1) : v1[j] = v2[j]
VersionsCompared ==
    isUserSignedIn =>
        LET version == getSessionData.user.token.version
        IN isLaterVersion(version, <<1, 1, 0>>) <=> AtLeast(version, <<1, 1, 0>>)

\* A call of handlePendingSignIn settles.
SignInSettles == \A c \in Calls : call[c].pc = "opening" ~> call[c].pc \in {"done", "failed"}

================================================================================
