--------------------------- MODULE GaiaStorageProof ---------------------------
(***************************************************************************)
(* Theorems about GaiaStorage, for any number of devices, paths, calls,    *)
(* errors and renewals of the hub's tokens: types, and what etags promise. *)
(***************************************************************************)
EXTENDS GaiaStorage, TLAPS, FiniteSetTheorems

-----------------------------------------------------------------------------
(* The state space.                                                        *)

SessionData == [user: BOOLEAN, token: 0..MaxEpoch, etags: [Paths -> Etags]]

Replies == {"sent", "ok", "401", "404", "409", "412", "500", "network"}

CallType ==
    [session: Sessions, op: Ops, path: Paths, try: 1..2,
     pc: {"connecting", "ready", "waiting", "resolved", "rejected"},
     token: 0..MaxEpoch, fresh: 0..MaxEpoch, snap: SessionData,
     got: SUBSET ({"file", "sig"} \X Etags),
     error: Replies \cup {"none", "signedOut", "mismatch"}]

RequestType ==
    [by: 1..MaxCalls, try: 1..2, file: Files, op: Ops, accepts: SUBSET Etags,
     token: 0..MaxEpoch, reply: Replies, etag: Etags]

\* A request is one of its call's.
IsSent(r) ==
    /\ r.by \in Calls /\ r.op = call[r.by].op
    /\ \E part \in Parts(r.op) : r.file = <<call[r.by].path, part>>

TypeInv ==
    /\ hub \in [Files -> 0..MaxCalls] /\ epoch \in 1..MaxEpoch /\ faults \in 0..MaxFaults
    /\ session \in [Sessions -> SessionData]
    /\ call \in Seq(CallType) /\ Len(call) <= MaxCalls
    /\ \A c \in Calls : call[c].pc = "ready" => call[c].try = 1
    /\ wire \subseteq RequestType /\ \A r \in wire : IsSent(r)
    /\ known \in [Sessions -> [Files -> SUBSET Etags]]
    /\ stored \subseteq Files \X (1..MaxCalls)

-----------------------------------------------------------------------------
(* What the etags are.                                                     *)

\* The contents that can be met: those of the calls made, and other users'.
Contents == Calls \cup {Absent, Foreign}

\* What session s was told of path p.
Told(s, p) == known[s][<<p, "file">>] \cup {Absent}

\* A request that is not forced replaces what its session was told of.
IsTold(r) ==
    /\ r.etag \in Contents
    /\ r.op.kind = "put" /\ ~r.op.force => r.accepts \subseteq known[S(r.by)][r.file] \cup {Absent}

\* So do the etags in a store and in the copy of it that a call took.
EtagInv ==
    /\ \A f \in Files : hub[f] \in Calls \cup {Absent}
    /\ \A s \in Sessions, f \in Files : known[s][f] \subseteq Contents
    /\ \A s \in Sessions, p \in Paths : session[s].etags[p] \in Told(s, p)
    /\ \A c \in Calls, p \in Paths : call[c].snap.etags[p] \in Told(S(c), p)
    /\ \A r \in wire : IsTold(r)

-----------------------------------------------------------------------------
(* What a step does to a call.                                             *)

\* The calls by themselves.
LEMMA CallFacts ==
    ASSUME TypeInv
    PROVE  /\ Len(call) \in Nat /\ Calls = 1..Len(call) /\ Calls \subseteq 1..MaxCalls
           /\ call \in [Calls -> CallType]
           /\ MaxCalls \in Nat /\ MaxEpoch \in Nat /\ Absent \in Etags /\ Foreign \in Etags
           /\ 1..MaxCalls \subseteq Etags
  BY StorageAssumption DEF TypeInv, Calls, Etags, Absent, Foreign

\* Call c, which was running, becomes g.
Becomes(c, g) ==
    /\ c \in Calls /\ Running(c) /\ g \in CallType
    /\ g.session = S(c) /\ g.op = call[c].op /\ g.path = call[c].path
    /\ call' = [call EXCEPT ![c] = g]

Moves(c) ==
    /\ c \in Calls /\ Running(c)
    /\ call' \in Seq(CallType) /\ Calls' = Calls /\ Len(call') = Len(call)
    /\ \A d \in Calls : d # c => call'[d] = call[d]
    /\ \A d \in Calls : /\ call'[d].session = S(d) /\ call'[d].op = call[d].op
                        /\ call'[d].path = call[d].path

LEMMA BecomesMoves ==
    ASSUME TypeInv, NEW c, NEW g, Becomes(c, g)
    PROVE  Moves(c) /\ call'[c] = g
  <1>1. /\ Len(call) \in Nat /\ Calls = 1..Len(call) /\ call \in [Calls -> CallType]
        /\ c \in Calls /\ g \in CallType
    BY CallFacts DEF Becomes
  <1>2. call' \in [Calls -> CallType] /\ call'[c] = g /\ \A d \in Calls : d # c => call'[d] = call[d]
    BY <1>1 DEF Becomes
  <1>3. call' \in Seq(CallType) /\ Calls' = Calls /\ Len(call') = Len(call)
    <2>1. \A n \in Nat : \A F : F \in [1..n -> CallType] => F \in Seq(CallType) /\ Len(F) = n
      OBVIOUS
    <2> QED BY <1>1, <1>2, <2>1 DEF Calls
  <1> QED BY <1>2, <1>3 DEF Becomes, Moves, S

\* It ends.
Ends(c, pc, error) ==
    /\ Moves(c) /\ call'[c].pc = pc /\ call'[c].error = error /\ call'[c].try = call[c].try
    /\ call'[c].snap = SignedOut /\ call'[c].got = {}

LEMMA SignedOutTyped == SignedOut \in SessionData /\ \A p \in Paths : SignedOut.etags[p] = Absent
  BY StorageAssumption DEF SignedOut, SessionData, NoToken, Absent, Etags

LEMMA EndedEnds ==
    ASSUME TypeInv, NEW c \in Calls, Running(c), NEW pc \in {"resolved", "rejected"},
           NEW error \in Replies \cup {"none", "signedOut", "mismatch"}, call' = Ended(c, pc, error)
    PROVE  Ends(c, pc, error)
  <1> DEFINE g == [call[c] EXCEPT !.pc = pc, !.error = error, !.snap = SignedOut, !.got = {}]
  <1>1. call \in [Calls -> CallType] /\ SignedOut \in SessionData
    BY CallFacts, SignedOutTyped
  <1>2. call' = [call EXCEPT ![c] = g]
    BY <1>1 DEF Ended
  <1>3. /\ g \in CallType /\ g.session = S(c) /\ g.op = call[c].op /\ g.path = call[c].path
        /\ g.pc = pc /\ g.error = error /\ g.try = call[c].try /\ g.snap = SignedOut /\ g.got = {}
    BY <1>1, ZenonT(60) DEF CallType, S
  <1> HIDE DEF g
  <1>4. Moves(c) /\ call'[c] = g
    BY <1>2, <1>3, BecomesMoves DEF Becomes
  <1> QED BY <1>3, <1>4 DEF Ends

\* It goes on.
Sets(c, pc, try, snap) ==
    /\ Moves(c) /\ call'[c].pc = pc /\ call'[c].try = try /\ call'[c].snap = snap
    /\ call'[c].got = call[c].got /\ call'[c].error = call[c].error

\* putFile takes a copy of the session.
LEMMA PutSets ==
    ASSUME TypeInv, NEW c \in Calls, Running(c),
           call' = [call EXCEPT ![c].pc = "waiting", ![c].snap = session[S(c)]]
    PROVE  Sets(c, "waiting", call[c].try, session[S(c)])
  <1> DEFINE g == [call[c] EXCEPT !.pc = "waiting", !.snap = session[S(c)]]
  <1>1. call \in [Calls -> CallType] /\ session[S(c)] \in SessionData
    BY CallFacts DEF TypeInv, S, CallType
  <1>2. call' = [call EXCEPT ![c] = g]
    BY <1>1
  <1>3. /\ g \in CallType /\ g.session = S(c) /\ g.op = call[c].op /\ g.path = call[c].path
        /\ g.pc = "waiting" /\ g.error = call[c].error /\ g.try = call[c].try
        /\ g.snap = session[S(c)] /\ g.got = call[c].got
    BY <1>1, ZenonT(60) DEF CallType, S
  <1> HIDE DEF g
  <1>4. Moves(c) /\ call'[c] = g
    BY <1>2, <1>3, BecomesMoves DEF Becomes
  <1> QED BY <1>3, <1>4 DEF Sets

\* getFile and deleteFile send their requests.
LEMMA RequestSets ==
    ASSUME TypeInv, NEW c \in Calls, Running(c), call' = [call EXCEPT ![c].pc = "waiting"]
    PROVE  Sets(c, "waiting", call[c].try, call[c].snap)
  <1> DEFINE g == [call[c] EXCEPT !.pc = "waiting"]
  <1>1. call \in [Calls -> CallType]
    BY CallFacts
  <1>2. call' = [call EXCEPT ![c] = g]
    BY <1>1
  <1>3. /\ g \in CallType /\ g.session = S(c) /\ g.op = call[c].op /\ g.path = call[c].path
        /\ g.pc = "waiting" /\ g.error = call[c].error /\ g.try = call[c].try
        /\ g.snap = call[c].snap /\ g.got = call[c].got
    BY <1>1 DEF CallType, S
  <1> HIDE DEF g
  <1>4. Moves(c) /\ call'[c] = g
    BY <1>2, <1>3, BecomesMoves DEF Becomes
  <1> QED BY <1>3, <1>4 DEF Sets

\* A call has its connection,
LEMMA ReadySets ==
    ASSUME TypeInv, NEW c \in Calls, Running(c),
           call' = [call EXCEPT ![c].pc = "ready", ![c].token = epoch]
    PROVE  Sets(c, "ready", call[c].try, call[c].snap)
  <1> DEFINE g == [call[c] EXCEPT !.pc = "ready", !.token = epoch]
  <1>1. call \in [Calls -> CallType] /\ epoch \in 0..MaxEpoch
    BY CallFacts DEF TypeInv
  <1>2. call' = [call EXCEPT ![c] = g]
    BY <1>1
  <1>3. /\ g \in CallType /\ g.session = S(c) /\ g.op = call[c].op /\ g.path = call[c].path
        /\ g.pc = "ready" /\ g.error = call[c].error /\ g.try = call[c].try
        /\ g.snap = call[c].snap /\ g.got = call[c].got
    BY <1>1, ZenonT(60) DEF CallType, S
  <1> HIDE DEF g
  <1>4. Moves(c) /\ call'[c] = g
    BY <1>2, <1>3, BecomesMoves DEF Becomes
  <1> QED BY <1>3, <1>4 DEF Sets

\* or its second one.
LEMMA FreshSets ==
    ASSUME TypeInv, NEW c \in Calls, Running(c),
           call' = [call EXCEPT ![c].pc = "waiting", ![c].fresh = epoch]
    PROVE  Sets(c, "waiting", call[c].try, call[c].snap)
  <1> DEFINE g == [call[c] EXCEPT !.pc = "waiting", !.fresh = epoch]
  <1>1. call \in [Calls -> CallType] /\ epoch \in 0..MaxEpoch
    BY CallFacts DEF TypeInv
  <1>2. call' = [call EXCEPT ![c] = g]
    BY <1>1
  <1>3. /\ g \in CallType /\ g.session = S(c) /\ g.op = call[c].op /\ g.path = call[c].path
        /\ g.pc = "waiting" /\ g.error = call[c].error /\ g.try = call[c].try
        /\ g.snap = call[c].snap /\ g.got = call[c].got
    BY <1>1, ZenonT(60) DEF CallType, S
  <1> HIDE DEF g
  <1>4. Moves(c) /\ call'[c] = g
    BY <1>2, <1>3, BecomesMoves DEF Becomes
  <1> QED BY <1>3, <1>4 DEF Sets

\* A retry connects again, unless the user is gone.
LEMMA RetrySets ==
    ASSUME TypeInv, NEW c \in Calls, Running(c), call' = Retry(c)
    PROVE  Sets(c, "connecting", 2, call[c].snap) \/ Ends(c, "rejected", "signedOut")
  <1>1. CASE session[S(c)].user
    <2> DEFINE g == [call[c] EXCEPT !.pc = "connecting", !.try = 2]
    <2>1. call \in [Calls -> CallType] /\ call[c] \in CallType /\ 2 \in 1..2
      BY CallFacts
    <2>2. call' = [call EXCEPT ![c] = g]
      BY <1>1, <2>1 DEF Retry
    <2>3. /\ g \in CallType /\ g.session = S(c) /\ g.op = call[c].op /\ g.path = call[c].path
          /\ g.pc = "connecting" /\ g.error = call[c].error /\ g.try = 2
          /\ g.snap = call[c].snap /\ g.got = call[c].got
      BY ONLY <2>1 DEF CallType, S
    <2> HIDE DEF g
    <2>4. Moves(c) /\ call'[c] = g
      BY <2>2, <2>3, BecomesMoves DEF Becomes
    <2> QED BY <2>3, <2>4 DEF Sets
  <1>2. CASE ~session[S(c)].user
    <2>1. call' = Ended(c, "rejected", "signedOut")
      BY <1>2 DEF Retry, Rejected
    <2> QED BY <2>1, EndedEnds
  <1> QED BY <1>1, <1>2

\* getFile has one file more, and waits for the other.
Reads(c, got) ==
    /\ Moves(c) /\ call'[c].pc = call[c].pc /\ call'[c].try = call[c].try
    /\ call'[c].snap = call[c].snap /\ call'[c].got = got /\ call'[c].error = call[c].error

LEMMA GotReads ==
    ASSUME TypeInv, NEW c \in Calls, Running(c), NEW got \in SUBSET ({"file", "sig"} \X Etags),
           call' = [call EXCEPT ![c].got = got]
    PROVE  Reads(c, got)
  <1> DEFINE g == [call[c] EXCEPT !.got = got]
  <1>1. call \in [Calls -> CallType]
    BY CallFacts
  <1>2. call' = [call EXCEPT ![c] = g]
    BY <1>1
  <1>3. /\ g \in CallType /\ g.session = S(c) /\ g.op = call[c].op /\ g.path = call[c].path
        /\ g.pc = call[c].pc /\ g.error = call[c].error /\ g.try = call[c].try
        /\ g.snap = call[c].snap /\ g.got = got
    <2>1. call[c] \in CallType
      BY <1>1
    <2>2. g \in CallType /\ g.got = got
      BY <2>1 DEF CallType
    <2> QED BY <2>1, <2>2 DEF CallType, S
  <1> HIDE DEF g
  <1>4. Moves(c) /\ call'[c] = g
    BY <1>2, <1>3, BecomesMoves DEF Becomes
  <1> QED BY <1>3, <1>4 DEF Reads

\* A call is made.
Makes(s, op, p) ==
    /\ call' \in Seq(CallType) /\ Len(call') = Len(call) + 1 /\ Calls' = Calls \cup {Len(call')}
    /\ Len(call') \notin Calls /\ Len(call') <= MaxCalls
    /\ \A d \in Calls : call'[d] = call[d] /\ d < Len(call')
    /\ LET g == call'[Len(call')]
       IN  /\ g.session = s /\ g.op = op /\ g.path = p /\ g.try = 1 /\ g.snap = SignedOut
           /\ g.pc \in {"ready", "connecting"} /\ g.got = {} /\ g.error = "none"

LEMMA StartMakes ==
    ASSUME TypeInv, NEW s \in Sessions, NEW op \in Ops, NEW p \in Paths, Start(s, op, p)
    PROVE  Makes(s, op, p)
  <1> DEFINE connected == op.other \/ session[s].token # NoToken
             g == [NewCall(s, op, p) EXCEPT !.pc = IF connected THEN "ready" ELSE "connecting"]
             n == Len(call) + 1
  <1>1. /\ Len(call) \in Nat /\ Calls = 1..Len(call) /\ SignedOut \in SessionData
        /\ session[s].token \in 0..MaxEpoch /\ NoToken \in 0..MaxEpoch /\ MaxCalls \in Nat
        /\ Len(call) < MaxCalls
    <2>1. /\ Len(call) \in Nat /\ Calls = 1..Len(call) /\ SignedOut \in SessionData
          /\ NoToken \in 0..MaxEpoch /\ MaxCalls \in Nat /\ Len(call) < MaxCalls
      BY CallFacts, SignedOutTyped DEF NoToken, Start
    <2>2. session[s] \in SessionData
      BY DEF TypeInv
    <2> QED BY <2>1, <2>2 DEF SessionData
  <1>2. /\ g \in CallType /\ g.session = s /\ g.op = op /\ g.path = p /\ g.try = 1
        /\ g.snap = SignedOut /\ g.pc \in {"ready", "connecting"} /\ g.got = {} /\ g.error = "none"
    BY <1>1 DEF NewCall, CallType
  <1>3. call' = Append(call, g)
    BY DEF Start
  <1> HIDE DEF g
  <1>4. /\ call' \in Seq(CallType) /\ Len(call') = n /\ call'[n] = g
        /\ \A d \in 1..Len(call) : call'[d] = call[d]
    <2>1. call \in Seq(CallType) /\ g \in CallType
      BY <1>2 DEF TypeInv
    <2> HIDE DEF CallType
    <2> QED BY <1>3, <2>1
  <1>5. Calls' = 1..n
    BY <1>4 DEF Calls
  <1>6. Calls' = Calls \cup {n} /\ n \notin Calls /\ n <= MaxCalls /\ \A d \in Calls : d < n
    BY <1>1, <1>5
  <1> QED BY <1>1, <1>2, <1>4, <1>6 DEF Makes

-----------------------------------------------------------------------------
(* What is sent, and what is answered.                                     *)

\* q asks for a file of call c, in the name of its attempt try.
Asks(q, c, try, etag) ==
    /\ q \in RequestType /\ q.by = c /\ q.try = try /\ q.op = call[c].op
    /\ q.reply = "sent" /\ q.etag = Absent
    /\ \E part \in Parts(q.op) :
          q.file = <<call[c].path, part>> /\ q.accepts = Accepts(q.op, part, etag)

LEMMA RequestAsks ==
    ASSUME TypeInv, NEW c \in Calls, NEW try \in 1..2, NEW token \in 0..MaxEpoch,
           NEW etag \in Etags, NEW part \in Parts(call[c].op)
    PROVE  /\ Asks(Request(c, part, try, token, etag), c, try, etag)
           /\ Request(c, part, try, token, etag).file = <<call[c].path, part>>
  <1> DEFINE q == Request(c, part, try, token, etag)
  <1>1. /\ call[c].op \in Ops /\ call[c].path \in Paths /\ c \in 1..MaxCalls
        /\ part \in {"file", "sig"} /\ Absent \in Etags
    BY CallFacts DEF CallType, Parts
  <1>2. Accepts(call[c].op, part, etag) \subseteq Etags /\ <<call[c].path, part>> \in Files
    BY <1>1 DEF Accepts, Files
  <1>3. q \in RequestType /\ q.file = <<call[c].path, part>>
    BY <1>1, <1>2 DEF Request, RequestType, Replies
  <1>4. /\ q.by = c /\ q.try = try /\ q.op = call[c].op /\ q.reply = "sent" /\ q.etag = Absent
        /\ q.accepts = Accepts(call[c].op, part, etag)
    BY DEF Request
  <1> HIDE DEF q
  <1>5. Asks(q, c, try, etag)
    BY <1>3, <1>4 DEF Asks
  <1> QED BY <1>3, <1>5 DEF q

\* The requests of an attempt: one for each file.
LEMMA RequestsAsk ==
    ASSUME TypeInv, NEW c \in Calls, NEW try \in 1..2, NEW token \in 0..MaxEpoch,
           NEW etag \in Etags
    PROVE  /\ \A q \in Requests(c, try, token, etag) : Asks(q, c, try, etag)
           /\ \A q, r \in Requests(c, try, token, etag) : q.file = r.file => q = r
           /\ call[c].op.kind = "put" /\ call[c].op.signed =>
                 \E q \in Requests(c, try, token, etag) : q.file = <<call[c].path, "sig">>
  <1> DEFINE P == IF call[c].op.kind = "delete" THEN {"file"} ELSE Parts(call[c].op)
  <1>1. P \subseteq Parts(call[c].op)
    BY DEF Parts
  <1>2. Requests(c, try, token, etag) = {Request(c, part, try, token, etag) : part \in P}
    BY DEF Requests
  <1>3. \A part \in P : /\ Asks(Request(c, part, try, token, etag), c, try, etag)
                        /\ Request(c, part, try, token, etag).file = <<call[c].path, part>>
    BY <1>1, RequestAsks
  <1>4. call[c].op.kind = "put" /\ call[c].op.signed => "sig" \in P
    BY DEF Parts
  <1> HIDE DEF P
  <1>5. \A i, j \in P : <<call[c].path, i>> = <<call[c].path, j>> => i = j
    OBVIOUS
  <1>6. \A q \in Requests(c, try, token, etag) : Asks(q, c, try, etag)
    BY <1>2, <1>3
  <1>7. ASSUME NEW q \in Requests(c, try, token, etag), NEW r \in Requests(c, try, token, etag),
               q.file = r.file
        PROVE  q = r
    <2>1. PICK i \in P : q = Request(c, i, try, token, etag)
      BY <1>2
    <2>2. PICK j \in P : r = Request(c, j, try, token, etag)
      BY <1>2
    <2> QED BY <1>3, <1>5, <1>7, <2>1, <2>2
  <1>8. "sig" \in P => \E q \in Requests(c, try, token, etag) : q.file = <<call[c].path, "sig">>
    BY <1>2, <1>3
  <1> QED BY <1>4, <1>6, <1>7, <1>8

\* a is the request r with its reply.
Replied(a, r, reply, etag) ==
    /\ a \in RequestType /\ a.by = r.by /\ a.try = r.try /\ a.file = r.file /\ a.op = r.op
    /\ a.accepts = r.accepts /\ a.reply = reply /\ a.etag = etag

LEMMA AnswerReplies ==
    ASSUME TypeInv, NEW r \in wire, NEW reply \in Replies, NEW etag \in Etags,
           Answer(r, reply, etag)
    PROVE  \E a : /\ Replied(a, r, reply, etag)
                  /\ wire' = (wire \ {r}) \cup (IF Heard(r) THEN {a} ELSE {})
  <1> DEFINE a == [r EXCEPT !.reply = reply, !.etag = etag]
  <1>1. r \in RequestType
    BY DEF TypeInv
  <1>2. Replied(a, r, reply, etag)
    BY <1>1 DEF RequestType, Replied
  <1>3. wire' = (wire \ {r}) \cup (IF Heard(r) THEN {a} ELSE {})
    BY DEF Answer
  <1> HIDE DEF a
  <1> QED BY <1>2, <1>3

\* What the hub does with a request: it carries it out, unless it refuses it or the
\* network loses it.
Applied(r, reply, etag) ==
    /\ Refusal(r) = "none" /\ Apply(r)
    /\ \/ reply = "ok" /\ etag = EtagOf(r)
       \/ reply = "network" /\ etag = Absent

Handles(r, a, reply, etag) ==
    /\ r \in wire /\ r.reply = "sent" /\ reply \in Replies \ {"sent"} /\ etag \in Etags
    /\ Replied(a, r, reply, etag)
    /\ wire' = (wire \ {r}) \cup (IF Heard(r) THEN {a} ELSE {})
    /\ UNCHANGED <<epoch, session, call, known>> /\ faults' \in 0..MaxFaults
    /\ \/ Applied(r, reply, etag)
       \/ reply # "ok" /\ etag = Absent /\ UNCHANGED <<hub, stored>>

LEMMA HubHandles ==
    ASSUME TypeInv, HubStep
    PROVE  \E r, a, reply, etag : Handles(r, a, reply, etag)
  <1>0. PICK r \in wire : \/ Serve(r) \/ LoseReply(r)
                          \/ \E reply \in {"409", "500", "network"} : Fail(r, reply)
    BY DEF HubStep
  <1>1. Absent \in Etags /\ MaxFaults \in Nat /\ faults \in 0..MaxFaults
    BY CallFacts, StorageAssumption DEF TypeInv
  <1>2. CASE Serve(r) /\ Refusal(r) = "none"
    <2>1. EtagOf(r) \in Etags
      <3>1. r \in RequestType /\ 0..MaxCalls \subseteq Etags /\ Foreign \in Etags
        BY CallFacts DEF TypeInv, Etags
      <3>2. r.by \in Etags /\ r.file \in Files /\ hub[r.file] \in Etags
        BY <3>1, CallFacts DEF RequestType, TypeInv
      <3> QED BY <1>1, <3>1, <3>2 DEF EtagOf
    <2>2. Answer(r, "ok", EtagOf(r)) /\ Apply(r) /\ r.reply = "sent"
      BY <1>2 DEF Serve
    <2>3. PICK a : /\ Replied(a, r, "ok", EtagOf(r))
                   /\ wire' = (wire \ {r}) \cup (IF Heard(r) THEN {a} ELSE {})
      BY <2>1, <2>2, AnswerReplies DEF Replies
    <2>4. Applied(r, "ok", EtagOf(r))
      BY <1>2, <2>2 DEF Applied
    <2>5. Handles(r, a, "ok", EtagOf(r))
      BY <1>1, <1>2, <2>1, <2>2, <2>3, <2>4 DEF Handles, Serve, Replies
    <2> QED BY <2>5
  <1>3. CASE Serve(r) /\ Refusal(r) # "none"
    <2>1. Refusal(r) \in {"401", "412", "404"}
      BY <1>3 DEF Refusal
    <2>2. Answer(r, Refusal(r), Absent) /\ UNCHANGED <<hub, stored>> /\ r.reply = "sent"
      BY <1>3 DEF Serve
    <2>3. PICK a : /\ Replied(a, r, Refusal(r), Absent)
                   /\ wire' = (wire \ {r}) \cup (IF Heard(r) THEN {a} ELSE {})
      BY <1>1, <2>1, <2>2, AnswerReplies DEF Replies
    <2>4. Handles(r, a, Refusal(r), Absent)
      BY <1>1, <1>3, <2>1, <2>2, <2>3 DEF Handles, Serve, Replies
    <2> QED BY <2>4
  <1>4. CASE LoseReply(r)
    <2>1. PICK a : /\ Replied(a, r, "network", Absent)
                   /\ wire' = (wire \ {r}) \cup (IF Heard(r) THEN {a} ELSE {})
      BY <1>1, <1>4, AnswerReplies DEF LoseReply, Replies
    <2>2. Applied(r, "network", Absent) /\ faults' \in 0..MaxFaults
      BY <1>1, <1>4 DEF LoseReply, Applied
    <2>3. Handles(r, a, "network", Absent)
      BY <1>1, <1>4, <2>1, <2>2 DEF Handles, LoseReply, Replies
    <2> QED BY <2>3
  <1>5. ASSUME NEW reply \in {"409", "500", "network"}, Fail(r, reply)
        PROVE  \E a : Handles(r, a, reply, Absent)
    <2>1. PICK a : /\ Replied(a, r, reply, Absent)
                   /\ wire' = (wire \ {r}) \cup (IF Heard(r) THEN {a} ELSE {})
      BY <1>1, <1>5, AnswerReplies DEF Fail, Replies
    <2>2. faults' \in 0..MaxFaults
      BY <1>1, <1>5 DEF Fail
    <2>3. Handles(r, a, reply, Absent)
      BY <1>1, <1>5, <2>1, <2>2 DEF Handles, Fail, Replies
    <2> QED BY <2>3
  <1> QED BY <1>0, <1>2, <1>3, <1>4, <1>5

-----------------------------------------------------------------------------
(* What each step of a call does, field by field.                          *)

\* The etags of session s become those of old, with v for path p.
Notes(s, old, p, v) ==
    /\ session' \in [Sessions -> SessionData]
    /\ \A t \in Sessions : t # s => session'[t] = session[t]
    /\ \A q \in Paths : session'[s].etags[q] = IF q = p THEN v ELSE old[q]

LEMMA EtagNoted ==
    ASSUME TypeInv, NEW s \in Sessions, NEW d \in SessionData, NEW p \in Paths, NEW v \in Etags,
           session' = [session EXCEPT ![s] = [d EXCEPT !.etags[p] = v]]
    PROVE  Notes(s, d.etags, p, v)
  <1> DEFINE g == [d EXCEPT !.etags[p] = v]
  <1>1. g \in SessionData /\ \A q \in Paths : g.etags[q] = IF q = p THEN v ELSE d.etags[q]
    BY DEF SessionData
  <1> HIDE DEF g
  <1>2. session' = [session EXCEPT ![s] = g]
    BY DEF g
  <1>3. session \in [Sessions -> SessionData]
    BY DEF TypeInv
  <1> QED BY <1>1, <1>2, <1>3 DEF Notes

\* Every session keeps its etags.
KeepsEtags ==
    /\ session' \in [Sessions -> SessionData]
    /\ \A s \in Sessions : session'[s].etags = session[s].etags

LEMMA TokenNoted ==
    ASSUME TypeInv, NEW s \in Sessions, session' = [session EXCEPT ![s].token = epoch]
    PROVE  KeepsEtags
  <1> DEFINE g == [session[s] EXCEPT !.token = epoch]
  <1>1. session \in [Sessions -> SessionData] /\ epoch \in 0..MaxEpoch
    BY CallFacts DEF TypeInv
  <1>2. g \in SessionData /\ g.etags = session[s].etags
    BY <1>1 DEF SessionData
  <1>3. session' = [session EXCEPT ![s] = g]
    OBVIOUS
  <1> HIDE DEF g
  <1> QED BY <1>1, <1>2, <1>3 DEF KeepsEtags

SignedPut(c) == call[c].op.kind = "put" /\ call[c].op.signed

\* Call c sends the requests of an attempt, which replace what carries etag.
Sends(c, try, etag) ==
    \E Q : /\ wire' = wire \cup Q
           /\ \A q \in Q : Asks(q, c, try, etag)
           /\ \A q, r \in Q : q.file = r.file => q = r
           /\ SignedPut(c) => \E q \in Q : q.file = <<call[c].path, "sig">>

LEMMA RequestsSend ==
    ASSUME TypeInv, NEW c \in Calls, NEW try \in 1..2, NEW token \in 0..MaxEpoch,
           NEW etag \in Etags, wire' = wire \cup Requests(c, try, token, etag)
    PROVE  Sends(c, try, etag)
  BY RequestsAsk, ZenonT(60) DEF Sends, SignedPut

IsPut(c) == call[c].op.kind = "put"

\* PutBegins, RequestBegins
PutBeginsIs(c) ==
    /\ c \in Calls /\ call[c].pc = "ready" /\ IsPut(c)
    /\ \/ /\ Sets(c, "waiting", 1, session[S(c)])
          /\ Sends(c, 1, session[S(c)].etags[call[c].path])
       \/ Ends(c, "rejected", "signedOut") /\ UNCHANGED wire
    /\ UNCHANGED <<hub, epoch, faults, session, known, stored>>

LEMMA PutBeginsShape ==
    ASSUME TypeInv, NEW c \in Calls, PutBegins(c) PROVE PutBeginsIs(c)
  <1>1. /\ Running(c) /\ call[c].try = 1 /\ call[c].token \in 0..MaxEpoch /\ 1 \in 1..2
        /\ session[S(c)].etags[call[c].path] \in Etags
    <2>1. call[c] \in CallType /\ session \in [Sessions -> SessionData] /\ call[c].try = 1
      BY CallFacts DEF TypeInv, PutBegins
    <2>2. S(c) \in Sessions /\ call[c].path \in Paths /\ call[c].token \in 0..MaxEpoch
      BY <2>1 DEF CallType, S
    <2> QED BY <2>1, <2>2 DEF SessionData, PutBegins, Running
  <1>2. CASE session[S(c)].user
    <2>1. Sets(c, "waiting", call[c].try, session[S(c)])
      BY <1>1, <1>2, PutSets DEF PutBegins
    <2>2. Sends(c, 1, session[S(c)].etags[call[c].path])
      BY <1>1, <1>2, RequestsSend DEF PutBegins
    <2> QED BY <1>1, <2>1, <2>2 DEF PutBegins, PutBeginsIs, IsPut
  <1>3. CASE ~session[S(c)].user
    <2>1. Ends(c, "rejected", "signedOut")
      BY <1>1, <1>3, EndedEnds DEF PutBegins, Rejected
    <2> QED BY <1>3, <2>1 DEF PutBegins, PutBeginsIs, IsPut
  <1> QED BY <1>2, <1>3

RequestBeginsIs(c) ==
    /\ c \in Calls /\ call[c].pc = "ready" /\ ~IsPut(c)
    /\ Sets(c, "waiting", 1, call[c].snap) /\ Sends(c, 1, Absent)
    /\ UNCHANGED <<hub, epoch, faults, session, known, stored>>

LEMMA RequestBeginsShape ==
    ASSUME TypeInv, NEW c \in Calls, RequestBegins(c) PROVE RequestBeginsIs(c)
  <1>1. /\ Running(c) /\ call[c].try = 1 /\ call[c].token \in 0..MaxEpoch /\ 1 \in 1..2
        /\ Absent \in Etags
    <2>1. call[c] \in CallType /\ call[c].try = 1
      BY CallFacts DEF TypeInv, RequestBegins
    <2> QED BY <2>1, CallFacts DEF CallType, RequestBegins, Running
  <1>2. Sets(c, "waiting", call[c].try, call[c].snap)
    BY <1>1, RequestSets DEF RequestBegins
  <1>3. Sends(c, 1, Absent)
    BY <1>1, RequestsSend DEF RequestBegins
  <1> QED BY <1>1, <1>2, <1>3 DEF RequestBegins, RequestBeginsIs, IsPut

\* Connected, ConnectFails
ConnectedIs(c) ==
    /\ c \in Calls /\ call[c].pc = "connecting"
    /\ \/ Ends(c, "rejected", "signedOut") /\ UNCHANGED <<session, wire>>
       \/ /\ call[c].try = 1 /\ Sets(c, "ready", 1, call[c].snap) /\ KeepsEtags
          /\ UNCHANGED wire
       \/ /\ call[c].try = 2 /\ Sets(c, "waiting", 2, call[c].snap) /\ KeepsEtags
          /\ Sends(c, 2, call[c].snap.etags[call[c].path])
    /\ UNCHANGED <<hub, epoch, faults, known, stored>>

LEMMA ConnectedShape ==
    ASSUME TypeInv, NEW c \in Calls, Connected(c) PROVE ConnectedIs(c)
  <1>1. /\ Running(c) /\ call[c].try \in 1..2 /\ epoch \in 0..MaxEpoch /\ S(c) \in Sessions
        /\ call[c].snap.etags[call[c].path] \in Etags
    <2>1. call[c] \in CallType /\ epoch \in 0..MaxEpoch
      BY CallFacts DEF TypeInv
    <2> QED BY <2>1 DEF CallType, SessionData, Connected, Running, S
  <1>2. CASE ~session[S(c)].user
    <2>1. Ends(c, "rejected", "signedOut")
      BY <1>1, <1>2, EndedEnds DEF Connected, Rejected
    <2> QED BY <1>2, <2>1 DEF Connected, ConnectedIs
  <1>3. CASE session[S(c)].user
    <2>1. KeepsEtags
      BY <1>1, <1>3, TokenNoted DEF Connected
    <2>2. CASE call[c].try = 1
      <3>1. Sets(c, "ready", call[c].try, call[c].snap) /\ UNCHANGED wire
        BY <1>1, <1>3, <2>2, ReadySets DEF Connected
      <3> QED BY <2>1, <2>2, <3>1 DEF Connected, ConnectedIs
    <2>3. CASE call[c].try = 2
      <3>1. Sets(c, "waiting", call[c].try, call[c].snap)
        BY <1>1, <1>3, <2>3, FreshSets DEF Connected
      <3>2. Sends(c, 2, call[c].snap.etags[call[c].path])
        BY <1>1, <1>3, <2>3, RequestsSend DEF Connected
      <3> QED BY <2>1, <2>3, <3>1, <3>2 DEF Connected, ConnectedIs
    <2> QED BY <1>1, <2>2, <2>3
  <1> QED BY <1>2, <1>3

LEMMA ConnectFailsShape ==
    ASSUME TypeInv, NEW c \in Calls, ConnectFails(c)
    PROVE  /\ Ends(c, "rejected", "network") /\ call[c].pc = "connecting"
           /\ faults' \in 0..MaxFaults
           /\ UNCHANGED <<hub, epoch, session, wire, known, stored>>
  <1>1. Running(c) /\ faults' \in 0..MaxFaults
    BY StorageAssumption DEF ConnectFails, Running, TypeInv
  <1>2. Ends(c, "rejected", "network")
    BY <1>1, EndedEnds DEF ConnectFails, Rejected, Replies
  <1> QED BY <1>1, <1>2 DEF ConnectFails

\* Session s is told of the etag v of the file f.
Learns(s, f, v) ==
    /\ known' \in [Sessions -> [Files -> SUBSET Etags]]
    /\ \A t \in Sessions, g \in Files :
          known'[t][g] = IF t = s /\ g = f THEN known[t][g] \cup {v} ELSE known[t][g]

LEMMA EtagLearned ==
    ASSUME TypeInv, NEW s \in Sessions, NEW f \in Files, NEW v \in Etags,
           known' = [known EXCEPT ![s][f] = @ \cup {v}]
    PROVE  Learns(s, f, v)
  <1> DEFINE g == [known[s] EXCEPT ![f] = @ \cup {v}]
  <1>1. known \in [Sessions -> [Files -> SUBSET Etags]]
    BY DEF TypeInv
  <1>2. known[s] \in [Files -> SUBSET Etags]
    BY <1>1
  <1>3. /\ g \in [Files -> SUBSET Etags]
        /\ \A h \in Files : g[h] = IF h = f THEN known[s][h] \cup {v} ELSE known[s][h]
    BY <1>2
  <1>4. known' = [known EXCEPT ![s] = g]
    OBVIOUS
  <1> HIDE DEF g
  <1> QED BY <1>1, <1>3, <1>4 DEF Learns

\* PutResolves
PutResolvesIs(c) ==
    /\ c \in Calls /\ call[c].pc = "waiting" /\ IsPut(c)
    /\ \A r \in Awaited(c) : r.reply = "ok"
    /\ UNCHANGED session \/ Notes(S(c), call[c].snap.etags, call[c].path, c)
    /\ Learns(S(c), <<call[c].path, "file">>, c)
    /\ Ends(c, "resolved", "none") /\ wire' = Unserved(c)
    /\ UNCHANGED <<hub, epoch, faults, stored>>

LEMMA PutResolvesShape ==
    ASSUME TypeInv, NEW c \in Calls, PutResolves(c) PROVE PutResolvesIs(c)
  <1>1. /\ Running(c) /\ S(c) \in Sessions /\ call[c].path \in Paths /\ call[c].snap \in SessionData
        /\ c \in Etags /\ <<call[c].path, "file">> \in Files
    <2>1. call[c] \in CallType /\ c \in Etags
      BY CallFacts DEF TypeInv
    <2> QED BY <2>1 DEF CallType, PutResolves, Running, S, Files
  <1>2. Ends(c, "resolved", "none")
    BY <1>1, EndedEnds DEF PutResolves, Resolved
  <1>3. UNCHANGED session \/ Notes(S(c), call[c].snap.etags, call[c].path, c)
    BY <1>1, EtagNoted DEF PutResolves
  <1>4. Learns(S(c), <<call[c].path, "file">>, c)
    BY <1>1, EtagLearned DEF PutResolves
  <1> QED BY <1>2, <1>3, <1>4 DEF PutResolves, PutResolvesIs, IsPut

\* Call c starts over, or ends.
StartsOver(c) == Sets(c, "connecting", 2, call[c].snap) \/ Ends(c, "rejected", "signedOut")

\* PutFails
PutFailsIs(c, r) ==
    /\ c \in Calls /\ call[c].pc = "waiting" /\ IsPut(c)
    /\ r \in Awaited(c) /\ r.reply \notin {"sent", "ok"}
    /\ \/ isRecoverableGaiaError(r.reply) /\ StartsOver(c)
       \/ Ends(c, "rejected", r.reply)
    /\ wire' = Unserved(c)
    /\ UNCHANGED <<hub, epoch, faults, session, known, stored>>

LEMMA PutFailsShape ==
    ASSUME TypeInv, NEW c \in Calls, NEW r, PutFails(c, r) PROVE PutFailsIs(c, r)
  <1>1. Running(c) /\ r.reply \in Replies
    BY DEF PutFails, Running, Awaited, TypeInv, RequestType
  <1>2. CASE call[c].try = 1 /\ isRecoverableGaiaError(r.reply)
    <2>1. StartsOver(c)
      BY <1>1, <1>2, RetrySets DEF PutFails, StartsOver
    <2> QED BY <1>2, <2>1 DEF PutFails, PutFailsIs, IsPut
  <1>3. CASE ~(call[c].try = 1 /\ isRecoverableGaiaError(r.reply))
    <2>1. Ends(c, "rejected", r.reply)
      BY <1>1, <1>3, EndedEnds DEF PutFails, Rejected
    <2> QED BY <2>1 DEF PutFails, PutFailsIs, IsPut
  <1> QED BY <1>2, <1>3

IsDelete(c) == call[c].op.kind = "delete"

\* DeleteContinues
DeleteContinuesIs(c, r) ==
    /\ c \in Calls /\ call[c].pc = "waiting" /\ IsDelete(c)
    /\ r \in Awaited(c) /\ r.reply = "ok"
    /\ \/ /\ \E q : /\ Asks(q, c, call[c].try, Absent) /\ q.file = <<call[c].path, "sig">>
                    /\ wire' = (wire \ {r}) \cup {q}
          /\ UNCHANGED <<session, call>>
       \/ /\ Ends(c, "resolved", "none") /\ wire' = wire \ {r}
          /\ Notes(S(c), session[S(c)].etags, call[c].path, Absent)
    /\ UNCHANGED <<hub, epoch, faults, known, stored>>

LEMMA DeleteContinuesShape ==
    ASSUME TypeInv, NEW c \in Calls, NEW r, DeleteContinues(c, r) PROVE DeleteContinuesIs(c, r)
  <1>1. /\ Running(c) /\ S(c) \in Sessions /\ call[c].path \in Paths
        /\ session[S(c)] \in SessionData /\ Absent \in Etags
        /\ call[c].token \in 0..MaxEpoch /\ call[c].try \in 1..2
    <2>1. call[c] \in CallType /\ Absent \in Etags
      BY CallFacts DEF TypeInv
    <2> QED BY <2>1 DEF CallType, DeleteContinues, Running, S, TypeInv
  <1>2. CASE call[c].op.signed /\ r.file[2] = "file"
    <2> DEFINE q == Request(c, "sig", call[c].try, call[c].token, Absent)
    <2>1. "sig" \in Parts(call[c].op)
      BY <1>2 DEF Parts
    <2>2. Asks(q, c, call[c].try, Absent) /\ q.file = <<call[c].path, "sig">>
      BY <1>1, <2>1, RequestAsks
    <2>3. wire' = (wire \ {r}) \cup {q} /\ UNCHANGED <<session, call>>
      BY <1>2 DEF DeleteContinues
    <2> HIDE DEF q
    <2> QED BY <2>2, <2>3 DEF DeleteContinues, DeleteContinuesIs, IsDelete
  <1>3. CASE ~(call[c].op.signed /\ r.file[2] = "file")
    <2>1. Ends(c, "resolved", "none") /\ wire' = wire \ {r}
      BY <1>1, <1>3, EndedEnds DEF DeleteContinues, Resolved
    <2>2. session' = [session EXCEPT ![S(c)] = [session[S(c)] EXCEPT !.etags[call[c].path] = Absent]]
      BY <1>3 DEF DeleteContinues
    <2>3. Notes(S(c), session[S(c)].etags, call[c].path, Absent)
      BY <1>1, <2>2, EtagNoted
    <2> QED BY <2>1, <2>3 DEF DeleteContinues, DeleteContinuesIs, IsDelete
  <1> QED BY <1>2, <1>3

\* DeleteFails
DeleteFailsIs(c, r) ==
    /\ c \in Calls /\ call[c].pc = "waiting" /\ IsDelete(c)
    /\ r \in Awaited(c) /\ r.reply \notin {"sent", "ok"}
    /\ StartsOver(c) \/ Ends(c, "rejected", r.reply)
    /\ wire' = wire \ {r}
    /\ UNCHANGED <<hub, epoch, faults, session, known, stored>>

LEMMA DeleteFailsShape ==
    ASSUME TypeInv, NEW c \in Calls, NEW r, DeleteFails(c, r) PROVE DeleteFailsIs(c, r)
  <1>1. Running(c) /\ r.reply \in Replies
    BY DEF DeleteFails, Running, Awaited, TypeInv, RequestType
  <1>2. CASE call[c].try = 1
    <2>1. StartsOver(c)
      BY <1>1, <1>2, RetrySets DEF DeleteFails, StartsOver
    <2> QED BY <2>1 DEF DeleteFails, DeleteFailsIs, IsDelete
  <1>3. CASE call[c].try # 1
    <2>1. Ends(c, "rejected", r.reply)
      BY <1>1, <1>3, EndedEnds DEF DeleteFails, Rejected
    <2> QED BY <2>1 DEF DeleteFails, DeleteFailsIs, IsDelete
  <1> QED BY <1>2, <1>3

IsGet(c) == call[c].op.kind = "get"

\* What getFile has after the reply r.
Got(r) == call[r.by].got \cup {<<r.file[2], r.etag>>}

\* GetReply: the stores, and the call.
ReplyNoted(r) ==
    \/ /\ r.reply = "ok" /\ Learns(S(r.by), r.file, r.etag)
       /\ IF r.file[2] = "sig" THEN UNCHANGED session
          ELSE Notes(S(r.by), session[S(r.by)].etags, call[r.by].path, r.etag)
    \/ r.reply # "ok" /\ UNCHANGED <<session, known>>

ReplyRead(r) ==
    \/ ~Running(r.by) /\ UNCHANGED call
    \/ r.reply # "ok" /\ Ends(r.by, "rejected", r.reply)
    \/ r.reply = "ok" /\ Reads(r.by, Got(r))
    \/ r.reply = "ok" /\ Ends(r.by, "rejected", "mismatch")
                      /\ ~(Cardinality(Got(r)) < Cardinality(Parts(r.op)))
                      /\ \E x, y \in Got(r) : x[2] # y[2]
    \/ r.reply = "ok" /\ Ends(r.by, "resolved", "none")
                      /\ ~(Cardinality(Got(r)) < Cardinality(Parts(r.op)))
                      /\ \A x, y \in Got(r) : x[2] = y[2]

GetReplyIs(r) ==
    /\ r \in wire /\ r.by \in Calls /\ r.op.kind = "get" /\ r.reply # "sent"
    /\ ReplyNoted(r) /\ ReplyRead(r) /\ wire' = wire \ {r}
    /\ UNCHANGED <<hub, epoch, faults, stored>>

LEMMA GetReplyShape ==
    ASSUME TypeInv, NEW r \in wire, GetReply(r) PROVE GetReplyIs(r)
  <1> DEFINE c == r.by
             part == r.file[2]
             n == <<part, r.etag>>
             got == call[c].got \cup {n}
  <1>1. /\ c \in Calls /\ S(c) \in Sessions /\ call[c].path \in Paths /\ r.file \in Files
        /\ session[S(c)] \in SessionData /\ r.etag \in Etags /\ r.reply \in Replies
        /\ r.op = call[c].op /\ got \in SUBSET ({"file", "sig"} \X Etags)
    <2>1. r \in RequestType /\ IsSent(r)
      BY DEF TypeInv
    <2>2. call[c] \in CallType
      BY <2>1, CallFacts DEF IsSent
    <2>3. r.file \in Files /\ part \in {"file", "sig"} /\ r.etag \in Etags
      BY <2>1 DEF RequestType, Files
    <2>4. call[c].got \subseteq {"file", "sig"} \X Etags
      BY <2>2 DEF CallType
    <2>5. S(c) \in Sessions /\ call[c].path \in Paths
      BY <2>2 DEF CallType, S
    <2>6. session[S(c)] \in SessionData
      BY <2>5 DEF TypeInv
    <2>7. c \in Calls /\ r.op = call[c].op /\ r.reply \in Replies
      BY <2>1 DEF IsSent, RequestType
    <2> QED BY <2>3, <2>4, <2>5, <2>6, <2>7
  <1>2. ReplyNoted(r)
    <2>1. CASE r.reply = "ok"
      <3>1. Learns(S(c), r.file, r.etag)
        BY <1>1, <2>1, EtagLearned DEF GetReply
      <3>2. CASE part = "sig"
        BY <2>1, <3>1, <3>2 DEF GetReply, ReplyNoted
      <3>3. CASE part # "sig"
        <4>1. session' = [session EXCEPT ![S(c)] =
                            [session[S(c)] EXCEPT !.etags[call[c].path] = r.etag]]
          BY <2>1, <3>3 DEF GetReply
        <4>2. Notes(S(c), session[S(c)].etags, call[c].path, r.etag)
          BY <1>1, <4>1, EtagNoted
        <4> QED BY <2>1, <3>1, <3>3, <4>2 DEF ReplyNoted
      <3> QED BY <3>2, <3>3
    <2>2. CASE r.reply # "ok"
      BY <2>2 DEF GetReply, ReplyNoted
    <2> QED BY <2>1, <2>2
  <1>3. ReplyRead(r)
    <2>1. CASE ~Running(c)
      BY <2>1 DEF GetReply, ReplyRead
    <2>2. CASE Running(c) /\ r.reply # "ok"
      <3>1. call' = Ended(c, "rejected", r.reply)
        BY <2>2 DEF GetReply, Rejected
      <3> QED BY <1>1, <2>2, <3>1, EndedEnds DEF ReplyRead
    <2>3. CASE Running(c) /\ r.reply = "ok"
      <3>1. call' = GetResult(c, got) /\ got = Got(r)
        BY <2>3 DEF GetReply, Got
      <3>2. CASE Cardinality(got) < Cardinality(Parts(call[c].op))
        <4>1. call' = [call EXCEPT ![c].got = got]
          BY <3>1, <3>2 DEF GetResult
        <4>2. Reads(c, got)
          <5> HIDE DEF got, c
          <5> QED BY <1>1, <2>3, <4>1, GotReads
        <4> QED BY <2>3, <3>1, <4>2 DEF ReplyRead
      <3>3. CASE ~(Cardinality(got) < Cardinality(Parts(call[c].op))) /\ \E x, y \in got : x[2] # y[2]
        <4>1. call' = Ended(c, "rejected", "mismatch")
          BY <3>1, <3>3 DEF GetResult, Rejected
        <4>2. Ends(c, "rejected", "mismatch")
          BY <1>1, <2>3, <4>1, EndedEnds
        <4> QED BY <1>1, <2>3, <3>1, <3>3, <4>2 DEF ReplyRead
      <3>4. CASE ~(Cardinality(got) < Cardinality(Parts(call[c].op))) /\ ~\E x, y \in got : x[2] # y[2]
        <4>1. call' = Ended(c, "resolved", "none")
          BY <3>1, <3>4 DEF GetResult, Resolved
        <4>2. Ends(c, "resolved", "none")
          BY <1>1, <2>3, <4>1, EndedEnds
        <4> QED BY <1>1, <2>3, <3>1, <3>4, <4>2 DEF ReplyRead
      <3> QED BY <3>2, <3>3, <3>4
    <2> QED BY <2>1, <2>2, <2>3
  <1> QED BY <1>1, <1>2, <1>3 DEF GetReply, GetReplyIs

\* A call is made; nothing else changes.
StartIs(s, op, p) ==
    /\ s \in Sessions /\ op \in Ops /\ p \in Paths /\ Makes(s, op, p)
    /\ Cardinality({c \in Calls : S(c) = s /\ Running(c)}) < MaxParallel
    /\ UNCHANGED <<hub, epoch, faults, session, wire, known, stored>>

\* The store of a session starts over.
SignOutIs(s) ==
    /\ s \in Sessions /\ session' \in [Sessions -> SessionData]
    /\ \A t \in Sessions : t # s => session'[t] = session[t]
    /\ \A p \in Paths : session'[s].etags[p] = Absent
    /\ UNCHANGED <<hub, epoch, faults, call, wire, known, stored>>

\* Nothing changes, but for the tokens the hub accepts.
Quiet ==
    /\ epoch' \in 1..MaxEpoch
    /\ UNCHANGED <<hub, faults, session, call, wire, known, stored>>

ConnectFailsIs(c) ==
    /\ Ends(c, "rejected", "network") /\ call[c].pc = "connecting" /\ faults' \in 0..MaxFaults
    /\ UNCHANGED <<hub, epoch, session, wire, known, stored>>

LEMMA NextShape ==
    ASSUME TypeInv, [Next]_vars
    PROVE  \/ \E s, op, p : StartIs(s, op, p)
           \/ \E r, a, reply, etag : Handles(r, a, reply, etag)
           \/ \E c : PutBeginsIs(c)
           \/ \E c : RequestBeginsIs(c)
           \/ \E c : ConnectedIs(c)
           \/ \E c : ConnectFailsIs(c)
           \/ \E c : PutResolvesIs(c)
           \/ \E c, r : PutFailsIs(c, r)
           \/ \E c, r : DeleteContinuesIs(c, r)
           \/ \E c, r : DeleteFailsIs(c, r)
           \/ \E r : GetReplyIs(r)
           \/ \E s : SignOutIs(s)
           \/ Quiet
  <1>1. ASSUME NEW s \in Sessions, NEW op \in Ops, NEW p \in Paths, Start(s, op, p)
        PROVE  StartIs(s, op, p)
    BY <1>1, StartMakes DEF Start, StartIs
  <1>2. ASSUME NEW s \in Sessions, signUserOut(s) PROVE SignOutIs(s)
    <2>1. session' = [session EXCEPT ![s] = SignedOut] /\ session \in [Sessions -> SessionData]
      BY <1>2 DEF signUserOut, TypeInv
    <2> QED BY <1>2, <2>1, SignedOutTyped DEF signUserOut, SignOutIs
  <1>3. CASE Renew
    BY <1>3, StorageAssumption DEF Renew, Quiet, TypeInv
  <1>4. CASE UNCHANGED vars
    BY <1>4 DEF vars, Quiet, TypeInv
  <1>5. CASE CallStep
    <2>1. ASSUME NEW c \in Calls, PutBegins(c) PROVE PutBeginsIs(c)
      BY <2>1, PutBeginsShape
    <2>2. ASSUME NEW c \in Calls, RequestBegins(c) PROVE RequestBeginsIs(c)
      BY <2>2, RequestBeginsShape
    <2>3. ASSUME NEW c \in Calls, Connected(c) PROVE ConnectedIs(c)
      BY <2>3, ConnectedShape
    <2>4. ASSUME NEW c \in Calls, ConnectFails(c) PROVE ConnectFailsIs(c)
      BY <2>4, ConnectFailsShape DEF ConnectFailsIs
    <2>5. ASSUME NEW c \in Calls, PutResolves(c) PROVE PutResolvesIs(c)
      BY <2>5, PutResolvesShape
    <2>6. ASSUME NEW c \in Calls, NEW r \in wire, PutFails(c, r) PROVE PutFailsIs(c, r)
      BY <2>6, PutFailsShape
    <2>7. ASSUME NEW c \in Calls, NEW r \in wire, DeleteContinues(c, r)
          PROVE  DeleteContinuesIs(c, r)
      BY <2>7, DeleteContinuesShape
    <2>8. ASSUME NEW c \in Calls, NEW r \in wire, DeleteFails(c, r) PROVE DeleteFailsIs(c, r)
      BY <2>8, DeleteFailsShape
    <2>9. ASSUME NEW r \in wire, GetReply(r) PROVE GetReplyIs(r)
      BY <2>9, GetReplyShape
    <2> QED BY <1>5, <2>1, <2>2, <2>3, <2>4, <2>5, <2>6, <2>7, <2>8, <2>9 DEF CallStep
  <1>6. CASE HubStep
    BY <1>6, HubHandles
  <1> QED BY <1>1, <1>2, <1>3, <1>4, <1>5, <1>6 DEF Next

-----------------------------------------------------------------------------
(* Types.                                                                  *)

LEMMA InitTyped == Init => TypeInv
  <1> SUFFICES ASSUME Init PROVE TypeInv
    OBVIOUS
  <1>1. hub \in [Files -> 0..MaxCalls] /\ epoch \in 1..MaxEpoch /\ faults \in 0..MaxFaults
    BY StorageAssumption DEF Init, Absent
  <1>2. session \in [Sessions -> SessionData]
    <2>1. \A token \in 0..MaxEpoch : SignedIn(token) \in SessionData
      BY SignedOutTyped DEF SignedIn, SessionData
    <2>2. NoToken \in 0..MaxEpoch /\ 1 \in 0..MaxEpoch
      BY StorageAssumption DEF NoToken
    <2> QED BY <2>1, <2>2 DEF Init
  <1>3. call = <<>> /\ call \in Seq(CallType) /\ Len(call) = 0 /\ Calls = {}
    BY DEF Init, Calls
  <1>4. known \in [Sessions -> [Files -> SUBSET Etags]] /\ wire = {} /\ stored = {}
    BY DEF Init
  <1> QED BY <1>1, <1>2, <1>3, <1>4, StorageAssumption DEF TypeInv

\* No call loses its session, its options or its path.
KeepsCalls ==
    /\ Calls \subseteq Calls'
    /\ \A c \in Calls : /\ call'[c].session = S(c) /\ call'[c].op = call[c].op
                        /\ call'[c].path = call[c].path

LEMMA StepKeepsCalls ==
    /\ \A c : Moves(c) => KeepsCalls
    /\ \A s, op, p : Makes(s, op, p) => KeepsCalls
    /\ UNCHANGED call => KeepsCalls
  <1>1. \A c : Moves(c) => KeepsCalls
    BY DEF Moves, KeepsCalls
  <1>2. \A s, op, p : Makes(s, op, p) => KeepsCalls
    BY DEF Makes, KeepsCalls, S
  <1>3. UNCHANGED call => KeepsCalls
    BY DEF KeepsCalls, Calls, S
  <1> QED BY <1>1, <1>2, <1>3

\* The requests that are left, those answered and those sent are their calls'.
LEMMA StaysSent ==
    ASSUME TypeInv, KeepsCalls
    PROVE  /\ \A r \in wire : r \in RequestType /\ IsSent(r)'
           /\ \A r \in wire : \A a, reply, etag :
                 Replied(a, r, reply, etag) => a \in RequestType /\ IsSent(a)'
           /\ \A c \in Calls : \A q, try, etag : Asks(q, c, try, etag) => q \in RequestType /\ IsSent(q)'
  <1>1. \A r \in wire : r \in RequestType /\ IsSent(r)'
    BY DEF TypeInv, IsSent, KeepsCalls
  <1>2. \A r \in wire : \A a, reply, etag :
           Replied(a, r, reply, etag) => a \in RequestType /\ IsSent(a)'
    BY <1>1 DEF Replied, IsSent
  <1>3. \A c \in Calls : \A q, try, etag : Asks(q, c, try, etag) => q \in RequestType /\ IsSent(q)'
    BY DEF Asks, IsSent, KeepsCalls
  <1> QED BY <1>1, <1>2, <1>3

LEMMA SendsStaysSent ==
    ASSUME TypeInv, KeepsCalls, NEW c \in Calls, NEW try, NEW etag, Sends(c, try, etag)
    PROVE  wire' \subseteq RequestType /\ \A r \in wire' : IsSent(r)'
  BY StaysSent DEF Sends

\* What is typed after a step of a call.
CallTyped == 
    /\ call' \in Seq(CallType) /\ Len(call') <= MaxCalls
    /\ \A c \in Calls' : call'[c].pc = "ready" => call'[c].try = 1
    /\ KeepsCalls

LEMMA MovesTyped ==
    ASSUME TypeInv
    PROVE  /\ \A c : Moves(c) /\ (call'[c].pc = "ready" => call'[c].try = 1) => CallTyped
           /\ \A c, pc, error : Ends(c, pc, error) /\ pc # "ready" => CallTyped
           /\ \A c, pc, try, snap : Sets(c, pc, try, snap) /\ (pc = "ready" => try = 1) => CallTyped
           /\ \A c, got : Reads(c, got) => CallTyped
           /\ UNCHANGED call => CallTyped
           /\ \A s, op, p : Makes(s, op, p) => CallTyped
  <1>1. \A c : Moves(c) /\ (call'[c].pc = "ready" => call'[c].try = 1) => CallTyped
    <2> SUFFICES ASSUME NEW c, Moves(c), call'[c].pc = "ready" => call'[c].try = 1 PROVE CallTyped
      OBVIOUS
    <2>1. KeepsCalls
      BY StepKeepsCalls
    <2>2. \A d \in Calls' : call'[d].pc = "ready" => call'[d].try = 1
      BY DEF Moves, TypeInv
    <2> QED BY <2>1, <2>2 DEF Moves, TypeInv, CallTyped
  <1>2. \A c, pc, error : Ends(c, pc, error) /\ pc # "ready" => CallTyped
    BY <1>1 DEF Ends
  <1>3. \A c, pc, try, snap : Sets(c, pc, try, snap) /\ (pc = "ready" => try = 1) => CallTyped
    BY <1>1 DEF Sets
  <1>4. \A c, got : Reads(c, got) => CallTyped
    BY <1>1 DEF Reads, TypeInv, Moves
  <1>5. UNCHANGED call => CallTyped
    BY StepKeepsCalls DEF TypeInv, CallTyped, Calls
  <1>6. \A s, op, p : Makes(s, op, p) => CallTyped
    <2> SUFFICES ASSUME NEW s, NEW op, NEW p, Makes(s, op, p) PROVE CallTyped
      OBVIOUS
    <2>1. \A d \in Calls' : call'[d].pc = "ready" => call'[d].try = 1
      BY DEF Makes, TypeInv
    <2> QED BY <2>1, StepKeepsCalls DEF Makes, CallTyped
  <1> QED BY <1>1, <1>2, <1>3, <1>4, <1>5, <1>6

\* The bucket and its history stay typed when a request is carried out.
LEMMA AppliesTyped ==
    ASSUME TypeInv, NEW r \in wire, Apply(r)
    PROVE  hub' \in [Files -> 0..MaxCalls] /\ stored' \subseteq Files \X (1..MaxCalls)
  <1>1. r \in RequestType /\ r.op \in Ops
    BY DEF TypeInv, RequestType
  <1>2. r.op.kind \in {"put", "get", "delete"}
    BY <1>1, StorageAssumption
  <1>3. r.file \in Files /\ r.by \in 1..MaxCalls /\ r.by \in 0..MaxCalls /\ Absent \in 0..MaxCalls
    BY <1>1, CallFacts DEF RequestType, Absent
  <1>4. hub \in [Files -> 0..MaxCalls] /\ stored \subseteq Files \X (1..MaxCalls)
    BY DEF TypeInv
  <1>5. CASE r.op.kind = "put"
    BY <1>3, <1>4, <1>5 DEF Apply
  <1>6. CASE r.op.kind = "delete"
    BY <1>3, <1>4, <1>6 DEF Apply
  <1>7. CASE r.op.kind = "get"
    BY <1>3, <1>4, <1>7 DEF Apply
  <1> QED BY <1>2, <1>5, <1>6, <1>7

LEMMA NextTyped == TypeInv /\ [Next]_vars => TypeInv'
  <1> SUFFICES ASSUME TypeInv, [Next]_vars PROVE TypeInv'
    OBVIOUS
  <1>0. ASSUME CallTyped, wire' \subseteq RequestType, \A r \in wire' : IsSent(r)',
               hub' \in [Files -> 0..MaxCalls], epoch' \in 1..MaxEpoch, faults' \in 0..MaxFaults,
               session' \in [Sessions -> SessionData],
               known' \in [Sessions -> [Files -> SUBSET Etags]],
               stored' \subseteq Files \X (1..MaxCalls)
        PROVE  TypeInv'
    BY <1>0 DEF CallTyped, TypeInv
  <1> USE DEF TypeInv
  <1>1. ASSUME CallTyped, wire' \subseteq wire
        PROVE  wire' \subseteq RequestType /\ \A r \in wire' : IsSent(r)'
    BY <1>1, StaysSent DEF CallTyped
  <1>2. ASSUME NEW s, NEW op, NEW p, StartIs(s, op, p) PROVE TypeInv'
    <2>1. CallTyped
      BY <1>2, MovesTyped DEF StartIs
    <2> QED BY <1>0, <1>1, <1>2, <2>1 DEF StartIs
  <1>3. ASSUME NEW r, NEW a, NEW reply, NEW etag, Handles(r, a, reply, etag) PROVE TypeInv'
    <2>1. CallTyped /\ KeepsCalls
      BY <1>3, MovesTyped DEF Handles, CallTyped
    <2>2. wire' \subseteq RequestType /\ \A q \in wire' : IsSent(q)'
      BY <1>3, <2>1, StaysSent DEF Handles
    <2>3. hub' \in [Files -> 0..MaxCalls] /\ stored' \subseteq Files \X (1..MaxCalls)
      BY <1>3, AppliesTyped DEF Handles, Applied
    <2> QED BY <1>0, <1>3, <2>1, <2>2, <2>3 DEF Handles
  <1>4. ASSUME NEW c, PutBeginsIs(c) PROVE TypeInv'
    <2>1. CallTyped /\ KeepsCalls
      BY <1>4, MovesTyped DEF PutBeginsIs, CallTyped
    <2>2. wire' \subseteq RequestType /\ \A q \in wire' : IsSent(q)'
      BY <1>1, <1>4, <2>1, SendsStaysSent DEF PutBeginsIs
    <2> QED BY <1>0, <1>4, <2>1, <2>2 DEF PutBeginsIs
  <1>5. ASSUME NEW c, RequestBeginsIs(c) PROVE TypeInv'
    <2>1. CallTyped /\ KeepsCalls
      BY <1>5, MovesTyped DEF RequestBeginsIs, CallTyped
    <2>2. wire' \subseteq RequestType /\ \A q \in wire' : IsSent(q)'
      BY <1>5, <2>1, SendsStaysSent DEF RequestBeginsIs
    <2> QED BY <1>0, <1>5, <2>1, <2>2 DEF RequestBeginsIs
  <1>6. ASSUME NEW c, ConnectedIs(c) PROVE TypeInv'
    <2>1. CallTyped /\ KeepsCalls
      BY <1>6, MovesTyped DEF ConnectedIs, CallTyped
    <2>2. wire' \subseteq RequestType /\ \A q \in wire' : IsSent(q)'
      BY <1>1, <1>6, <2>1, SendsStaysSent DEF ConnectedIs
    <2>3. session' \in [Sessions -> SessionData]
      BY <1>6 DEF ConnectedIs, KeepsEtags
    <2> QED BY <1>0, <1>6, <2>1, <2>2, <2>3 DEF ConnectedIs
  <1>7. ASSUME NEW c, ConnectFailsIs(c) PROVE TypeInv'
    <2>1. CallTyped
      BY <1>7, MovesTyped DEF ConnectFailsIs
    <2> QED BY <1>0, <1>1, <1>7, <2>1 DEF ConnectFailsIs
  <1>8. ASSUME NEW c, PutResolvesIs(c) PROVE TypeInv'
    <2>1. CallTyped
      BY <1>8, MovesTyped DEF PutResolvesIs
    <2>2. wire' \subseteq RequestType /\ \A q \in wire' : IsSent(q)'
      BY <1>1, <1>8, <2>1 DEF PutResolvesIs, Unserved
    <2>3. /\ session' \in [Sessions -> SessionData]
          /\ known' \in [Sessions -> [Files -> SUBSET Etags]]
      BY <1>8 DEF PutResolvesIs, Notes, Learns
    <2> QED BY <1>0, <1>8, <2>1, <2>2, <2>3 DEF PutResolvesIs
  <1>9. ASSUME NEW c, NEW r, PutFailsIs(c, r) PROVE TypeInv'
    <2>1. CallTyped
      <3>1. StartsOver(c) \/ Ends(c, "rejected", r.reply)
        BY <1>9 DEF PutFailsIs
      <3> QED BY ONLY TypeInv, <3>1, MovesTyped DEF StartsOver
    <2>2. wire' \subseteq RequestType /\ \A q \in wire' : IsSent(q)'
      BY <1>1, <1>9, <2>1 DEF PutFailsIs, Unserved
    <2> QED BY <1>0, <1>9, <2>1, <2>2 DEF PutFailsIs
  <1>10. ASSUME NEW c, NEW r, DeleteContinuesIs(c, r) PROVE TypeInv'
    <2>1. CallTyped /\ KeepsCalls
      BY <1>10, MovesTyped DEF DeleteContinuesIs, CallTyped
    <2>2. wire' \subseteq RequestType /\ \A q \in wire' : IsSent(q)'
      BY <1>10, <2>1, StaysSent DEF DeleteContinuesIs
    <2>3. session' \in [Sessions -> SessionData]
      BY <1>10 DEF DeleteContinuesIs, Notes
    <2> QED BY <1>0, <1>10, <2>1, <2>2, <2>3 DEF DeleteContinuesIs
  <1>11. ASSUME NEW c, NEW r, DeleteFailsIs(c, r) PROVE TypeInv'
    <2>1. CallTyped
      BY <1>11, MovesTyped DEF DeleteFailsIs, StartsOver
    <2>2. wire' \subseteq RequestType /\ \A q \in wire' : IsSent(q)'
      BY <1>1, <1>11, <2>1 DEF DeleteFailsIs
    <2> QED BY <1>0, <1>11, <2>1, <2>2 DEF DeleteFailsIs
  <1>12. ASSUME NEW r, GetReplyIs(r) PROVE TypeInv'
    <2>1. CallTyped
      BY <1>12, MovesTyped DEF GetReplyIs, ReplyRead
    <2>2. wire' \subseteq RequestType /\ \A q \in wire' : IsSent(q)'
      BY <1>1, <1>12, <2>1 DEF GetReplyIs
    <2>3. /\ session' \in [Sessions -> SessionData]
          /\ known' \in [Sessions -> [Files -> SUBSET Etags]]
      BY <1>12 DEF GetReplyIs, ReplyNoted, Notes, Learns
    <2> QED BY <1>0, <1>12, <2>1, <2>2, <2>3 DEF GetReplyIs
  <1>13. ASSUME NEW s, SignOutIs(s) PROVE TypeInv'
    <2>1. CallTyped
      BY <1>13, MovesTyped DEF SignOutIs
    <2> QED BY <1>0, <1>1, <1>13, <2>1 DEF SignOutIs
  <1>14. CASE Quiet
    <2>1. CallTyped
      BY <1>14, MovesTyped DEF Quiet
    <2> QED BY <1>0, <1>1, <1>14, <2>1 DEF Quiet
  <1> QED BY <1>2, <1>3, <1>4, <1>5, <1>6, <1>7, <1>8, <1>9, <1>10, <1>11, <1>12, <1>13, <1>14,
             NextShape

LEMMA Typed == Spec => []TypeInv
  BY InitTyped, NextTyped, PTL DEF Spec

\* Every store, call and request stays of its kind, in every interleaving of the calls
\* of every device with the hub, the network, renewals and sign-outs.
THEOREM StorageTypeCorrect == Spec => []TypeOK
  <1>1. TypeInv => TypeOK
    <2> SUFFICES ASSUME TypeInv PROVE TypeOK
      OBVIOUS
    <2>1. \A c \in Calls : call[c] \in CallType
      BY CallFacts
    <2>2. \A r \in wire : r \in RequestType /\ r.by \in Calls
      BY DEF TypeInv, IsSent
    <2> QED BY <2>1, <2>2 DEF TypeInv, TypeOK, CallType, RequestType, SessionData
  <1> QED BY <1>1, Typed, PTL

-----------------------------------------------------------------------------
(* The etags.                                                              *)

\* What a step leaves of them.
Grows ==
    /\ KeepsCalls
    /\ known' \in [Sessions -> [Files -> SUBSET Etags]]
    /\ \A s \in Sessions, f \in Files : known[s][f] \subseteq known'[s][f]

LEMMA StaysTold ==
    ASSUME TypeInv, EtagInv, Grows
    PROVE  /\ Contents \subseteq Contents'
           /\ \A s \in Sessions, p \in Paths : Told(s, p) \subseteq Told(s, p)'
           /\ \A r \in wire : IsTold(r)'
  <1>1. Contents \subseteq Contents'
    BY DEF Grows, KeepsCalls, Contents, Foreign, Absent
  <1>2. \A s \in Sessions, p \in Paths : <<p, "file">> \in Files
    BY DEF Files
  <1>3. \A s \in Sessions, p \in Paths : Told(s, p) \subseteq Told(s, p)'
    BY <1>2 DEF Grows, Told
  <1>4. ASSUME NEW r \in wire PROVE IsTold(r)'
    <2>1. /\ r.by \in Calls /\ S(r.by)' = S(r.by) /\ S(r.by) \in Sessions /\ r.file \in Files
      BY CallFacts DEF TypeInv, IsSent, RequestType, CallType, S, Grows, KeepsCalls
    <2>2. known[S(r.by)][r.file] \subseteq known'[S(r.by)][r.file]
      BY <2>1 DEF Grows
    <2>3. IsTold(r)
      BY DEF EtagInv
    <2> QED BY <1>1, <2>1, <2>2, <2>3 DEF IsTold
  <1> QED BY <1>1, <1>3, <1>4

LEMMA RepliedTold ==
    ASSUME TypeInv, EtagInv, Grows, NEW r \in wire, NEW a, NEW reply, NEW etag \in Contents,
           Replied(a, r, reply, etag)
    PROVE  IsTold(a)'
  <1>1. IsTold(r)' /\ Contents \subseteq Contents'
    BY StaysTold
  <1>2. IsTold(r)' /\ r.op.kind = "put" /\ ~r.op.force =>
           r.accepts \subseteq known'[S(r.by)'][r.file] \cup {Absent}
    BY DEF IsTold
  <1>3. /\ a.by = r.by /\ a.op = r.op /\ a.accepts = r.accepts /\ a.file = r.file
        /\ a.etag \in Contents'
    BY <1>1 DEF Replied
  <1> QED BY <1>1, <1>2, <1>3 DEF IsTold

LEMMA AsksTold ==
    ASSUME TypeInv, EtagInv, Grows, NEW c \in Calls, NEW try, NEW etag,
           etag \in Told(S(c), call[c].path), NEW q, Asks(q, c, try, etag)
    PROVE  IsTold(q)'
  <1>1. /\ S(c) \in Sessions /\ call[c].path \in Paths /\ S(c)' = S(c)
    BY CallFacts DEF CallType, S, Grows, KeepsCalls
  <1>2. PICK part \in Parts(q.op) :
           q.file = <<call[c].path, part>> /\ q.accepts = Accepts(q.op, part, etag)
    BY DEF Asks
  <1>3. part \in {"file", "sig"} /\ q.by = c /\ q.etag = Absent
    BY DEF Asks, Parts
  <1>4. etag \in known'[S(c)][<<call[c].path, "file">>] \cup {Absent}
    <2>1. \A s \in Sessions, p \in Paths : known[s][<<p, "file">>] \subseteq known'[s][<<p, "file">>]
      BY DEF Grows, Files
    <2> QED BY <1>1, <2>1 DEF Told
  <1>5. ASSUME ~q.op.force PROVE q.accepts \subseteq known'[S(c)][q.file] \cup {Absent}
    <2>1. CASE part = "sig"
      BY <1>2, <2>1 DEF Accepts
    <2>2. CASE part = "file"
      BY <1>1, <1>2, <1>4, <1>5, <2>2 DEF Accepts
    <2> QED BY <1>3, <2>1, <2>2
  <1> QED BY <1>1, <1>3, <1>5 DEF IsTold, Contents

LEMMA SendsTold ==
    ASSUME TypeInv, EtagInv, Grows, NEW c \in Calls, NEW try, NEW etag,
           etag \in Told(S(c), call[c].path), Sends(c, try, etag)
    PROVE  \A r \in wire' : IsTold(r)'
  BY StaysTold, AsksTold DEF Sends

\* A call's copy of the session is the one it had, that of its session, or none.
LEMMA SnapTold ==
    ASSUME TypeInv, EtagInv, Grows, NEW c, Moves(c),
           call'[c].snap \in {call[c].snap, session[S(c)], SignedOut}
    PROVE  \A d \in Calls', p \in Paths : call'[d].snap.etags[p] \in Told(S(d), p)'
  <1> TAKE d \in Calls', p \in Paths
  <1>1. /\ d \in Calls /\ S(d)' = S(d) /\ S(d) \in Sessions
        /\ Told(S(d), p) \subseteq Told(S(d), p)'
    <2>1. d \in Calls /\ S(d)' = S(d)
      BY DEF Moves, S
    <2>2. S(d) \in Sessions
      BY <2>1, CallFacts DEF CallType, S
    <2>3. \A s \in Sessions, q \in Paths : Told(s, q) \subseteq Told(s, q)'
      BY StaysTold
    <2> QED BY <2>1, <2>2, <2>3
  <1>2. call'[d].snap \in {call[d].snap, session[S(d)], SignedOut}
    BY <1>1 DEF Moves
  <1>3. call'[d].snap.etags[p] \in Told(S(d), p)
    <2>1. call[d].snap.etags[p] \in Told(S(d), p) /\ session[S(d)].etags[p] \in Told(S(d), p)
      BY <1>1 DEF EtagInv
    <2>2. SignedOut.etags[p] \in Told(S(d), p)
      BY SignedOutTyped DEF Told
    <2> QED BY <1>2, <2>1, <2>2
  <1> QED BY <1>1, <1>3

\* A store keeps its etags, or takes one its session is told of.
LEMMA KeptTold ==
    ASSUME TypeInv, EtagInv, Grows, KeepsEtags \/ UNCHANGED session
    PROVE  \A s \in Sessions, p \in Paths : session'[s].etags[p] \in Told(s, p)'
  BY StaysTold DEF EtagInv, KeepsEtags

LEMMA NotedTold ==
    ASSUME TypeInv, EtagInv, Grows, NEW s \in Sessions, NEW old, NEW p \in Paths, NEW v,
           \A q \in Paths : old[q] \in Told(s, q),
           v \in known'[s][<<p, "file">>] \cup {Absent}, Notes(s, old, p, v)
    PROVE  \A t \in Sessions, q \in Paths : session'[t].etags[q] \in Told(t, q)'
  <1>1. ASSUME NEW t \in Sessions, NEW q \in Paths PROVE session'[t].etags[q] \in Told(t, q)'
    <2>1. Told(t, q) \subseteq known'[t][<<q, "file">>] \cup {Absent}
      BY DEF Grows, Files, Told
    <2>2. CASE t # s
      BY <2>1, <2>2 DEF Notes, EtagInv, Told
    <2>3. CASE t = s
      BY <2>1, <2>3 DEF Notes, Told
    <2> QED BY <2>2, <2>3
  <1> QED BY <1>1

\* Nobody's copy changes, but for a new call's, which has none.
LEMMA CallsTold ==
    ASSUME TypeInv, EtagInv, Grows, UNCHANGED call \/ \E s, op, p : Makes(s, op, p)
    PROVE  \A d \in Calls', p \in Paths : call'[d].snap.etags[p] \in Told(S(d), p)'
  <1>1. ASSUME NEW d \in Calls, NEW p \in Paths, call'[d] = call[d]
        PROVE  call'[d].snap.etags[p] \in Told(S(d), p)'
    <2>1. S(d)' = S(d) /\ S(d) \in Sessions /\ call[d].snap.etags[p] \in Told(S(d), p)
      BY <1>1, CallFacts DEF CallType, S, EtagInv
    <2>2. \A s \in Sessions : known[s][<<p, "file">>] \subseteq known'[s][<<p, "file">>]
      BY DEF Grows, Files
    <2> QED BY <1>1, <2>1, <2>2 DEF Told
  <1>2. CASE UNCHANGED call
    BY <1>1, <1>2 DEF Calls
  <1>3. ASSUME NEW s, NEW op, NEW q, Makes(s, op, q), NEW d \in Calls', NEW p \in Paths
        PROVE  call'[d].snap.etags[p] \in Told(S(d), p)'
    <2>1. CASE d \in Calls
      BY <1>1, <1>3, <2>1 DEF Makes
    <2>2. CASE d \notin Calls
      BY <1>3, <2>2, SignedOutTyped DEF Makes, Told
    <2> QED BY <2>1, <2>2
  <1> QED BY <1>2, <1>3

LEMMA NextEtag == TypeInv /\ EtagInv /\ [Next]_vars => EtagInv'
  <1> SUFFICES ASSUME TypeInv, EtagInv, [Next]_vars PROVE EtagInv'
    OBVIOUS
  <1>t. known \in [Sessions -> [Files -> SUBSET Etags]]
    BY DEF TypeInv
  <1>g. UNCHANGED known /\ KeepsCalls => Grows
    BY <1>t DEF Grows
  <1>h. ASSUME Grows, UNCHANGED hub PROVE \A f \in Files : hub'[f] \in Calls' \cup {Absent}
    BY <1>h DEF EtagInv, Grows, KeepsCalls
  <1>k. ASSUME Grows, UNCHANGED known
        PROVE  \A s \in Sessions, f \in Files : known'[s][f] \subseteq Contents'
    BY <1>k, StaysTold DEF EtagInv
  <1>l. ASSUME Grows, NEW s, NEW f, NEW v \in Contents, Learns(s, f, v)
        PROVE  \A t \in Sessions, g \in Files : known'[t][g] \subseteq Contents'
    <2> SUFFICES ASSUME NEW t \in Sessions, NEW g \in Files PROVE known'[t][g] \subseteq Contents'
      OBVIOUS
    <2>1. known'[t][g] \subseteq known[t][g] \cup {v}
      BY <1>l DEF Learns
    <2>2. known[t][g] \subseteq Contents /\ Contents \subseteq Contents'
      BY <1>l, StaysTold DEF EtagInv
    <2> QED BY <2>1, <2>2
  <1>w. ASSUME Grows, wire' \subseteq wire PROVE \A r \in wire' : IsTold(r)'
    BY <1>w, StaysTold
  <1>2. ASSUME NEW s, NEW op, NEW p, StartIs(s, op, p) PROVE EtagInv'
    <2>1. Grows
      BY <1>2, <1>g, StepKeepsCalls DEF StartIs
    <2> QED BY <1>2, <1>h, <1>k, <1>w, <2>1, KeptTold, CallsTold DEF StartIs, EtagInv
  <1>3. ASSUME NEW r, NEW a, NEW reply, NEW etag, Handles(r, a, reply, etag) PROVE EtagInv'
    <2>1. Grows
      BY <1>3, <1>g, StepKeepsCalls DEF Handles
    <2>2. r \in wire /\ r \in RequestType /\ r.by \in Calls /\ r.file \in Files
      BY <1>3 DEF Handles, TypeInv, IsSent, RequestType
    <2>3. hub[r.file] \in Calls \cup {Absent} /\ Contents = Calls \cup {Absent, Foreign}
      BY <2>2 DEF EtagInv, Contents
    <2>4. etag \in Contents
      BY <1>3, <2>2, <2>3 DEF Handles, Applied, EtagOf
    <2>5. \A q \in wire' : IsTold(q)'
      <3>1. IsTold(a)'
        BY <1>3, <2>1, <2>2, <2>4, RepliedTold DEF Handles
      <3> QED BY <1>3, <2>1, <3>1, StaysTold DEF Handles
    <2>6. \A f \in Files : hub'[f] \in Calls' \cup {Absent}
      <3>1. CASE UNCHANGED hub
        BY <1>h, <2>1, <3>1
      <3>2. CASE hub' = [hub EXCEPT ![r.file] = r.by] \/ hub' = [hub EXCEPT ![r.file] = Absent]
        <4>1. \A f \in Files : hub'[f] \in {hub[f], r.by, Absent}
          BY <3>2, <2>2 DEF TypeInv
        <4> QED BY <2>1, <2>2, <4>1 DEF EtagInv, Grows, KeepsCalls
      <3>3. r.op \in Ops /\ r.op.kind \in {"put", "get", "delete"}
        BY <2>2, StorageAssumption DEF RequestType
      <3> QED BY <1>3, <3>1, <3>2, <3>3 DEF Handles, Applied, Apply
    <2> QED BY <1>3, <1>k, <2>1, <2>5, <2>6, KeptTold, CallsTold DEF Handles, EtagInv
  <1>4. ASSUME NEW c, PutBeginsIs(c) PROVE EtagInv'
    <2>1. Moves(c) /\ call'[c].snap \in {call[c].snap, session[S(c)], SignedOut}
      BY <1>4 DEF PutBeginsIs, Sets, Ends
    <2>2. Grows
      BY <1>4, <1>g, <2>1, StepKeepsCalls DEF PutBeginsIs
    <2>3. S(c) \in Sessions /\ call[c].path \in Paths /\ c \in Calls
      BY <1>4, CallFacts DEF PutBeginsIs, CallType, S
    <2>4. \A r \in wire' : IsTold(r)'
      BY <1>4, <1>w, <2>2, <2>3, SendsTold DEF PutBeginsIs, EtagInv
    <2> QED BY <1>4, <1>h, <1>k, <2>1, <2>2, <2>4, KeptTold, SnapTold DEF PutBeginsIs, EtagInv
  <1>5. ASSUME NEW c, RequestBeginsIs(c) PROVE EtagInv'
    <2>1. Moves(c) /\ call'[c].snap \in {call[c].snap, session[S(c)], SignedOut}
      BY <1>5 DEF RequestBeginsIs, Sets
    <2>2. Grows
      BY <1>5, <1>g, <2>1, StepKeepsCalls DEF RequestBeginsIs
    <2>3. \A r \in wire' : IsTold(r)'
      BY <1>5, <2>2, SendsTold DEF RequestBeginsIs, Told
    <2> QED BY <1>5, <1>h, <1>k, <2>1, <2>2, <2>3, KeptTold, SnapTold DEF RequestBeginsIs, EtagInv
  <1>6. ASSUME NEW c, ConnectedIs(c) PROVE EtagInv'
    <2>1. Moves(c) /\ call'[c].snap \in {call[c].snap, session[S(c)], SignedOut}
      BY <1>6 DEF ConnectedIs, Sets, Ends
    <2>2. Grows
      BY <1>6, <1>g, <2>1, StepKeepsCalls DEF ConnectedIs
    <2>3. call[c].path \in Paths /\ c \in Calls
      BY <1>6, CallFacts DEF ConnectedIs, CallType
    <2>4. \A r \in wire' : IsTold(r)'
      BY <1>6, <1>w, <2>2, <2>3, SendsTold DEF ConnectedIs, EtagInv
    <2>5. KeepsEtags \/ UNCHANGED session
      BY <1>6 DEF ConnectedIs
    <2> QED BY <1>6, <1>h, <1>k, <2>1, <2>2, <2>4, <2>5, KeptTold, SnapTold DEF ConnectedIs, EtagInv
  <1>7. ASSUME NEW c, ConnectFailsIs(c) PROVE EtagInv'
    <2>1. Moves(c) /\ call'[c].snap \in {call[c].snap, session[S(c)], SignedOut}
      BY <1>7 DEF ConnectFailsIs, Ends
    <2>2. Grows
      BY <1>7, <1>g, <2>1, StepKeepsCalls DEF ConnectFailsIs
    <2> QED BY <1>7, <1>h, <1>k, <1>w, <2>1, <2>2, KeptTold, SnapTold DEF ConnectFailsIs, EtagInv
  <1>8. ASSUME NEW c, PutResolvesIs(c) PROVE EtagInv'
    <2> DEFINE f == <<call[c].path, "file">>
    <2>1. Moves(c) /\ call'[c].snap \in {call[c].snap, session[S(c)], SignedOut}
      BY <1>8 DEF PutResolvesIs, Ends
    <2>2. S(c) \in Sessions /\ call[c].path \in Paths /\ c \in Calls /\ f \in Files
      BY <1>8, CallFacts DEF PutResolvesIs, CallType, S, Files
    <2>3. Grows /\ c \in known'[S(c)][f]
      BY <1>8, <2>1, <2>2, StepKeepsCalls DEF PutResolvesIs, Learns, Grows
    <2>4. \A r \in wire' : IsTold(r)'
      BY <1>8, <1>w, <2>3 DEF PutResolvesIs, Unserved
    <2>5. \A t \in Sessions, q \in Paths : session'[t].etags[q] \in Told(t, q)'
      <3>1. CASE UNCHANGED session
        BY <2>3, <3>1, KeptTold
      <3>2. CASE Notes(S(c), call[c].snap.etags, call[c].path, c)
        <4>1. \A q \in Paths : call[c].snap.etags[q] \in Told(S(c), q)
          BY <2>2 DEF EtagInv
        <4> QED BY <2>2, <2>3, <3>2, <4>1, NotedTold
      <3> QED BY <1>8, <3>1, <3>2 DEF PutResolvesIs
    <2>6. \A t \in Sessions, g \in Files : known'[t][g] \subseteq Contents'
      BY <1>8, <1>l, <2>2, <2>3 DEF PutResolvesIs, Contents
    <2> QED BY <1>8, <1>h, <2>1, <2>3, <2>4, <2>5, <2>6, SnapTold DEF PutResolvesIs, EtagInv
  <1>9. ASSUME NEW c, NEW r, PutFailsIs(c, r) PROVE EtagInv'
    <2>1. Moves(c) /\ call'[c].snap \in {call[c].snap, session[S(c)], SignedOut}
      BY <1>9 DEF PutFailsIs, StartsOver, Sets, Ends
    <2>2. Grows
      BY <1>9, <1>g, <2>1, StepKeepsCalls DEF PutFailsIs
    <2>3. \A q \in wire' : IsTold(q)'
      BY <1>9, <1>w, <2>2 DEF PutFailsIs, Unserved
    <2> QED BY <1>9, <1>h, <1>k, <2>1, <2>2, <2>3, KeptTold, SnapTold DEF PutFailsIs, EtagInv
  <1>10. ASSUME NEW c, NEW r, DeleteContinuesIs(c, r) PROVE EtagInv'
    <2>1. Grows /\ c \in Calls /\ S(c) \in Sessions /\ call[c].path \in Paths
      <3>1. UNCHANGED call \/ Moves(c)
        BY <1>10 DEF DeleteContinuesIs, Ends
      <3> QED BY <1>10, <1>g, <3>1, StepKeepsCalls, CallFacts DEF DeleteContinuesIs, CallType, S
    <2>2. \A d \in Calls', p \in Paths : call'[d].snap.etags[p] \in Told(S(d), p)'
      BY <1>10, <2>1, CallsTold, SnapTold DEF DeleteContinuesIs, Ends
    <2>3. \A q \in wire' : IsTold(q)'
      BY <1>10, <1>w, <2>1, StaysTold, AsksTold DEF DeleteContinuesIs, Told
    <2>4. \A t \in Sessions, q \in Paths : session'[t].etags[q] \in Told(t, q)'
      BY <1>10, <2>1, KeptTold, NotedTold DEF DeleteContinuesIs, EtagInv
    <2> QED BY <1>10, <1>h, <1>k, <2>1, <2>2, <2>3, <2>4 DEF DeleteContinuesIs, EtagInv
  <1>11. ASSUME NEW c, NEW r, DeleteFailsIs(c, r) PROVE EtagInv'
    <2>1. Moves(c) /\ call'[c].snap \in {call[c].snap, session[S(c)], SignedOut}
      BY <1>11 DEF DeleteFailsIs, StartsOver, Sets, Ends
    <2>2. Grows
      BY <1>11, <1>g, <2>1, StepKeepsCalls DEF DeleteFailsIs
    <2>3. \A q \in wire' : IsTold(q)'
      BY <1>11, <1>w, <2>2 DEF DeleteFailsIs
    <2> QED BY <1>11, <1>h, <1>k, <2>1, <2>2, <2>3, KeptTold, SnapTold DEF DeleteFailsIs, EtagInv
  <1>12. ASSUME NEW r, GetReplyIs(r) PROVE EtagInv'
    <2> DEFINE c == r.by
    <2>1. /\ c \in Calls /\ S(c) \in Sessions /\ call[c].path \in Paths /\ r.etag \in Contents
          /\ r.file \in Files /\ (r.file[2] # "sig" => r.file = <<call[c].path, "file">>)
      <3>0. r \in wire /\ c \in Calls
        BY <1>12 DEF GetReplyIs
      <3>1. r \in RequestType /\ IsSent(r) /\ c \in Calls /\ IsTold(r)
        BY <3>0 DEF TypeInv, EtagInv
      <3>2. \E part \in {"file", "sig"} : r.file = <<call[c].path, part>>
        BY <3>1 DEF IsSent, Parts
      <3>3. r.file[2] # "sig" => r.file = <<call[c].path, "file">>
        BY <3>2
      <3>4. S(c) \in Sessions /\ call[c].path \in Paths
        BY <3>1, CallFacts DEF CallType, S
      <3>5. r.etag \in Contents
        BY <3>1 DEF IsTold
      <3>6. r.file \in Files
        BY <3>1 DEF RequestType
      <3> QED BY <3>1, <3>3, <3>4, <3>5, <3>6
    <2>2. Grows
      <3>1. KeepsCalls
        BY <1>12, StepKeepsCalls DEF GetReplyIs, ReplyRead, Ends, Reads
      <3> QED BY <1>12, <1>g, <3>1 DEF GetReplyIs, ReplyNoted, Learns, Grows
    <2>3. \A d \in Calls', p \in Paths : call'[d].snap.etags[p] \in Told(S(d), p)'
      BY <1>12, <2>2, CallsTold, SnapTold DEF GetReplyIs, ReplyRead, Ends, Reads
    <2>4. \A q \in wire' : IsTold(q)'
      BY <1>12, <1>w, <2>2 DEF GetReplyIs
    <2>5. /\ \A t \in Sessions, q \in Paths : session'[t].etags[q] \in Told(t, q)'
          /\ \A t \in Sessions, g \in Files : known'[t][g] \subseteq Contents'
      <3>1. CASE UNCHANGED <<session, known>>
        BY <1>k, <2>2, <3>1, KeptTold
      <3>2. CASE Learns(S(c), r.file, r.etag) /\ UNCHANGED session
        BY <1>l, <2>1, <2>2, <3>2, KeptTold
      <3>3. CASE /\ Learns(S(c), r.file, r.etag) /\ r.file[2] # "sig"
                 /\ Notes(S(c), session[S(c)].etags, call[c].path, r.etag)
        <4>1. r.etag \in known'[S(c)][<<call[c].path, "file">>]
          BY <2>1, <3>3 DEF Learns
        <4>2. \A q \in Paths : session[S(c)].etags[q] \in Told(S(c), q)
          BY <2>1 DEF EtagInv
        <4> QED BY <1>l, <2>1, <2>2, <3>3, <4>1, <4>2, NotedTold
      <3> QED BY <1>12, <3>1, <3>2, <3>3 DEF GetReplyIs, ReplyNoted
    <2> QED BY <1>12, <1>h, <2>2, <2>3, <2>4, <2>5 DEF GetReplyIs, EtagInv
  <1>13. ASSUME NEW s, SignOutIs(s) PROVE EtagInv'
    <2>1. Grows
      BY <1>13, <1>g, StepKeepsCalls DEF SignOutIs
    <2>2. \A t \in Sessions, p \in Paths : session'[t].etags[p] \in Told(t, p)'
      BY <1>13 DEF SignOutIs, EtagInv, Told
    <2> QED BY <1>13, <1>h, <1>k, <1>w, <2>1, <2>2, CallsTold DEF SignOutIs, EtagInv
  <1>14. CASE Quiet
    <2>1. Grows
      BY <1>14, <1>g, StepKeepsCalls DEF Quiet
    <2> QED BY <1>14, <1>h, <1>k, <1>w, <2>1, KeptTold, CallsTold DEF Quiet, EtagInv
  <1> QED BY <1>2, <1>3, <1>4, <1>5, <1>6, <1>7, <1>8, <1>9, <1>10, <1>11, <1>12, <1>13, <1>14,
             NextShape

LEMMA InitEtag == Init => EtagInv
  <1> SUFFICES ASSUME Init PROVE EtagInv
    OBVIOUS
  <1>1. \A f \in Files : hub[f] = Absent
    BY DEF Init
  <1>2. \A s \in Sessions, f \in Files : known[s][f] = {}
    BY DEF Init
  <1>3. \A s \in Sessions, p \in Paths : session[s].etags[p] = Absent
    BY DEF Init, SignedIn, SignedOut
  <1>4. Calls = {} /\ wire = {}
    BY DEF Init, Calls
  <1> QED BY <1>1, <1>2, <1>3, <1>4 DEF EtagInv, Told

LEMMA EtagsTold == Spec => [](TypeInv /\ EtagInv)
  <1>1. Init => TypeInv /\ EtagInv
    BY InitTyped, InitEtag
  <1>2. TypeInv /\ EtagInv /\ [Next]_vars => (TypeInv /\ EtagInv)'
    BY NextTyped, NextEtag
  <1> QED BY <1>1, <1>2, PTL DEF Spec

\* A put that the hub carries out replaces nothing, or what its device was told of.
LEMMA CarriedOutIsTold ==
    ASSUME TypeInv, EtagInv, \A op \in Ops : op.kind = "put" => ~op.force,
           NEW r \in wire, Refusal(r) = "none", r.op.kind = "put"
    PROVE  hub[r.file] = Absent \/ hub[r.file] \in known[S(r.by)][r.file]
  <1>1. hub[r.file] \in r.accepts
    BY DEF Refusal
  <1>2. r.op \in Ops /\ IsTold(r)
    BY DEF TypeInv, RequestType, EtagInv
  <1> QED BY <1>1, <1>2 DEF IsTold

\* The bucket and the history, as ConditionalStore sees them.
Bucket == [f \in Files |-> Version(hub[f])]
Known  == [s \in Sessions |-> [f \in Files |-> {Version(v) : v \in known[s][f]}]]

\* A content keeps its version: who wrote it is settled when the call is made.
LEMMA VersionStays ==
    ASSUME TypeInv, TypeInv', KeepsCalls
    PROVE  \A v \in Contents : Version(v)' = Version(v)
  <1>1. \A v \in Calls : v \in Calls' /\ S(v)' = S(v)
    BY DEF KeepsCalls, S
  <1>2. Absent \notin Calls /\ Foreign \notin Calls
    BY CallFacts DEF Absent, Foreign
  <1>3. Absent \notin Calls' /\ Foreign \notin Calls'
    <2>1. Len(call') \in Nat /\ Len(call') <= MaxCalls /\ Calls' = 1..Len(call')
      BY DEF TypeInv, Calls
    <2> QED BY <2>1, CallFacts DEF Absent, Foreign
  <1>4. ASSUME NEW v \in Contents PROVE Version(v)' = Version(v)
    <2>1. CASE v \in Calls
      BY <1>1, <2>1 DEF Version
    <2>2. CASE v \notin Calls
      BY <1>2, <1>3, <2>2 DEF Version, Contents
    <2> QED BY <2>1, <2>2
  <1> QED BY <1>4

\* A file that keeps its content keeps its version, and so does what is known.
LEMMA BucketStays ==
    ASSUME TypeInv, TypeInv', EtagInv, KeepsCalls
    PROVE  /\ UNCHANGED hub => Bucket' = Bucket
           /\ UNCHANGED known => Known' = Known
  <1>1. \A f \in Files : hub[f] \in Contents
    BY DEF EtagInv, Contents
  <1>2. \A s \in Sessions, f \in Files : {Version(v)' : v \in known[s][f]} = {Version(v) : v \in known[s][f]}
    BY VersionStays DEF EtagInv
  <1>3. UNCHANGED hub => Bucket' = Bucket
    BY <1>1, VersionStays DEF Bucket
  <1>4. UNCHANGED known => Known' = Known
    BY <1>2 DEF Known
  <1> QED BY <1>3, <1>4

LEMMA VersionTyped ==
    ASSUME TypeInv
    PROVE  \A v \in Contents : Version(v) \in [by: Sessions \cup {Absent}, content: Etags]
  <1> TAKE v \in Contents
  <1>1. v \in Etags
    BY CallFacts DEF Contents
  <1>2. v \in Calls => S(v) \in Sessions
    BY CallFacts DEF S, CallType
  <1> QED BY <1>1, <1>2 DEF Version

\* To be told of an etag is to learn of a version.
LEMMA LearnsVersion ==
    ASSUME TypeInv, TypeInv', EtagInv, KeepsCalls, UNCHANGED hub,
           NEW s \in Sessions, NEW f \in Files, NEW v \in Contents, Learns(s, f, v)
    PROVE  Etagged!Next
  <1> DEFINE K(t, g) == {Version(w) : w \in known[t][g]}
             add(F) == [F EXCEPT ![f] = @ \cup {Version(v)}]
  <1>1. \A t \in Sessions, g \in Files :
           {Version(w)' : w \in known'[t][g]} =
              IF t = s /\ g = f THEN K(t, g) \cup {Version(v)} ELSE K(t, g)
    <2> SUFFICES ASSUME NEW t \in Sessions, NEW g \in Files
                 PROVE  {Version(w)' : w \in known'[t][g]} =
                           IF t = s /\ g = f THEN K(t, g) \cup {Version(v)} ELSE K(t, g)
      OBVIOUS
    <2>1. known[t][g] \subseteq Contents /\ \A w \in Contents : Version(w)' = Version(w)
      BY VersionStays DEF EtagInv
    <2>2. CASE t = s /\ g = f
      <3>1. known'[t][g] = known[t][g] \cup {v}
        BY <2>2 DEF Learns
      <3> QED BY <2>1, <2>2, <3>1
    <2>3. CASE ~(t = s /\ g = f)
      <3>1. known'[t][g] = known[t][g]
        BY <2>3 DEF Learns
      <3> QED BY <2>1, <2>3, <3>1
    <2> QED BY <2>2, <2>3
  <1>2. Known' = [Known EXCEPT ![s][f] = @ \cup {Version(v)}]
    <2>1. Known' = [t \in Sessions |-> [g \in Files |->
                       IF t = s /\ g = f THEN K(t, g) \cup {Version(v)} ELSE K(t, g)]]
      BY <1>1 DEF Known
    <2>2. Known = [t \in Sessions |-> [g \in Files |-> K(t, g)]]
      BY DEF Known
    <2> HIDE DEF K
    <2> QED BY <2>1, <2>2
  <1>3. Bucket' = Bucket
    BY BucketStays
  <1>4. Version(v) \in [by: Sessions \cup {Absent}, content: Etags]
    BY VersionTyped
  <1>5. Etagged!Learn(s, f)
    BY <1>2, <1>3, <1>4 DEF Etagged!Learn, Bucket, Known
  <1> QED BY <1>5 DEF Etagged!Next

\* A request that is carried out writes, deletes or reads.
LEMMA AppliedChecked ==
    ASSUME TypeInv, TypeInv', EtagInv, \A op \in Ops : op.kind = "put" => ~op.force,
           NEW r \in wire, NEW reply, NEW etag, Applied(r, reply, etag),
           UNCHANGED <<call, known>>
    PROVE  [Etagged!Next]_<<Bucket, Known>>
  <1>1. KeepsCalls
    BY StepKeepsCalls
  <1>2. Known' = Known
    BY <1>1, BucketStays
  <1>3. r.file \in Files /\ r.by \in Calls /\ r.op \in Ops /\ S(r.by) \in Sessions
    BY CallFacts DEF TypeInv, RequestType, IsSent, CallType, S
  <1>4. r.op.kind \in {"put", "get", "delete"}
    BY <1>3, StorageAssumption
  <1>5. hub \in [Files -> 0..MaxCalls]
    BY DEF TypeInv
  <1>6. ASSUME NEW v \in Contents, hub' = [hub EXCEPT ![r.file] = v]
        PROVE  Bucket' = [Bucket EXCEPT ![r.file] = Version(v)]
    <2>1. \A f \in Files : hub'[f] = IF f = r.file THEN v ELSE hub[f]
      BY <1>5, <1>6
    <2>2. \A f \in Files : Version(hub[f])' = IF f = r.file THEN Version(v) ELSE Version(hub[f])
      BY <2>1 DEF Version, Calls, S
    <2> QED BY <1>3, <2>2 DEF Bucket
  <1>7. CASE r.op.kind = "put"
    <2>1. Bucket' = [Bucket EXCEPT ![r.file] = Version(r.by)]
      BY <1>3, <1>6, <1>7 DEF Applied, Apply, Contents
    <2>2. Bucket[r.file] = Version(Absent) \/ Bucket[r.file] \in Known[S(r.by)][r.file]
      BY <1>3, <1>7, CarriedOutIsTold DEF Applied, Bucket, Known
    <2>3. Version(Absent) = [by |-> Absent, content |-> Absent]
      BY CallFacts DEF Version, Absent
    <2>4. Version(r.by).by = S(r.by) /\ Version(r.by) \in [by: Sessions \cup {Absent}, content: Etags]
      BY <1>3, VersionTyped DEF Version, Contents
    <2>5. Etagged!Write(S(r.by), r.file)
      BY <1>2, <2>1, <2>2, <2>3, <2>4 DEF Etagged!Write, Bucket, Known
    <2> QED BY <1>3, <2>5 DEF Etagged!Next
  <1>8. CASE r.op.kind = "delete"
    <2>1. Bucket' = [Bucket EXCEPT ![r.file] = Version(Absent)]
      BY <1>3, <1>6, <1>8 DEF Applied, Apply, Contents
    <2>2. Version(Absent) = [by |-> Absent, content |-> Absent]
      BY CallFacts DEF Version, Absent
    <2>3. Etagged!Delete(r.file)
      BY <1>2, <2>1, <2>2 DEF Etagged!Delete, Bucket, Known
    <2> QED BY <1>3, <2>3 DEF Etagged!Next
  <1>9. CASE r.op.kind = "get"
    BY <1>1, <1>2, <1>9, BucketStays DEF Applied, Apply
  <1> QED BY <1>4, <1>7, <1>8, <1>9

LEMMA NextChecked ==
    ASSUME TypeInv, TypeInv', EtagInv, \A op \in Ops : op.kind = "put" => ~op.force, [Next]_vars
    PROVE  [Etagged!Next]_<<Bucket, Known>>
  <1>u. ASSUME KeepsCalls, UNCHANGED <<hub, known>> PROVE UNCHANGED <<Bucket, Known>>
    BY <1>u, BucketStays
  <1>1. ASSUME NEW s, NEW op, NEW p, StartIs(s, op, p) PROVE UNCHANGED <<Bucket, Known>>
    BY <1>1, <1>u, StepKeepsCalls DEF StartIs
  <1>2. ASSUME NEW r, NEW a, NEW reply, NEW etag, Handles(r, a, reply, etag)
        PROVE  [Etagged!Next]_<<Bucket, Known>>
    <2>1. CASE Applied(r, reply, etag)
      BY <1>2, <2>1, AppliedChecked DEF Handles
    <2>2. CASE UNCHANGED hub
      BY <1>2, <1>u, <2>2, StepKeepsCalls DEF Handles
    <2> QED BY <1>2, <2>1, <2>2 DEF Handles
  <1>3. ASSUME NEW c, PutBeginsIs(c) PROVE UNCHANGED <<Bucket, Known>>
    BY <1>3, <1>u, StepKeepsCalls DEF PutBeginsIs, Sets, Ends
  <1>4. ASSUME NEW c, RequestBeginsIs(c) PROVE UNCHANGED <<Bucket, Known>>
    BY <1>4, <1>u, StepKeepsCalls DEF RequestBeginsIs, Sets
  <1>5. ASSUME NEW c, ConnectedIs(c) PROVE UNCHANGED <<Bucket, Known>>
    BY <1>5, <1>u, StepKeepsCalls DEF ConnectedIs, Sets, Ends
  <1>6. ASSUME NEW c, ConnectFailsIs(c) PROVE UNCHANGED <<Bucket, Known>>
    BY <1>6, <1>u, StepKeepsCalls DEF ConnectFailsIs, Ends
  <1>7. ASSUME NEW c, PutResolvesIs(c) PROVE Etagged!Next
    <2> DEFINE f == <<call[c].path, "file">>
    <2>1. c \in Contents /\ S(c) \in Sessions /\ f \in Files
      BY <1>7, CallFacts DEF PutResolvesIs, Contents, CallType, S, Files
    <2>2. KeepsCalls /\ UNCHANGED hub /\ Learns(S(c), f, c)
      BY <1>7, StepKeepsCalls DEF PutResolvesIs, Ends
    <2> QED BY <2>1, <2>2, LearnsVersion
  <1>8. ASSUME NEW c, NEW r, PutFailsIs(c, r) PROVE UNCHANGED <<Bucket, Known>>
    BY <1>8, <1>u, StepKeepsCalls DEF PutFailsIs, StartsOver, Sets, Ends
  <1>9. ASSUME NEW c, NEW r, DeleteContinuesIs(c, r) PROVE UNCHANGED <<Bucket, Known>>
    BY <1>9, <1>u, StepKeepsCalls DEF DeleteContinuesIs, Ends
  <1>10. ASSUME NEW c, NEW r, DeleteFailsIs(c, r) PROVE UNCHANGED <<Bucket, Known>>
    BY <1>10, <1>u, StepKeepsCalls DEF DeleteFailsIs, StartsOver, Sets, Ends
  <1>11. ASSUME NEW r, GetReplyIs(r) PROVE [Etagged!Next]_<<Bucket, Known>>
    <2>1. KeepsCalls /\ UNCHANGED hub
      BY <1>11, StepKeepsCalls DEF GetReplyIs, ReplyRead, Reads, Ends
    <2>2. CASE Learns(S(r.by), r.file, r.etag)
      <3>1. r \in RequestType /\ r.by \in Calls /\ IsTold(r)
        BY <1>11 DEF GetReplyIs, TypeInv, EtagInv
      <3>2. r.file \in Files /\ S(r.by) \in Sessions /\ r.etag \in Contents
        BY <3>1, CallFacts DEF RequestType, CallType, S, IsTold
      <3> QED BY <2>1, <2>2, <3>2, LearnsVersion
    <2> QED BY <1>11, <1>u, <2>1, <2>2 DEF GetReplyIs, ReplyNoted
  <1>12. ASSUME NEW s, SignOutIs(s) PROVE UNCHANGED <<Bucket, Known>>
    BY <1>12, <1>u, StepKeepsCalls DEF SignOutIs
  <1>13. CASE Quiet
    BY <1>13, <1>u, StepKeepsCalls DEF Quiet
  <1> QED BY <1>1, <1>2, <1>3, <1>4, <1>5, <1>6, <1>7, <1>8, <1>9, <1>10, <1>11, <1>12, <1>13,
             NextShape

\* Where no putFile ignores etags, a file is only replaced by a device that was told
\* the version it replaces, however the calls of any number of devices overlap.
THEOREM StorageChecksWrites ==
    (\A op \in Ops : op.kind = "put" => ~op.force) => (Spec => WritesAreConditional)
  <1> SUFFICES ASSUME \A op \in Ops : op.kind = "put" => ~op.force
               PROVE  Spec => WritesAreConditional
    OBVIOUS
  <1>1. Init => Etagged!Init
    <2> SUFFICES ASSUME Init PROVE Etagged!Init
      OBVIOUS
    <2>1. Calls = {}
      BY DEF Init, Calls
    <2>2. \A f \in Files : Version(hub[f]) = [by |-> Absent, content |-> Absent]
      BY <2>1 DEF Init, Version
    <2>3. \A s \in Sessions, f \in Files : {Version(v) : v \in known[s][f]} = {}
      BY DEF Init
    <2> QED BY <2>2, <2>3 DEF Etagged!Init
  <1>2. TypeInv /\ EtagInv /\ [Next]_vars => [Etagged!Next]_<<Bucket, Known>>
    BY NextTyped, NextChecked
  <1>3. Init /\ [](TypeInv /\ EtagInv) /\ [][Next]_vars
           => Etagged!Init /\ [][Etagged!Next]_<<Bucket, Known>>
    BY <1>1, <1>2, PTL
  <1> QED BY <1>3, EtagsTold, PTL DEF Spec, WritesAreConditional, Etagged!Spec, Bucket, Known
=============================================================================
