----------------------------- MODULE GaiaStorage -----------------------------
(***************************************************************************)
(* putFile, getFile and deleteFile of packages/storage against a Gaia hub: *)
(* etags, the hub connection kept in the session store, the retry after an *)
(* error, and the requests on the wire (storage.ts, hub.ts, and the store  *)
(* of packages/auth they share).                                           *)
(*                                                                         *)
(* Sessions are the user's devices; they share one bucket.  A session is   *)
(* what LocalStorageStore holds: getSessionData parses a copy of it,       *)
(* setSessionData replaces all of it.  The calls of a session interleave   *)
(* at every await.  The hub and the network are external.                  *)
(*                                                                         *)
(* A call's number names the content it writes, and that content's etag.   *)
(***************************************************************************)
EXTENDS Naturals, Sequences, FiniteSets

CONSTANTS
    Sessions, Paths,
    Ops,          \* the calls made: records of the kind and the options
    MayConnect,   \* whether the sessions start without a hub connection
    MaySignOut,   \* whether the user signs out
    MaxParallel,  \* bound: calls of a session at a time
    MaxCalls,     \* bound: calls
    MaxFaults,    \* bound: errors of the hub or the network
    MaxEpoch      \* bound: the hub renews the tokens it accepts MaxEpoch - 1 times

ASSUME StorageAssumption ==
    /\ Ops \subseteq [kind: {"put", "get", "delete"}, signed: BOOLEAN,
                      force: BOOLEAN, other: BOOLEAN]
    /\ {MayConnect, MaySignOut} \subseteq BOOLEAN
    /\ MaxParallel \in Nat /\ MaxCalls \in Nat /\ MaxFaults \in Nat
    /\ MaxEpoch \in Nat \ {0}

VARIABLES
    hub,      \* the content of each file of the bucket, or Absent
    epoch,    \* the tokens the hub accepts
    faults,   \* errors so far
    session,  \* the session store of each device
    call,     \* the calls made, in order
    wire,     \* the requests under way, and the replies nobody has read yet
    known,    \* history: the etags a session was told of
    stored    \* history: the contents a file has had

vars == <<hub, epoch, faults, session, call, wire, known, stored>>

Absent   == 0
Foreign  == MaxCalls + 1   \* the etag of another user's file
Etags    == 0..MaxCalls + 1
NoToken  == 0
Files    == Paths \X {"file", "sig"}  \* path, and path.sig

SignedOut == [user |-> FALSE, token |-> NoToken, etags |-> [p \in Paths |-> Absent]]
SignedIn(token) == [SignedOut EXCEPT !.user = TRUE, !.token = token]

Init ==
    /\ hub = [f \in Files |-> Absent]
    /\ epoch = 1 /\ faults = 0
    /\ session = [s \in Sessions |-> SignedIn(IF MayConnect THEN NoToken ELSE 1)]
    /\ call = <<>>
    /\ wire = {}
    /\ known = [s \in Sessions |-> [f \in Files |-> {}]]
    /\ stored = {}

-----------------------------------------------------------------------------
(* Requests (hub.ts).                                                      *)

Parts(op) == IF op.signed THEN {"file", "sig"} ELSE {"file"}

\* Mutation: no If-None-Match for a new file.
AcceptsNew(op, part, etag) ==
    IF part = "sig" THEN {Absent} ELSE IF op.force \/ etag = Absent THEN Etags ELSE {etag}

\* uploadToGaiaHub: If-Match, or If-None-Match for a new file, unless the etag
\* is ignored; the upload of the signature is always that of a new file.
Accepts(op, part, etag) ==
    IF part = "sig" THEN {Absent} ELSE IF op.force THEN Etags ELSE {etag}

Request(c, part, try, token, etag) ==
    [by |-> c, try |-> try, file |-> <<call[c].path, part>>, op |-> call[c].op,
     accepts |-> Accepts(call[c].op, part, etag), token |-> token,
     reply |-> "sent", etag |-> Absent]

\* The requests a call made and did not give up on.
Awaited(c) == {r \in wire : r.by = c /\ r.try = call[c].try}

\* getBlockstackErrorFromResponse: only 401 to 413 become a GaiaHubError, which
\* has a status code; a rejected fetch never had one.
statusCode(reply) == IF reply \in {"500", "network"} THEN "none" ELSE reply

\* Mutation: a lost connection is worth a retry as well.
RetriesLostReplies(reply) == reply \in {"401", "409", "500", "network"}

isRecoverableGaiaError(reply) == statusCode(reply) \in {"401", "409", "500"}

-----------------------------------------------------------------------------
(* The hub (external).                                                     *)

\* A reply reaches the call if something still waits for it: getFile's requests
\* are handled one by one, whatever became of the others.
Heard(r) ==
    r.op.kind = "get" \/ (call[r.by].pc = "waiting" /\ r.try = call[r.by].try)

Answer(r, reply, etag) ==
    wire' = (wire \ {r}) \cup
            (IF Heard(r) THEN {[r EXCEPT !.reply = reply, !.etag = etag]} ELSE {})

Refusal(r) ==
    CASE r.op.kind # "get" /\ r.token # epoch                 -> "401"
      [] r.op.kind = "put" /\ hub[r.file] \notin r.accepts    -> "412"
      [] r.op.kind # "put" /\ hub[r.file] = Absent /\ ~r.op.other -> "404"
      [] OTHER                                                -> "none"

Apply(r) ==
    CASE r.op.kind = "put"    -> /\ hub' = [hub EXCEPT ![r.file] = r.by]
                                 /\ stored' = stored \cup {<<r.file, r.by>>}
      [] r.op.kind = "delete" -> hub' = [hub EXCEPT ![r.file] = Absent] /\ UNCHANGED stored
      [] r.op.kind = "get"    -> UNCHANGED <<hub, stored>>

EtagOf(r) ==
    CASE r.op.kind = "put" -> r.by
      [] r.op.kind = "get" -> IF r.op.other THEN Foreign ELSE hub[r.file]
      [] OTHER             -> Absent

Serve(r) ==
    /\ r.reply = "sent"
    /\ IF Refusal(r) = "none" THEN Apply(r) /\ Answer(r, "ok", EtagOf(r))
       ELSE UNCHANGED <<hub, stored>> /\ Answer(r, Refusal(r), Absent)
    /\ UNCHANGED <<epoch, faults, session, call, known>>

\* An error of the server (409 for a write that meets another) or the network.
Fail(r, reply) ==
    /\ r.reply = "sent"
    /\ faults < MaxFaults /\ faults' = faults + 1
    /\ reply = "409" => r.op.kind = "put"
    /\ Answer(r, reply, Absent)
    /\ UNCHANGED <<hub, stored, epoch, session, call, known>>

\* The request is carried out, and its reply lost.
LoseReply(r) ==
    /\ r.reply = "sent"
    /\ faults < MaxFaults /\ faults' = faults + 1
    /\ Refusal(r) = "none" /\ Apply(r)
    /\ Answer(r, "network", Absent)
    /\ UNCHANGED <<epoch, session, call, known>>

\* The tokens handed out so far expire.
Renew == epoch < MaxEpoch /\ epoch' = epoch + 1
         /\ UNCHANGED <<hub, faults, session, call, wire, known, stored>>

-----------------------------------------------------------------------------
(* A call, up to its first request (storage.ts).                           *)

Calls == DOMAIN call
S(c) == call[c].session
Running(c) == call[c].pc \notin {"resolved", "rejected"}

NewCall(s, op, p) ==
    [session |-> s, op |-> op, path |-> p, try |-> 1, pc |-> "ready",
     token |-> session[s].token, fresh |-> NoToken, snap |-> SignedOut,
     got |-> {}, error |-> "none"]

Ended(c, pc, error) ==
    [call EXCEPT ![c].pc = pc, ![c].error = error, ![c].snap = SignedOut, ![c].got = {}]
Resolved(c)        == Ended(c, "resolved", "none")
Rejected(c, error) == Ended(c, "rejected", error)

\* getOrSetLocalGaiaHubConnection: the stored connection, or a new one; with no
\* user it throws.  Reading another user's file looks up their profile instead.
Start(s, op, p) ==
    /\ Len(call) < MaxCalls
    /\ Cardinality({c \in Calls : S(c) = s /\ Running(c)}) < MaxParallel
    /\ op.other \/ session[s].user
    /\ LET connected == op.other \/ session[s].token # NoToken
       IN  call' = Append(call, [NewCall(s, op, p) EXCEPT
                                   !.pc = IF connected THEN "ready" ELSE "connecting"])
    /\ UNCHANGED <<hub, epoch, faults, session, wire, known, stored>>

\* The uploads of putFile and the reads of a verified getFile go out together,
\* deleteFile deletes the signature when the file is gone.
Requests(c, try, token, etag) ==
    {Request(c, part, try, token, etag) :
        part \in IF call[c].op.kind = "delete" THEN {"file"} ELSE Parts(call[c].op)}

\* putFile takes the session data and the etag here, and keeps both to the end.
\* The user's key is loaded to encrypt or sign.
PutBegins(c) ==
    /\ call[c].pc = "ready" /\ call[c].op.kind = "put"
    /\ IF session[S(c)].user
       THEN /\ call' = [call EXCEPT ![c].pc = "waiting", ![c].snap = session[S(c)]]
            /\ wire' = wire \cup Requests(c, 1, call[c].token,
                                          session[S(c)].etags[call[c].path])
       ELSE call' = Rejected(c, "signedOut") /\ UNCHANGED wire
    /\ UNCHANGED <<hub, epoch, faults, session, known, stored>>

RequestBegins(c) ==
    /\ call[c].pc = "ready" /\ call[c].op.kind # "put"
    /\ call' = [call EXCEPT ![c].pc = "waiting"]
    /\ wire' = wire \cup Requests(c, 1, call[c].token, Absent)
    /\ UNCHANGED <<hub, epoch, faults, session, known, stored>>

\* setLocalGaiaHubConnection, when hub_info has arrived: the session is read
\* again.  The second connection of a call sends its requests once more.
Connected(c) ==
    /\ call[c].pc = "connecting"
    /\ IF ~session[S(c)].user
       THEN call' = Rejected(c, "signedOut") /\ UNCHANGED <<session, wire>>
       ELSE /\ session' = [session EXCEPT ![S(c)].token = epoch]
            /\ IF call[c].try = 1
               THEN /\ call' = [call EXCEPT ![c].pc = "ready", ![c].token = epoch]
                    /\ UNCHANGED wire
               ELSE /\ call' = [call EXCEPT ![c].pc = "waiting", ![c].fresh = epoch]
                    /\ wire' = wire \cup Requests(c, 2, epoch,
                                                  call[c].snap.etags[call[c].path])
    /\ UNCHANGED <<hub, epoch, faults, known, stored>>

ConnectFails(c) ==
    /\ call[c].pc = "connecting"
    /\ faults < MaxFaults /\ faults' = faults + 1
    /\ call' = Rejected(c, "network")
    /\ UNCHANGED <<hub, epoch, session, wire, known, stored>>

-----------------------------------------------------------------------------
(* The replies.                                                            *)

\* What is left on the wire when a call stops waiting: requests the hub has yet
\* to serve.
Unserved(c) == {r \in wire : r.by = c => r.reply = "sent"}

\* Reconnecting loads the user data first.
Retry(c) == IF session[S(c)].user
            THEN [call EXCEPT ![c].pc = "connecting", ![c].try = 2]
            ELSE Rejected(c, "signedOut")

\* Mutation: putFile resolves on the first upload that succeeds.
PutResolvesEarly(c) ==
    /\ call[c].pc = "waiting" /\ call[c].op.kind = "put"
    /\ \E r \in Awaited(c) : r.reply = "ok"
    /\ session' = [session EXCEPT ![S(c)] = [call[c].snap EXCEPT !.etags[call[c].path] = c]]
    /\ known' = [known EXCEPT ![S(c)][<<call[c].path, "file">>] = @ \cup {c}]
    /\ call' = Resolved(c)
    /\ wire' = Unserved(c)
    /\ UNCHANGED <<hub, epoch, faults, stored>>

\* uploadFn after its await: the new etag goes into the session data putFile
\* took at the start, and all of that into the store.
PutResolves(c) ==
    /\ call[c].pc = "waiting" /\ call[c].op.kind = "put"
    /\ \A r \in Awaited(c) : r.reply = "ok"
    /\ IF call[c].op.signed /\ call[c].op.force THEN UNCHANGED session
       ELSE session' = [session EXCEPT
                          ![S(c)] = [call[c].snap EXCEPT !.etags[call[c].path] = c]]
    /\ known' = [known EXCEPT ![S(c)][<<call[c].path, "file">>] = @ \cup {c}]
    /\ call' = Resolved(c)
    /\ wire' = Unserved(c)
    /\ UNCHANGED <<hub, epoch, faults, stored>>

\* Mutation: it retries whatever the error, as often as it takes.
PutFailsForever(c, r) ==
    /\ call[c].pc = "waiting" /\ call[c].op.kind = "put"
    /\ r \in Awaited(c) /\ r.reply \notin {"sent", "ok"}
    /\ call' = [call EXCEPT ![c].pc = "connecting", ![c].try = @ + 1]
    /\ wire' = Unserved(c)
    /\ UNCHANGED <<hub, epoch, faults, session, known, stored>>

\* The first error rejects Promise.all; one retry, if it is recoverable.
PutFails(c, r) ==
    /\ call[c].pc = "waiting" /\ call[c].op.kind = "put"
    /\ r \in Awaited(c) /\ r.reply \notin {"sent", "ok"}
    /\ call' = IF call[c].try = 1 /\ isRecoverableGaiaError(r.reply) THEN Retry(c)
               ELSE Rejected(c, r.reply)
    /\ wire' = Unserved(c)
    /\ UNCHANGED <<hub, epoch, faults, session, known, stored>>

\* Mutation: only the first attempt takes the etag out.
DeleteForgets(c, r) ==
    /\ call[c].pc = "waiting" /\ call[c].op.kind = "delete"
    /\ r \in Awaited(c) /\ r.reply = "ok"
    /\ IF call[c].try = 1
       THEN session' = [session EXCEPT ![S(c)].etags[call[c].path] = Absent]
       ELSE UNCHANGED session
    /\ call' = Resolved(c)
    /\ wire' = wire \ {r}
    /\ UNCHANGED <<hub, epoch, faults, known, stored>>

\* deleteFile: the signature after the file, in the first connection's name even
\* when the file took a second one; then the etag goes out of the store.
DeleteContinues(c, r) ==
    /\ call[c].pc = "waiting" /\ call[c].op.kind = "delete"
    /\ r \in Awaited(c) /\ r.reply = "ok"
    /\ IF call[c].op.signed /\ r.file[2] = "file"
       THEN /\ wire' = (wire \ {r}) \cup
                       {Request(c, "sig", call[c].try, call[c].token, Absent)}
            /\ UNCHANGED <<session, call>>
       ELSE /\ session' = [session EXCEPT ![S(c)].etags[call[c].path] = Absent]
            /\ call' = Resolved(c)
            /\ wire' = wire \ {r}
    /\ UNCHANGED <<hub, epoch, faults, known, stored>>

\* Any error makes deleteFile start over, once.
DeleteFails(c, r) ==
    /\ call[c].pc = "waiting" /\ call[c].op.kind = "delete"
    /\ r \in Awaited(c) /\ r.reply \notin {"sent", "ok"}
    /\ call' = IF call[c].try = 1 THEN Retry(c) ELSE Rejected(c, r.reply)
    /\ wire' = wire \ {r}
    /\ UNCHANGED <<hub, epoch, faults, session, known, stored>>

\* getFile with what has been read so far; verify compares the two files.
GetResult(c, got) ==
    IF Cardinality(got) < Cardinality(Parts(call[c].op)) THEN [call EXCEPT ![c].got = got]
    ELSE IF \E x, y \in got : x[2] # y[2] THEN Rejected(c, "mismatch")
    ELSE Resolved(c)

\* Mutation: an error of the second read is swallowed.
GetSwallows(r) ==
    /\ r.op.kind = "get" /\ r.reply = "ok"
    /\ LET c == r.by
       IN  /\ session' = [session EXCEPT ![S(c)].etags[call[c].path] = r.etag]
           /\ known' = [known EXCEPT ![S(c)][r.file] = @ \cup {r.etag}]
           /\ call' = IF ~Running(c) THEN call
                      ELSE GetResult(c, call[c].got \cup {<<r.file[2], r.etag>>})
    /\ wire' = wire \ {r}
    /\ UNCHANGED <<hub, epoch, faults, stored>>

\* getFileContents: the etag goes into the store, even if the file is another
\* user's, and even if getFile has been rejected by the other request.
GetReply(r) ==
    /\ r.op.kind = "get" /\ r.reply # "sent"
    /\ LET c == r.by
           part == r.file[2]
       IN  /\ IF r.reply = "ok"
              THEN /\ session' = IF part = "sig" THEN session
                                 ELSE [session EXCEPT ![S(c)].etags[call[c].path] = r.etag]
                   /\ known' = [known EXCEPT ![S(c)][r.file] = @ \cup {r.etag}]
              ELSE UNCHANGED <<session, known>>
           /\ call' = IF ~Running(c) THEN call
                      ELSE IF r.reply = "ok" THEN GetResult(c, call[c].got \cup {<<part, r.etag>>})
                      ELSE Rejected(c, r.reply)
    /\ wire' = wire \ {r}
    /\ UNCHANGED <<hub, epoch, faults, stored>>

-----------------------------------------------------------------------------
\* signUserOut: the store starts over.
signUserOut(s) ==
    /\ MaySignOut /\ session[s].user
    /\ session' = [session EXCEPT ![s] = SignedOut]
    /\ UNCHANGED <<hub, epoch, faults, call, wire, known, stored>>

HubStep == \E r \in wire :
    \/ Serve(r)
    \/ LoseReply(r)
    \/ \E reply \in {"409", "500", "network"} : Fail(r, reply)

CallStep ==
    \/ \E c \in Calls :
          \/ PutBegins(c)
          \/ RequestBegins(c)
          \/ Connected(c)
          \/ ConnectFails(c)
          \/ PutResolves(c)
          \/ \E r \in wire : PutFails(c, r) \/ DeleteContinues(c, r) \/ DeleteFails(c, r)
    \/ \E r \in wire : GetReply(r)

Next ==
    \/ \E s \in Sessions, op \in Ops, p \in Paths : Start(s, op, p)
    \/ HubStep
    \/ CallStep
    \/ Renew
    \/ \E s \in Sessions : signUserOut(s)

\* The event loop runs what is ready; every fetch ends, in a reply or an error.
Fairness == WF_vars(HubStep) /\ WF_vars(CallStep)

Spec == Init /\ [][Next]_vars
FairSpec == Spec /\ Fairness

-----------------------------------------------------------------------------
(* Properties.                                                             *)

\* Type correctness of the stores, the calls and the requests.
TypeOK ==
    /\ hub \in [Files -> 0..MaxCalls] /\ epoch \in 1..MaxEpoch /\ faults \in 0..MaxFaults
    /\ \A s \in Sessions :
          session[s] \in [user: BOOLEAN, token: 0..MaxEpoch, etags: [Paths -> Etags]]
    /\ \A c \in Calls :
          /\ call[c].pc \in {"connecting", "ready", "waiting", "resolved", "rejected"}
          /\ call[c].try \in 1..2 /\ call[c].op \in Ops
    /\ \A r \in wire : r.by \in Calls /\ r.file \in Files /\ r.token \in 0..MaxEpoch

\* Optimistic concurrency control: whatever calls overlap, are retried, lose their
\* replies or arrive late, a file is only replaced by a device that was told the
\* version it replaces (If-Match and If-None-Match of uploadToGaiaHub).
Version(v) == [by |-> IF v \in Calls THEN S(v) ELSE Absent, content |-> v]

Etagged == INSTANCE ConditionalStore WITH
    Devices  <- Sessions,
    Versions <- [by: Sessions \cup {Absent}, content: Etags],
    Absent   <- [by |-> Absent, content |-> Absent],
    file     <- [f \in Files |-> Version(hub[f])],
    known    <- [s \in Sessions |-> [f \in Files |-> {Version(v) : v \in known[s][f]}]]

WritesAreConditional == Etagged!Spec

\* A putFile of one file that is rejected for its etag did not write: the retry
\* never meets what the first attempt left (why a lost reply is not retried).
ConflictIsReal ==
    \A c \in Calls : call[c].error = "412" /\ ~call[c].op.signed =>
        <<<<call[c].path, "file">>, c>> \notin stored

\* When deleteFile has resolved and the session has started nothing since, no etag
\* of the path is left to make the next putFile a replacement: unless a verified read
\* was rejected before, since the other of its two requests may be answered any time.
DeletedIsForgotten ==
    \A c \in Calls :
        /\ call[c].op.kind = "delete" /\ call[c].pc = "resolved"
        /\ \A d \in Calls :
              \/ S(d) # S(c) \/ call[d].path # call[c].path
              \/ d <= c /\ ~(call[d].op.kind = "get" /\ call[d].op.signed
                                                  /\ call[d].pc = "rejected")
        => session[S(c)].etags[call[c].path] = Absent

\* While nobody deletes the signature, the content of a signed putFile that resolved
\* is found with its own signature, whatever the other calls do: it resolves on both of
\* its uploads, and the signature's is that of a new file.  (Signed deleteFiles that
\* overlap such calls can leave the content of one with the signature of another.)
ResolvedPairVerifies ==
    \A p \in Paths, c \in Calls :
        /\ hub[<<p, "file">>] = c /\ call[c].op.signed /\ call[c].pc = "resolved"
        /\ \A d \in Calls : ~(call[d].op.kind = "delete" /\ call[d].op.signed
                                                        /\ call[d].path = p)
        => hub[<<p, "sig">>] = c

\* Every call ends: at most two attempts, each with replies or an error.
EveryCallReturns ==
    \A c \in 1..MaxCalls : (c \in Calls) ~> (c \in Calls /\ ~Running(c))

\* A signed-out session stays signed out.
SignedOutStays ==
    [][\A s \in Sessions : ~session[s].user => ~session'[s].user]_vars

\* As the comment of deleteFile has it (storage.ts:618), it resolves when the file has been
\* removed: it does not report that there was no file when there was one, put there by a
\* call that resolved, and no other call has deleted it.
RemovedIsResolved ==
    \A c, d \in Calls :
        /\ call[c].op.kind = "delete" /\ call[c].error = "404"
        /\ call[d].op.kind = "put" /\ call[d].pc = "resolved"
        /\ call[d].path = call[c].path /\ call[d].op.signed = call[c].op.signed
        /\ \A e \in Calls \ {c} :
              call[e].op.kind = "delete" => call[e].path # call[c].path
        => hub[<<call[c].path, "file">>] # Absent

\* putFile retries an error of the server.
ServerErrorsRetried ==
    \A c \in Calls : call[c].op.kind = "put" /\ call[c].error = "500" => call[c].try = 2
=============================================================================
