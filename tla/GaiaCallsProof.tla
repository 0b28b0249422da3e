---------------------------- MODULE GaiaCallsProof ----------------------------
(***************************************************************************)
(* More theorems about GaiaStorage, about single calls and their requests: *)
(* that a conflict is real, that a signature stays with its content, and   *)
(* that a deleted file's etag is gone.                                     *)
(***************************************************************************)
EXTENDS GaiaStorageProof

-----------------------------------------------------------------------------
(* A putFile of one file.                                                  *)

Single(c) == call[c].op.kind = "put" /\ ~call[c].op.signed

\* Its content is in the bucket, or was.
Landed(c) ==
    \/ call[c].pc = "waiting" /\ \A r \in wire : r.by = c => r.reply \in {"ok", "network"}
    \/ call[c].pc = "resolved"
    \/ call[c].pc = "rejected" /\ call[c].error = "network"

\* It has one request under way at most, which it waits for.
ConflictInv ==
    /\ \A c \in Calls : call[c].pc # "rejected" => call[c].error = "none"
    /\ \A r \in wire : Single(r.by) => call[r.by].pc = "waiting" /\ r.try = call[r.by].try
    /\ \A r, q \in wire : r.by = q.by /\ Single(r.by) => r = q
    /\ \A x \in stored : /\ x[2] \in Calls /\ call[x[2]].op.kind = "put"
                         /\ Single(x[2]) => Landed(x[2])

-----------------------------------------------------------------------------
(* A file and its signature.                                               *)

Kept(p) == \A d \in Calls : ~(call[d].op.kind = "delete" /\ call[d].op.signed /\ call[d].path = p)

PairInv ==
    /\ \A p \in Paths : Kept(p) =>
          /\ \A c \in Calls : SignedPut(c) /\ call[c].path = p /\ call[c].pc = "resolved" =>
                hub[<<p, "sig">>] = c
          /\ \A r \in wire : r.file = <<p, "sig">> /\ r.op.kind = "put" /\ r.reply = "ok" =>
                hub[<<p, "sig">>] = r.by
    /\ \A c \in Calls : SignedPut(c) /\ call[c].pc = "waiting" =>
          \E r \in Awaited(c) : r.file = <<call[c].path, "sig">>
    /\ \A f \in Files : hub[f] # Absent => call[hub[f]].op.kind = "put" /\ call[hub[f]].path = f[1]
    /\ \A r \in wire : r.op.kind = "put" /\ r.file[2] = "sig" => r.accepts = {Absent}

-----------------------------------------------------------------------------
(* The reads.                                                              *)

RejectedRead(c) == call[c].op.kind = "get" /\ call[c].op.signed /\ call[c].pc = "rejected"

\* A read has one request under way for each file it has not got; only a verified one
\* that was rejected leaves any behind.
ReadInv ==
    /\ \A c \in Calls : call[c].got = {} \/ (IsGet(c) /\ call[c].pc = "waiting")
    /\ \A r \in wire : r.op.kind = "get" => call[r.by].pc = "waiting" \/ RejectedRead(r.by)
    /\ \A r \in wire : r.op.kind = "get" => \A x \in call[r.by].got : x[1] # r.file[2]
    /\ \A r, q \in wire : r.op.kind = "get" /\ r.by = q.by /\ r.file = q.file => r = q

-----------------------------------------------------------------------------
(* Sessions that make one call at a time.                                  *)

Alone(c) ==
    \A d \in Calls : \/ S(d) # S(c) \/ call[d].path # call[c].path
                     \/ d <= c /\ ~RejectedRead(d)

ForgetInv ==
    /\ \A c \in Calls : Running(c) => \A d \in Calls : S(d) = S(c) => d <= c
    /\ \A c \in Calls : ~Running(c) => call[c].snap = SignedOut
    /\ \A c \in Calls : call[c].op.kind = "delete" /\ call[c].pc = "resolved" /\ Alone(c) =>
          /\ session[S(c)].etags[call[c].path] = Absent
          /\ \A d \in Calls : S(d) = S(c) => call[d].snap.etags[call[c].path] = Absent

-----------------------------------------------------------------------------
(* A conflict is real.                                                     *)

\* Call c goes on or a request of its is answered: the others are left alone.
Touches(c) ==
    /\ c \in Calls /\ (Moves(c) \/ UNCHANGED call)
    /\ \A r \in wire' : r \in wire \/ r.by = c

LEMMA ConflictKept ==
    ASSUME TypeInv, ConflictInv, NEW c \in Calls, Touches(c),
           call'[c].pc # "rejected" => call'[c].error = "none",
           \A r \in wire' : r.by = c /\ Single(c) => call'[c].pc = "waiting" /\ r.try = call'[c].try,
           \A r, q \in wire' : r.by = c /\ q.by = c /\ Single(c) => r = q,
           \A x \in stored' : \/ x \in stored /\ x[2] # c
                              \/ x[2] = c /\ IsPut(c) /\ (Single(c) => Landed(c)')
    PROVE  ConflictInv'
  <1>1. /\ Calls' = Calls
        /\ \A d \in Calls : d # c => call'[d] = call[d]
        /\ \A d \in Calls : call'[d].op = call[d].op
    BY DEF Touches, Moves, Calls
  <1>2. \A d \in Calls : (Single(d)' <=> Single(d)) /\ (d # c => (Landed(d) => Landed(d)'))
    BY <1>1 DEF Single, Landed, Touches
  <1>3. \A r \in wire' : r.by \in Calls /\ (r.by # c => r \in wire)
    BY DEF Touches, TypeInv, IsSent
  <1>4. (\A d \in Calls : call[d].pc # "rejected" => call[d].error = "none")'
    BY <1>1 DEF ConflictInv
  <1>5. (\A r \in wire : Single(r.by) => call[r.by].pc = "waiting" /\ r.try = call[r.by].try)'
    BY <1>1, <1>2, <1>3 DEF ConflictInv
  <1>6. (\A r, q \in wire : r.by = q.by /\ Single(r.by) => r = q)'
    BY <1>2, <1>3 DEF ConflictInv
  <1>7. (\A x \in stored : /\ x[2] \in Calls /\ call[x[2]].op.kind = "put"
                           /\ Single(x[2]) => Landed(x[2]))'
    <2> SUFFICES ASSUME NEW x \in stored'
                 PROVE  x[2] \in Calls' /\ call'[x[2]].op.kind = "put" /\ (Single(x[2])' => Landed(x[2])')
      OBVIOUS
    <2>1. CASE x \in stored /\ x[2] # c
      BY <1>1, <1>2, <2>1 DEF ConflictInv
    <2>2. CASE x[2] = c /\ IsPut(c) /\ (Single(c) => Landed(c)')
      BY <1>1, <1>2, <2>2 DEF IsPut
    <2> QED BY <2>1, <2>2
  <1> QED BY <1>4, <1>5, <1>6, <1>7 DEF ConflictInv

\* Whatever is no upload of a single file may go on as it likes.
LEMMA ConflictApart ==
    ASSUME TypeInv, ConflictInv, NEW c \in Calls, Touches(c), ~Single(c),
           call'[c].pc # "rejected" => call'[c].error = "none", UNCHANGED stored
    PROVE  ConflictInv'
  <1>1. \A x \in stored' : \/ x \in stored /\ x[2] # c
                           \/ x[2] = c /\ IsPut(c) /\ (Single(c) => Landed(c)')
    BY DEF ConflictInv, IsPut
  <1> QED BY <1>1, ConflictKept

\* A request that is answered is the only one of its call.
LEMMA HandlesConflict ==
    ASSUME TypeInv, ConflictInv, NEW r, NEW a, NEW reply, NEW etag, Handles(r, a, reply, etag)
    PROVE  ConflictInv'
  <1>0. PICK c \in Calls : c = r.by
    BY DEF Handles, TypeInv, IsSent
  <1>1. /\ r \in wire /\ r.reply = "sent" /\ c = r.by /\ r.op = call[c].op
        /\ a.by = c /\ a.try = r.try /\ a.reply = reply /\ UNCHANGED call
    BY <1>0 DEF Handles, Replied, TypeInv, IsSent
  <1>2. wire' = (wire \ {r}) \cup (IF Heard(r) THEN {a} ELSE {})
    BY DEF Handles
  <1>3. Touches(c) /\ (call'[c].pc # "rejected" => call'[c].error = "none")
    BY <1>1, <1>2 DEF Touches, ConflictInv
  <1>4. \A x \in stored' : \/ x \in stored
                           \/ x[2] = c /\ IsPut(c) /\ reply \in {"ok", "network"}
    <2>1. CASE Applied(r, reply, etag)
      <3>1. r.op \in Ops /\ r.op.kind \in {"put", "get", "delete"}
        BY <1>1, StorageAssumption DEF TypeInv, RequestType
      <3>2. CASE r.op.kind = "put"
        <4>1. stored' = stored \cup {<<r.file, c>>}
          BY <1>1, <2>1, <3>2 DEF Applied, Apply
        <4> QED BY <1>1, <2>1, <3>2, <4>1 DEF Applied, IsPut
      <3>3. CASE r.op.kind # "put"
        BY <2>1, <3>1, <3>3 DEF Applied, Apply
      <3> QED BY <3>2, <3>3
    <2>2. CASE UNCHANGED stored
      BY <2>2
    <2> QED BY <2>1, <2>2 DEF Handles
  <1>5. ASSUME Single(c)
        PROVE  /\ call[c].pc = "waiting" /\ r.try = call[c].try
               /\ \A q \in wire' : q.by = c => q = a
               /\ \A x \in stored : x[2] # c
    <2>1. call[c].pc = "waiting" /\ r.try = call[c].try /\ \A q \in wire : q.by = c => q = r
      BY <1>1, <1>5 DEF ConflictInv
    <2>2. ~Landed(c)
      BY <1>1, <2>1 DEF Landed
    <2> QED BY <1>2, <1>5, <2>1, <2>2 DEF ConflictInv
  <1>6. \A x \in stored' : \/ x \in stored /\ x[2] # c
                           \/ x[2] = c /\ IsPut(c) /\ (Single(c) => Landed(c)')
    <2> SUFFICES ASSUME NEW x \in stored', x[2] = c PROVE IsPut(c) /\ (Single(c) => Landed(c)')
      BY <1>4
    <2>1. IsPut(c)
      BY <1>4 DEF ConflictInv, IsPut
    <2>2. ASSUME Single(c) PROVE Landed(c)'
      <3>1. reply \in {"ok", "network"}
        BY <1>4, <1>5, <2>2
      <3> QED BY <1>1, <1>5, <2>2, <3>1 DEF Landed
    <2> QED BY <2>1, <2>2
  <1>7. \A q \in wire' : q.by = c /\ Single(c) => call'[c].pc = "waiting" /\ q.try = call'[c].try
    BY <1>1, <1>5
  <1>8. \A q, w \in wire' : q.by = c /\ w.by = c /\ Single(c) => q = w
    BY <1>5
  <1> QED BY <1>3, <1>6, <1>7, <1>8, ConflictKept

\* A call that sends has nothing under way, and stored nothing yet.
LEMMA SendsConflict ==
    ASSUME TypeInv, ConflictInv, NEW c \in Calls, call[c].pc \in {"ready", "connecting"},
           NEW try, NEW etag, NEW snap, Sets(c, "waiting", try, snap), Sends(c, try, etag),
           UNCHANGED stored
    PROVE  ConflictInv'
  <1>1. Touches(c) /\ (call'[c].pc # "rejected" => call'[c].error = "none")
    BY DEF Touches, Sets, Sends, Asks, ConflictInv
  <1>2. CASE ~Single(c)
    BY <1>1, <1>2, ConflictApart
  <1>3. CASE Single(c)
    <2>1. /\ \A q \in wire : q.by # c
          /\ \A x \in stored : x[2] # c
      BY <1>3 DEF ConflictInv, Landed
    <2>2. PICK Q : /\ wire' = wire \cup Q
                   /\ \A q \in Q : Asks(q, c, try, etag)
                   /\ \A q, r \in Q : q.file = r.file => q = r
      BY DEF Sends
    <2>3. \A q \in Q : q.try = try /\ q.by = c /\ q.file = <<call[c].path, "file">>
      BY <1>3, <2>2 DEF Asks, Single, Parts
    <2>4. \A q \in wire' : q.by = c => call'[c].pc = "waiting" /\ q.try = call'[c].try
      BY <2>1, <2>2, <2>3 DEF Sets
    <2>5. \A q, r \in wire' : q.by = c /\ r.by = c => q = r
      BY <2>1, <2>2, <2>3
    <2> QED BY <1>1, <2>1, <2>4, <2>5, ConflictKept
  <1> QED BY <1>2, <1>3

\* Nothing is left under way of a call that ends or starts over.
LEMMA StopsConflict ==
    ASSUME TypeInv, ConflictInv, NEW c \in Calls, call[c].pc = "waiting",
           Touches(c), call'[c].pc # "rejected" => call'[c].error = "none", UNCHANGED stored,
           \A q \in Awaited(c) : Single(c) => q.reply # "sent",
           wire' \subseteq Unserved(c),
           (\E x \in stored : x[2] = c) /\ Single(c) /\ (\A q \in Awaited(c) : q.reply \in {"ok", "network"})
              => \/ call'[c].pc = "resolved"
                 \/ call'[c].pc = "rejected" /\ call'[c].error = "network"
    PROVE  ConflictInv'
  <1>1. CASE ~Single(c)
    BY <1>1, ConflictApart
  <1>2. CASE Single(c)
    <2>1. \A q \in wire' : q.by # c
      BY <1>2 DEF Unserved, Awaited, ConflictInv
    <2>2. \A x \in stored' : \/ x \in stored /\ x[2] # c
                             \/ x[2] = c /\ IsPut(c) /\ (Single(c) => Landed(c)')
      <3>1. \A q \in Awaited(c) : q \in wire /\ q.by = c
        BY DEF Awaited
      <3>2. (\E x \in stored : x[2] = c) => \A q \in Awaited(c) : q.reply \in {"ok", "network"}
        BY <1>2, <3>1 DEF ConflictInv, Landed
      <3>3. (\E x \in stored : x[2] = c) => Landed(c)'
        BY <1>2, <3>2 DEF Landed
      <3> QED BY <1>2, <3>3 DEF Single, IsPut
    <2> QED BY <2>1, <2>2, ConflictKept
  <1> QED BY <1>1, <1>2

LEMMA NextConflict == TypeInv /\ ConflictInv /\ [Next]_vars => ConflictInv'
  <1> SUFFICES ASSUME TypeInv, ConflictInv, [Next]_vars PROVE ConflictInv'
    OBVIOUS
  <1>1. ASSUME NEW s, NEW op, NEW p, StartIs(s, op, p) PROVE ConflictInv'
    <2>1. \A d \in Calls : d \in Calls' /\ call'[d] = call[d]
      BY <1>1 DEF StartIs, Makes
    <2>2. \A d \in Calls : (Single(d)' <=> Single(d)) /\ (Landed(d)' <=> Landed(d))
      BY <1>1, <2>1 DEF Single, Landed, StartIs
    <2>3. \A r \in wire : r.by \in Calls
      BY DEF TypeInv, IsSent
    <2>4. \A d \in Calls' : call'[d].pc # "rejected" => call'[d].error = "none"
      BY <1>1 DEF StartIs, Makes, ConflictInv
    <2>5. (\A r \in wire : Single(r.by) => call[r.by].pc = "waiting" /\ r.try = call[r.by].try)'
      BY <1>1, <2>1, <2>2, <2>3 DEF ConflictInv, StartIs
    <2>6. (\A r, q \in wire : r.by = q.by /\ Single(r.by) => r = q)'
      BY <1>1, <2>2, <2>3 DEF ConflictInv, StartIs
    <2>7. (\A x \in stored : /\ x[2] \in Calls /\ call[x[2]].op.kind = "put"
                             /\ Single(x[2]) => Landed(x[2]))'
      BY <1>1, <2>1, <2>2 DEF ConflictInv, StartIs
    <2> QED BY <2>4, <2>5, <2>6, <2>7 DEF ConflictInv
  <1>2. ASSUME NEW r, NEW a, NEW reply, NEW etag, Handles(r, a, reply, etag) PROVE ConflictInv'
    BY <1>2, HandlesConflict
  <1>e. ASSUME NEW c, NEW error, Ends(c, "rejected", error), UNCHANGED <<wire, stored>>,
               call[c].pc \in {"ready", "connecting"}
        PROVE  ConflictInv'
    <2>1. c \in Calls /\ Touches(c) /\ call'[c].pc = "rejected"
      BY <1>e DEF Ends, Moves, Touches
    <2>2. Single(c) => (\A r \in wire' : r.by # c) /\ \A x \in stored' : x[2] # c
      BY <1>e, <2>1 DEF ConflictInv, Landed
    <2>3. \A x \in stored : x[2] = c => IsPut(c)
      BY DEF ConflictInv, IsPut
    <2> QED BY <1>e, <2>1, <2>2, <2>3, ConflictKept
  <1>3. ASSUME NEW c, PutBeginsIs(c) PROVE ConflictInv'
    <2>1. CASE Ends(c, "rejected", "signedOut") /\ UNCHANGED wire
      BY <1>3, <1>e, <2>1 DEF PutBeginsIs
    <2>2. CASE /\ Sets(c, "waiting", 1, session[S(c)])
               /\ Sends(c, 1, session[S(c)].etags[call[c].path])
      BY <1>3, <2>2, SendsConflict DEF PutBeginsIs
    <2> QED BY <1>3, <2>1, <2>2 DEF PutBeginsIs
  <1>4. ASSUME NEW c, RequestBeginsIs(c) PROVE ConflictInv'
    BY <1>4, SendsConflict DEF RequestBeginsIs
  <1>5. ASSUME NEW c, ConnectedIs(c) PROVE ConflictInv'
    <2>1. CASE Ends(c, "rejected", "signedOut") /\ UNCHANGED wire
      BY <1>5, <1>e, <2>1 DEF ConnectedIs
    <2>2. CASE Sets(c, "ready", 1, call[c].snap) /\ UNCHANGED wire
      <3>1. c \in Calls /\ Touches(c) /\ (call'[c].pc # "rejected" => call'[c].error = "none")
        BY <1>5, <2>2 DEF Sets, Moves, Touches, ConnectedIs, ConflictInv
      <3>2. Single(c) => (\A r \in wire' : r.by # c) /\ \A x \in stored' : x[2] # c
        BY <1>5, <2>2, <3>1 DEF ConflictInv, Landed, ConnectedIs
      <3>3. \A x \in stored' : x[2] = c => IsPut(c)
        BY <1>5 DEF ConflictInv, IsPut, ConnectedIs
      <3> QED BY <1>5, <3>1, <3>2, <3>3, ConflictKept DEF ConnectedIs
    <2>3. CASE Sets(c, "waiting", 2, call[c].snap) /\ Sends(c, 2, call[c].snap.etags[call[c].path])
      BY <1>5, <2>3, SendsConflict DEF ConnectedIs
    <2> QED BY <1>5, <2>1, <2>2, <2>3 DEF ConnectedIs
  <1>6. ASSUME NEW c, ConnectFailsIs(c) PROVE ConflictInv'
    BY <1>6, <1>e DEF ConnectFailsIs
  <1>7. ASSUME NEW c, PutResolvesIs(c) PROVE ConflictInv'
    <2>1. /\ c \in Calls /\ Touches(c) /\ call'[c].pc = "resolved" /\ call'[c].error = "none"
          /\ call[c].pc = "waiting" /\ \A q \in Awaited(c) : q.reply # "sent"
      BY <1>7 DEF PutResolvesIs, Ends, Moves, Touches, Unserved
    <2> QED BY <1>7, <2>1, StopsConflict DEF PutResolvesIs
  <1>8. ASSUME NEW c, NEW r, PutFailsIs(c, r) PROVE ConflictInv'
    <2>1. /\ c \in Calls /\ call[c].pc = "waiting" /\ Touches(c)
          /\ (call'[c].pc # "rejected" => call'[c].error = "none")
      BY <1>8 DEF PutFailsIs, StartsOver, Sets, Ends, Touches, Unserved, ConflictInv, Moves
    <2>2. ASSUME Single(c) PROVE \A q \in Awaited(c) : q = r /\ q.reply # "sent"
      BY <1>8, <2>2 DEF PutFailsIs, Awaited, ConflictInv
    <2>3. ASSUME Single(c), \A q \in Awaited(c) : q.reply \in {"ok", "network"}
          PROVE  call'[c].pc = "rejected" /\ call'[c].error = "network"
      <3>1. r.reply = "network"
        BY <1>8, <2>3 DEF PutFailsIs
      <3>2. ~isRecoverableGaiaError(r.reply)
        BY <3>1 DEF isRecoverableGaiaError, statusCode
      <3> QED BY <1>8, <3>1, <3>2 DEF PutFailsIs, Ends
    <2> QED BY <1>8, <2>1, <2>2, <2>3, StopsConflict DEF PutFailsIs
  <1>9. ASSUME NEW c, NEW r, DeleteContinuesIs(c, r) PROVE ConflictInv'
    <2>1. /\ c \in Calls /\ ~Single(c) /\ Touches(c)
          /\ (call'[c].pc # "rejected" => call'[c].error = "none")
      BY <1>9 DEF DeleteContinuesIs, IsDelete, Single, Ends, Moves, Touches, Asks, ConflictInv
    <2> QED BY <1>9, <2>1, ConflictApart DEF DeleteContinuesIs
  <1>10. ASSUME NEW c, NEW r, DeleteFailsIs(c, r) PROVE ConflictInv'
    <2>1. /\ c \in Calls /\ ~Single(c) /\ Touches(c)
          /\ (call'[c].pc # "rejected" => call'[c].error = "none")
      BY <1>10 DEF DeleteFailsIs, IsDelete, Single, StartsOver, Sets, Ends, Moves, Touches,
                   ConflictInv
    <2> QED BY <1>10, <2>1, ConflictApart DEF DeleteFailsIs
  <1>11. ASSUME NEW r, GetReplyIs(r) PROVE ConflictInv'
    <2>1. PICK c \in Calls : c = r.by /\ call[c].op.kind = "get"
      BY <1>11 DEF GetReplyIs, TypeInv, IsSent
    <2>2. /\ ~Single(c) /\ Touches(c) /\ (call'[c].pc # "rejected" => call'[c].error = "none")
      BY <1>11, <2>1 DEF GetReplyIs, ReplyRead, Reads, Single, Ends, Touches, ConflictInv
    <2> QED BY <1>11, <2>2, ConflictApart DEF GetReplyIs
  <1>u. ASSUME UNCHANGED <<call, wire, stored>> PROVE ConflictInv'
    BY <1>u DEF ConflictInv, Single, Landed, Calls
  <1>12. ASSUME NEW s, SignOutIs(s) PROVE ConflictInv'
    BY <1>12, <1>u DEF SignOutIs
  <1>13. CASE Quiet
    BY <1>13, <1>u DEF Quiet
  <1> QED BY <1>1, <1>2, <1>3, <1>4, <1>5, <1>6, <1>7, <1>8, <1>9, <1>10, <1>11, <1>12, <1>13,
             NextShape

\* A putFile of one file that is rejected because its etag is not the file's has not
\* written it: whatever is lost, retried or overtaken, the conflict is with another call.
THEOREM ConflictsAreReal == Spec => []ConflictIsReal
  <1>1. Init => ConflictInv
    BY DEF Init, ConflictInv, Calls
  <1>2. TypeInv /\ ConflictInv => ConflictIsReal
    <2> SUFFICES ASSUME TypeInv, ConflictInv, NEW c \in Calls, call[c].error = "412",
                        ~call[c].op.signed, <<<<call[c].path, "file">>, c>> \in stored
                 PROVE  FALSE
      BY DEF ConflictIsReal
    <2>1. call[c].pc = "rejected"
      BY DEF ConflictInv
    <2>2. Single(c) /\ Landed(c)
      BY DEF ConflictInv, Single
    <2> QED BY <2>1, <2>2 DEF Landed
  <1> QED BY <1>1, <1>2, Typed, NextConflict, PTL DEF Spec

-----------------------------------------------------------------------------
(* A signature stays with its content.                                     *)

\* A request that is sent, for the signature of a put, is that of a new file.
LEMMA AsksNew ==
    ASSUME NEW q, NEW c, NEW try, NEW etag, Asks(q, c, try, etag)
    PROVE  q.op.kind = "put" /\ q.file[2] = "sig" => q.accepts = {Absent}
  BY DEF Asks, Accepts

\* The bucket is left alone, and so are the calls and the requests but those of c.
LEMMA PairKept ==
    ASSUME TypeInv, EtagInv, PairInv, NEW c \in Calls, Moves(c) \/ UNCHANGED call, UNCHANGED hub,
           \A q \in wire : q.by # c => q \in wire',
           \A q \in wire' : q \in wire \/ \E try, etag : Asks(q, c, try, etag),
           SignedPut(c) /\ call'[c].pc = "resolved" /\ Kept(call[c].path) =>
              hub[<<call[c].path, "sig">>] = c,
           SignedPut(c) /\ call'[c].pc = "waiting" =>
              \E r \in wire' : /\ r.by = c /\ r.try = call'[c].try
                               /\ r.file = <<call[c].path, "sig">>
    PROVE  PairInv'
  <1>1. /\ Calls' = Calls
        /\ \A d \in Calls : d # c => call'[d] = call[d]
        /\ \A d \in Calls : call'[d].op = call[d].op /\ call'[d].path = call[d].path
    BY DEF Moves, Calls
  <1>2. \A p \in Paths : Kept(p)' <=> Kept(p)
    BY <1>1 DEF Kept
  <1>3. \A d \in Calls : SignedPut(d)' <=> SignedPut(d)
    BY <1>1 DEF SignedPut
  <1>4. (\A p \in Paths : Kept(p) =>
           \A d \in Calls : SignedPut(d) /\ call[d].path = p /\ call[d].pc = "resolved" =>
              hub[<<p, "sig">>] = d)'
    <2> SUFFICES ASSUME NEW p \in Paths, Kept(p), NEW d \in Calls, SignedPut(d),
                        call[d].path = p, call'[d].pc = "resolved"
                 PROVE  hub[<<p, "sig">>] = d
      BY <1>1, <1>2, <1>3
    <2>1. CASE d = c
      BY <2>1
    <2>2. CASE d # c
      BY <1>1, <2>2 DEF PairInv
    <2> QED BY <2>1, <2>2
  <1>5. (\A p \in Paths : Kept(p) =>
           \A r \in wire : r.file = <<p, "sig">> /\ r.op.kind = "put" /\ r.reply = "ok" =>
              hub[<<p, "sig">>] = r.by)'
    BY <1>2 DEF PairInv, Asks
  <1>6. (\A d \in Calls : SignedPut(d) /\ call[d].pc = "waiting" =>
           \E r \in Awaited(d) : r.file = <<call[d].path, "sig">>)'
    <2> SUFFICES ASSUME NEW d \in Calls', SignedPut(d)', call'[d].pc = "waiting"
                 PROVE  (\E r \in Awaited(d) : r.file = <<call[d].path, "sig">>)'
      OBVIOUS
    <2>0. d \in Calls /\ SignedPut(d) /\ call'[d].path = call[d].path
      BY <1>1, <1>3
    <2>1. \E r \in wire' : /\ r.by = d /\ r.try = call'[d].try
                           /\ r.file = <<call[d].path, "sig">>
      <3>1. CASE d = c
        BY <2>0, <3>1
      <3>2. CASE d # c
        <4>1. call'[d] = call[d] /\ call[d].pc = "waiting"
          BY <1>1, <2>0, <3>2
        <4>2. PICK r \in wire : /\ r.by = d /\ r.try = call[d].try
                                /\ r.file = <<call[d].path, "sig">>
          BY <2>0, <4>1 DEF PairInv, Awaited
        <4> QED BY <3>2, <4>1, <4>2
      <3> QED BY <3>1, <3>2
    <2> QED BY <2>0, <2>1 DEF Awaited
  <1>7. (\A f \in Files : hub[f] # Absent =>
           call[hub[f]].op.kind = "put" /\ call[hub[f]].path = f[1])'
    BY <1>1 DEF PairInv, EtagInv
  <1>8. (\A r \in wire : r.op.kind = "put" /\ r.file[2] = "sig" => r.accepts = {Absent})'
    BY AsksNew DEF PairInv
  <1> QED BY <1>4, <1>5, <1>6, <1>7, <1>8 DEF PairInv

\* What is no signed put may go on as it likes.
LEMMA PairApart ==
    ASSUME TypeInv, EtagInv, PairInv, NEW c \in Calls, Moves(c) \/ UNCHANGED call, UNCHANGED hub,
           \A q \in wire : q.by # c => q \in wire',
           \A q \in wire' : q \in wire \/ \E try, etag : Asks(q, c, try, etag),
           IsPut(c) => call'[c].pc \notin {"resolved", "waiting"}
    PROVE  PairInv'
  BY PairKept DEF IsPut, SignedPut

\* An upload that sends its requests awaits that of the signature.
LEMMA SendsPair ==
    ASSUME TypeInv, EtagInv, PairInv, NEW c \in Calls, NEW try, NEW etag, NEW snap,
           Sets(c, "waiting", try, snap), Sends(c, try, etag), UNCHANGED hub
    PROVE  PairInv'
  <1>1. Moves(c) /\ call'[c].pc = "waiting" /\ call'[c].try = try
    BY DEF Sets
  <1>2. PICK Q : /\ wire' = wire \cup Q
                 /\ \A q \in Q : Asks(q, c, try, etag)
                 /\ SignedPut(c) => \E q \in Q : q.file = <<call[c].path, "sig">>
    BY DEF Sends
  <1>3. \A q \in wire' : q \in wire \/ \E i, e : Asks(q, c, i, e)
    BY <1>2
  <1>4. SignedPut(c) => \E q \in wire' : /\ q.by = c /\ q.try = try
                                         /\ q.file = <<call[c].path, "sig">>
    BY <1>2 DEF Asks
  <1> QED BY <1>1, <1>2, <1>3, <1>4, PairKept

\* The hub takes a signature only where there is none.
LEMMA HandlesPair ==
    ASSUME TypeInv, EtagInv, PairInv, NEW r, NEW a, NEW reply, NEW etag,
           Handles(r, a, reply, etag)
    PROVE  PairInv'
  <1>1. /\ r \in wire /\ r.reply = "sent" /\ r.by \in Calls /\ r.op = call[r.by].op
        /\ r.file \in Files /\ r.by \in 1..MaxCalls /\ r.op \in Ops
        /\ a.by = r.by /\ a.try = r.try /\ a.file = r.file /\ a.op = r.op /\ a.reply = reply
        /\ a.accepts = r.accepts /\ UNCHANGED call
    BY DEF Handles, Replied, TypeInv, IsSent, RequestType
  <1>2. \E part \in Parts(r.op) : r.file = <<call[r.by].path, part>>
    BY <1>1 DEF TypeInv, IsSent
  <1>3. wire' = (wire \ {r}) \cup (IF Heard(r) THEN {a} ELSE {})
    BY DEF Handles
  <1>4. hub \in [Files -> 0..MaxCalls] /\ r.op.kind \in {"put", "get", "delete"}
    BY <1>1, StorageAssumption DEF TypeInv
  <1>5. \/ UNCHANGED hub /\ (reply = "ok" => r.op.kind # "put")
        \/ r.op.kind = "delete" /\ hub' = [hub EXCEPT ![r.file] = Absent]
        \/ /\ r.op.kind = "put" /\ hub' = [hub EXCEPT ![r.file] = r.by]
           /\ hub[r.file] \in r.accepts
    BY <1>4 DEF Handles, Applied, Apply, Refusal
  <1>6. \A p \in Paths, d \in Calls : (Kept(p)' <=> Kept(p)) /\ (SignedPut(d)' <=> SignedPut(d))
    BY <1>1 DEF Kept, SignedPut, Calls
  <1>7. (\A p \in Paths : Kept(p) =>
          /\ \A c \in Calls : SignedPut(c) /\ call[c].path = p /\ call[c].pc = "resolved" =>
                hub[<<p, "sig">>] = c
          /\ \A q \in wire : q.file = <<p, "sig">> /\ q.op.kind = "put" /\ q.reply = "ok" =>
                hub[<<p, "sig">>] = q.by)'
    <2> SUFFICES ASSUME NEW p \in Paths, Kept(p)
                 PROVE  /\ \A c \in Calls : SignedPut(c) /\ call[c].path = p
                                               /\ call[c].pc = "resolved" => hub'[<<p, "sig">>] = c
                        /\ \A q \in wire' : q.file = <<p, "sig">> /\ q.op.kind = "put"
                                               /\ q.reply = "ok" => hub'[<<p, "sig">>] = q.by
      BY <1>1, <1>6 DEF Calls, SignedPut
    <2>1. <<p, "sig">> \in Files
      BY DEF Files
    <2>2. /\ \A c \in Calls : SignedPut(c) /\ call[c].path = p /\ call[c].pc = "resolved" =>
                hub[<<p, "sig">>] = c
          /\ \A q \in wire : q.file = <<p, "sig">> /\ q.op.kind = "put" /\ q.reply = "ok" =>
                hub[<<p, "sig">>] = q.by
      BY DEF PairInv
    <2>3. CASE r.op.kind = "put" /\ r.file = <<p, "sig">> /\ hub' = [hub EXCEPT ![r.file] = r.by]
                  /\ hub[r.file] \in r.accepts
      <3>1. hub[<<p, "sig">>] = Absent /\ hub'[<<p, "sig">>] = r.by
        BY <1>1, <1>4, <2>1, <2>3 DEF PairInv
      <3>2. \A c \in Calls : c # Absent
        BY CallFacts DEF Absent
      <3>3. \A q \in wire : q.by \in Calls
        BY DEF TypeInv, IsSent
      <3> QED BY <1>1, <1>3, <2>2, <3>1, <3>2, <3>3
    <2>4. CASE r.op.kind = "delete" /\ r.file = <<p, "sig">>
      <3>1. r.op.signed /\ call[r.by].path = p
        BY <1>2, <2>4 DEF Parts
      <3> QED BY <1>1, <2>4, <3>1 DEF Kept
    <2>5. CASE hub'[<<p, "sig">>] = hub[<<p, "sig">>] /\ (r.file = <<p, "sig">> /\ r.op.kind = "put" => reply # "ok")
      BY <1>1, <1>3, <2>2, <2>5
    <2> QED BY <1>4, <1>5, <2>1, <2>3, <2>4, <2>5
  <1>8. (\A c \in Calls : SignedPut(c) /\ call[c].pc = "waiting" =>
           \E q \in Awaited(c) : q.file = <<call[c].path, "sig">>)'
    <2> SUFFICES ASSUME NEW c \in Calls', SignedPut(c)', call'[c].pc = "waiting"
                 PROVE  (\E q \in Awaited(c) : q.file = <<call[c].path, "sig">>)'
      OBVIOUS
    <2>0. c \in Calls /\ SignedPut(c) /\ call' = call /\ call[c].pc = "waiting"
      BY <1>1 DEF Calls, SignedPut
    <2>1. PICK q \in wire : q.by = c /\ q.try = call[c].try /\ q.file = <<call[c].path, "sig">>
      BY <2>0 DEF PairInv, Awaited
    <2>2. \E s \in wire' : s.by = c /\ s.try = call[c].try /\ s.file = <<call[c].path, "sig">>
      <3>1. CASE q = r
        <4>1. Heard(r)
          BY <2>0, <2>1, <3>1 DEF Heard
        <4>2. a \in wire' /\ a.by = c /\ a.try = call[c].try /\ a.file = r.file
          BY <1>1, <1>3, <2>1, <3>1, <4>1
        <4> QED BY <2>1, <3>1, <4>2
      <3>2. CASE q # r
        BY <1>3, <2>1, <3>2
      <3> QED BY <3>1, <3>2
    <2> QED BY <2>0, <2>2 DEF Awaited
  <1>9. (\A f \in Files : hub[f] # Absent =>
           call[hub[f]].op.kind = "put" /\ call[hub[f]].path = f[1])'
    <2> SUFFICES ASSUME NEW f \in Files, hub'[f] # Absent
                 PROVE  call[hub'[f]].op.kind = "put" /\ call[hub'[f]].path = f[1]
      BY <1>1
    <2>1. CASE hub'[f] = hub[f]
      BY <2>1 DEF PairInv
    <2>2. CASE f = r.file /\ r.op.kind = "put" /\ hub'[f] = r.by
      BY <1>1, <1>2, <2>2
    <2> QED BY <1>1, <1>4, <1>5, <2>1, <2>2
  <1>10. (\A q \in wire : q.op.kind = "put" /\ q.file[2] = "sig" => q.accepts = {Absent})'
    BY <1>1, <1>3 DEF PairInv
  <1> QED BY <1>7, <1>8, <1>9, <1>10 DEF PairInv

LEMMA NextPair == TypeInv /\ EtagInv /\ PairInv /\ [Next]_vars => PairInv'
  <1> SUFFICES ASSUME TypeInv, EtagInv, PairInv, [Next]_vars PROVE PairInv'
    OBVIOUS
  <1>1. ASSUME NEW s, NEW op, NEW p, StartIs(s, op, p) PROVE PairInv'
    <2> DEFINE n == Len(call')
    <2>1. /\ Calls' = Calls \cup {n} /\ \A d \in Calls : call'[d] = call[d]
          /\ call'[n].pc \in {"ready", "connecting"} /\ UNCHANGED <<hub, wire>>
      BY <1>1 DEF StartIs, Makes
    <2> HIDE DEF n
    <2>2. \A q \in Paths : Kept(q)' => Kept(q)
      BY <2>1 DEF Kept
    <2>3. \A d \in Calls : SignedPut(d)' <=> SignedPut(d)
      BY <2>1 DEF SignedPut
    <2>4. (\A q \in Paths : Kept(q) =>
            /\ \A c \in Calls : SignedPut(c) /\ call[c].path = q /\ call[c].pc = "resolved" =>
                  hub[<<q, "sig">>] = c
            /\ \A r \in wire : r.file = <<q, "sig">> /\ r.op.kind = "put" /\ r.reply = "ok" =>
                  hub[<<q, "sig">>] = r.by)'
      BY <2>1, <2>2, <2>3 DEF PairInv
    <2>5. (\A c \in Calls : SignedPut(c) /\ call[c].pc = "waiting" =>
             \E r \in Awaited(c) : r.file = <<call[c].path, "sig">>)'
      <3> SUFFICES ASSUME NEW d \in Calls', SignedPut(d)', call'[d].pc = "waiting"
                   PROVE  \E r \in wire' : /\ r.by = d /\ r.try = call'[d].try
                                           /\ r.file = <<call'[d].path, "sig">>
        BY DEF Awaited
      <3>1. d \in Calls /\ SignedPut(d) /\ call'[d] = call[d]
        BY <2>1, <2>3
      <3>2. PICK r \in Awaited(d) : r.file = <<call[d].path, "sig">>
        BY <3>1 DEF PairInv
      <3>3. r \in wire' /\ r.by = d /\ r.try = call[d].try
        BY <2>1, <3>2 DEF Awaited
      <3> QED BY <3>1, <3>2, <3>3
    <2>6. (\A f \in Files : hub[f] # Absent =>
             call[hub[f]].op.kind = "put" /\ call[hub[f]].path = f[1])'
      BY <2>1 DEF PairInv, EtagInv
    <2>7. (\A r \in wire : r.op.kind = "put" /\ r.file[2] = "sig" => r.accepts = {Absent})'
      BY <2>1 DEF PairInv
    <2> QED BY <2>4, <2>5, <2>6, <2>7 DEF PairInv
  <1>2. ASSUME NEW r, NEW a, NEW reply, NEW etag, Handles(r, a, reply, etag) PROVE PairInv'
    BY <1>2, HandlesPair
  <1>e. ASSUME NEW c, NEW error, Ends(c, "rejected", error), UNCHANGED <<wire, hub>>
        PROVE  PairInv'
    BY <1>e, PairApart DEF Ends, Moves
  <1>3. ASSUME NEW c, PutBeginsIs(c) PROVE PairInv'
    <2>1. CASE Ends(c, "rejected", "signedOut") /\ UNCHANGED wire
      BY <1>3, <1>e, <2>1 DEF PutBeginsIs
    <2>2. CASE /\ Sets(c, "waiting", 1, session[S(c)])
               /\ Sends(c, 1, session[S(c)].etags[call[c].path])
      BY <1>3, <2>2, SendsPair DEF PutBeginsIs
    <2> QED BY <1>3, <2>1, <2>2 DEF PutBeginsIs
  <1>4. ASSUME NEW c, RequestBeginsIs(c) PROVE PairInv'
    BY <1>4, SendsPair DEF RequestBeginsIs
  <1>5. ASSUME NEW c, ConnectedIs(c) PROVE PairInv'
    <2>1. CASE Ends(c, "rejected", "signedOut") /\ UNCHANGED wire
      BY <1>5, <1>e, <2>1 DEF ConnectedIs
    <2>2. CASE Sets(c, "ready", 1, call[c].snap) /\ UNCHANGED wire
      BY <1>5, <2>2, PairApart DEF ConnectedIs, Sets
    <2>3. CASE Sets(c, "waiting", 2, call[c].snap) /\ Sends(c, 2, call[c].snap.etags[call[c].path])
      BY <1>5, <2>3, SendsPair DEF ConnectedIs
    <2> QED BY <1>5, <2>1, <2>2, <2>3 DEF ConnectedIs
  <1>6. ASSUME NEW c, ConnectFailsIs(c) PROVE PairInv'
    BY <1>6, <1>e DEF ConnectFailsIs
  <1>s. \A c : /\ \A q \in wire : q.by # c => q \in Unserved(c)
               /\ Unserved(c) \subseteq wire
    BY DEF Unserved
  <1>7. ASSUME NEW c, PutResolvesIs(c) PROVE PairInv'
    <2>1. /\ c \in Calls /\ Moves(c) /\ UNCHANGED hub /\ call'[c].pc = "resolved"
          /\ call[c].pc = "waiting" /\ wire' = Unserved(c)
      BY <1>7 DEF PutResolvesIs, Ends
    <2>2. ASSUME SignedPut(c), Kept(call[c].path) PROVE hub[<<call[c].path, "sig">>] = c
      <3>1. PICK q \in Awaited(c) : q.file = <<call[c].path, "sig">>
        BY <2>1, <2>2 DEF PairInv
      <3>2. q \in wire /\ q.by = c /\ q.reply = "ok" /\ q.op.kind = "put"
        BY <1>7, <2>2, <3>1 DEF PutResolvesIs, Awaited, TypeInv, IsSent, SignedPut
      <3>3. call[c].path \in Paths
        BY <2>1, CallFacts DEF CallType
      <3> QED BY <2>2, <3>1, <3>2, <3>3 DEF PairInv
    <2> QED BY <1>s, <2>1, <2>2, PairKept
  <1>8. ASSUME NEW c, NEW r, PutFailsIs(c, r) PROVE PairInv'
    <2>1. /\ c \in Calls /\ Moves(c) /\ UNCHANGED hub /\ wire' = Unserved(c)
          /\ call'[c].pc \in {"connecting", "rejected"}
      BY <1>8 DEF PutFailsIs, StartsOver, Sets, Ends
    <2> QED BY <1>s, <2>1, PairApart
  <1>9. ASSUME NEW c, NEW r, DeleteContinuesIs(c, r) PROVE PairInv'
    <2>1. /\ c \in Calls /\ (Moves(c) \/ UNCHANGED call) /\ UNCHANGED hub /\ ~IsPut(c)
          /\ r.by = c
      BY <1>9 DEF DeleteContinuesIs, IsDelete, IsPut, Ends, Awaited
    <2>2. /\ \A q \in wire : q.by # c => q \in wire'
          /\ \A q \in wire' : q \in wire \/ \E try, etag : Asks(q, c, try, etag)
      BY <1>9, <2>1 DEF DeleteContinuesIs
    <2> QED BY <2>1, <2>2, PairApart
  <1>10. ASSUME NEW c, NEW r, DeleteFailsIs(c, r) PROVE PairInv'
    <2>1. /\ c \in Calls /\ Moves(c) /\ UNCHANGED hub /\ ~IsPut(c)
          /\ r.by = c /\ wire' = wire \ {r}
      BY <1>10 DEF DeleteFailsIs, StartsOver, Sets, IsDelete, IsPut, Ends, Awaited
    <2> QED BY <2>1, PairApart
  <1>11. ASSUME NEW r, GetReplyIs(r) PROVE PairInv'
    <2>1. PICK c \in Calls : c = r.by /\ ~IsPut(c)
      BY <1>11 DEF GetReplyIs, TypeInv, IsSent, IsPut
    <2>2. (Moves(c) \/ UNCHANGED call) /\ UNCHANGED hub /\ wire' = wire \ {r}
      BY <1>11, <2>1 DEF GetReplyIs, ReplyRead, Reads, Ends
    <2> QED BY <2>1, <2>2, PairApart
  <1>u. ASSUME UNCHANGED <<call, wire, hub>> PROVE PairInv'
    BY <1>u, ZenonT(60) DEF PairInv, Kept, SignedPut, Awaited, Calls
  <1>12. ASSUME NEW s, SignOutIs(s) PROVE PairInv'
    BY <1>12, <1>u DEF SignOutIs
  <1>13. CASE Quiet
    BY <1>13, <1>u DEF Quiet
  <1> QED BY <1>1, <1>2, <1>3, <1>4, <1>5, <1>6, <1>7, <1>8, <1>9, <1>10, <1>11, <1>12, <1>13,
             NextShape

\* While nobody deletes the signature of a path, what a resolved signed putFile wrote
\* there is found with its own signature, with any number of calls that overlap, are
\* retried or lose their replies.
THEOREM ResolvedPairsVerify == Spec => []ResolvedPairVerifies
  <1>1. Init => PairInv
    BY DEF Init, PairInv, Calls, Absent
  <1>2. TypeInv /\ EtagInv /\ PairInv => ResolvedPairVerifies
    <2> SUFFICES ASSUME TypeInv, EtagInv, PairInv, NEW p \in Paths, NEW c \in Calls,
                        hub[<<p, "file">>] = c, call[c].op.signed, call[c].pc = "resolved", Kept(p)
                 PROVE  hub[<<p, "sig">>] = c
      BY DEF ResolvedPairVerifies, Kept
    <2>1. c # Absent /\ <<p, "file">> \in Files
      BY CallFacts DEF Absent, Files
    <2>2. SignedPut(c) /\ call[c].path = p
      BY <2>1 DEF PairInv, SignedPut
    <2> QED BY <2>2 DEF PairInv
  <1> QED BY <1>1, <1>2, EtagsTold, NextPair, PTL DEF Spec

-----------------------------------------------------------------------------
(* A deleted file's etag is gone.                                          *)

\* The calls but c are left alone, and so are their requests.
LEMMA ReadKept ==
    ASSUME TypeInv, TypeInv', ReadInv, NEW c \in Calls, Moves(c) \/ UNCHANGED call,
           \A q \in wire' : q \in wire \/ q.by = c,
           call'[c].got = {} \/ (IsGet(c) /\ call'[c].pc = "waiting"),
           IsGet(c) => \A q \in wire' : q.by = c => /\ call'[c].pc = "waiting" \/ RejectedRead(c)'
                                                    /\ \A x \in call'[c].got : x[1] # q.file[2],
           IsGet(c) => \A q, r \in wire' : q.by = c /\ r.by = c /\ q.file = r.file => q = r
    PROVE  ReadInv'
  <1>1. /\ Calls' = Calls
        /\ \A d \in Calls : d # c => call'[d] = call[d]
        /\ \A d \in Calls : call'[d].op = call[d].op
    BY DEF Moves, Calls
  <1>2. \A d \in Calls : (IsGet(d)' <=> IsGet(d)) /\ (d # c => (RejectedRead(d)' <=> RejectedRead(d)))
    BY <1>1 DEF IsGet, RejectedRead
  <1>3. \A q \in wire' : q.by \in Calls /\ (q.op.kind = "get" => IsGet(q.by))
    BY <1>1 DEF TypeInv, IsSent, IsGet
  <1>4. (\A d \in Calls : call[d].got = {} \/ (IsGet(d) /\ call[d].pc = "waiting"))'
    BY <1>1, <1>2 DEF ReadInv
  <1>5. (\A r \in wire : r.op.kind = "get" => call[r.by].pc = "waiting" \/ RejectedRead(r.by))'
    BY <1>1, <1>2, <1>3 DEF ReadInv
  <1>6. (\A r \in wire : r.op.kind = "get" => \A x \in call[r.by].got : x[1] # r.file[2])'
    BY <1>1, <1>3 DEF ReadInv
  <1>7. (\A r, q \in wire : r.op.kind = "get" /\ r.by = q.by /\ r.file = q.file => r = q)'
    BY <1>3 DEF ReadInv
  <1> QED BY <1>4, <1>5, <1>6, <1>7 DEF ReadInv

\* Whatever does not read may go on as it likes.
LEMMA ReadApart ==
    ASSUME TypeInv, TypeInv', ReadInv, NEW c \in Calls, Moves(c) \/ UNCHANGED call, ~IsGet(c),
           \A q \in wire' : q \in wire \/ q.by = c,
           call'[c].got \in {call[c].got, {}}
    PROVE  ReadInv'
  <1>1. call'[c].got = {}
    BY DEF ReadInv
  <1> QED BY <1>1, ReadKept

\* A read that sends its requests had none.
LEMMA SendsRead ==
    ASSUME TypeInv, TypeInv', ReadInv, NEW c \in Calls, call[c].pc \in {"ready", "connecting"},
           NEW try, NEW etag, NEW snap, Sets(c, "waiting", try, snap), Sends(c, try, etag)
    PROVE  ReadInv'
  <1>1. /\ Moves(c) /\ call'[c].pc = "waiting" /\ call[c].got = {} /\ call'[c].got = {}
    BY DEF Sets, ReadInv
  <1>2. PICK Q : /\ wire' = wire \cup Q
                 /\ \A q \in Q : Asks(q, c, try, etag)
                 /\ \A q, r \in Q : q.file = r.file => q = r
    BY DEF Sends
  <1>3. \A q \in Q : q.by = c
    BY <1>2 DEF Asks
  <1>4. IsGet(c) => \A q \in wire : q.by # c
    <2>1. \A q \in wire : q.by = c /\ IsGet(c) => q.op.kind = "get"
      BY DEF TypeInv, IsSent, IsGet
    <2> QED BY <2>1 DEF ReadInv, RejectedRead
  <1> QED BY <1>1, <1>2, <1>3, <1>4, ReadKept

\* The two files of a verified read.
LEMMA TwoParts ==
    /\ Cardinality({"file", "sig"}) = 2
    /\ \A x : Cardinality({x}) = 1
  <1>1. \A x : IsFiniteSet({x}) /\ Cardinality({x}) = 1
    BY FS_Singleton
  <1>2. "sig" \notin {"file"} /\ {"file", "sig"} = {"file"} \cup {"sig"}
    OBVIOUS
  <1>3. ASSUME NEW X, NEW x, IsFiniteSet(X), x \notin X
        PROVE  Cardinality(X \cup {x}) = Cardinality(X) + 1
    BY <1>3, FS_AddElement
  <1>4. Cardinality({"file"} \cup {"sig"}) = Cardinality({"file"}) + 1
    BY <1>1, <1>2, <1>3
  <1>5. Cardinality({"file"} \cup {"sig"}) = 2
    <2>1. Cardinality({"file"}) = 1
      BY <1>1
    <2> QED BY <1>4, <2>1
  <1> QED BY <1>1, <1>2, <1>5

\* A read that has resolved has no request left under way.
LEMMA GetReplyRead ==
    ASSUME TypeInv, TypeInv', ReadInv, NEW r, GetReplyIs(r)
    PROVE  ReadInv'
  <1>1. PICK c \in Calls : c = r.by
    BY DEF GetReplyIs
  <1>2. /\ r \in wire /\ r.op = call[c].op /\ IsGet(c) /\ wire' = wire \ {r} /\ r.op.kind = "get"
        /\ \A x \in call[c].got : x[1] # r.file[2]
    BY <1>1 DEF GetReplyIs, TypeInv, IsSent, IsGet, ReadInv
  <1>3. ASSUME NEW q \in wire', q.by = c
        PROVE  /\ q \in wire /\ call[c].op.signed /\ q.file[2] # r.file[2]
               /\ q.file[2] \in {"file", "sig"} /\ r.file[2] \in {"file", "sig"}
               /\ \A x \in call[c].got : x[1] # q.file[2]
               /\ call[c].pc = "waiting" \/ RejectedRead(c)
    <2>1. q \in wire /\ q # r
      BY <1>2, <1>3
    <2>2. q.op = call[c].op /\ q.op.kind = "get"
      BY <1>2, <1>3, <2>1 DEF TypeInv, IsSent, IsGet
    <2>3. PICK i \in Parts(call[c].op) : q.file = <<call[c].path, i>>
      BY <1>3, <2>1, <2>2 DEF TypeInv, IsSent
    <2>4. PICK j \in Parts(call[c].op) : r.file = <<call[c].path, j>>
      BY <1>1, <1>2 DEF TypeInv, IsSent
    <2>5. q.file # r.file
      BY <1>1, <1>2, <1>3, <2>1 DEF ReadInv
    <2>6. i # j /\ call[c].op.signed
      BY <2>3, <2>4, <2>5 DEF Parts
    <2> QED BY <1>3, <2>1, <2>2, <2>3, <2>4, <2>6 DEF Parts, ReadInv
  <1>4. \A q, w \in wire' : q.by = c /\ w.by = c /\ q.file = w.file => q = w
    <2>1. \A q \in wire : q.by = c => q.op.kind = "get"
      BY <1>2 DEF TypeInv, IsSent, IsGet
    <2> QED BY <1>2, <2>1 DEF ReadInv
  <1>5. CASE ~Running(c) /\ UNCHANGED call
    <2>1. call[c].got = {}
      BY <1>5 DEF ReadInv, Running
    <2> QED BY <1>2, <1>3, <1>4, <1>5, <2>1, ReadKept DEF RejectedRead
  <1>6. CASE Ends(c, "rejected", r.reply) \/ Ends(c, "rejected", "mismatch")
    <2>1. Moves(c) /\ call'[c].pc = "rejected" /\ call'[c].got = {} /\ call'[c].op = call[c].op
      BY <1>6 DEF Ends, Moves
    <2>2. \A q \in wire' : q.by = c => RejectedRead(c)'
      BY <1>2, <1>3, <2>1 DEF RejectedRead, IsGet
    <2> QED BY <1>2, <1>4, <2>1, <2>2, ReadKept
  <1>7. CASE Reads(c, Got(r))
    <2>1. /\ Moves(c) /\ Running(c) /\ call'[c].pc = call[c].pc
          /\ call'[c].got = call[c].got \cup {<<r.file[2], r.etag>>}
      BY <1>1, <1>7 DEF Reads, Got, Moves
    <2>2. call[c].pc = "waiting"
      BY <1>1, <1>2, <2>1 DEF ReadInv, RejectedRead, Running
    <2>3. \A q \in wire' : q.by = c => \A x \in call'[c].got : x[1] # q.file[2]
      BY <1>3, <2>1
    <2> QED BY <1>2, <1>4, <2>1, <2>2, <2>3, ReadKept
  <1>8. CASE /\ Ends(c, "resolved", "none")
             /\ ~(Cardinality(Got(r)) < Cardinality(Parts(r.op)))
             /\ \A x, y \in Got(r) : x[2] = y[2]
    <2>1. Moves(c) /\ call'[c].got = {}
      BY <1>8 DEF Ends
    <2>2. ASSUME NEW q \in wire', q.by = c PROVE FALSE
      <3> DEFINE n == <<r.file[2], r.etag>>
      <3>1. call[c].got \subseteq {"file", "sig"} \X Etags
        BY CallFacts DEF CallType
      <3>2. \A x \in call[c].got : x = <<x[1], x[2]>> /\ x[1] = r.file[2]
        BY <1>3, <2>2, <3>1
      <3>3. n \in Got(r) /\ Got(r) = call[c].got \cup {n}
        BY <1>1 DEF Got
      <3>4. \A x \in call[c].got : x[2] = n[2]
        BY <1>8, <3>3
      <3>5. Got(r) = {n}
        BY <3>2, <3>3, <3>4
      <3>6. Cardinality(Got(r)) = 1 /\ Cardinality(Parts(r.op)) = 2
        BY <1>2, <1>3, <2>2, <3>5, TwoParts DEF Parts
      <3> QED BY <1>8, <3>6
    <2> QED BY <1>2, <2>1, <2>2, ReadKept
  <1> QED BY <1>1, <1>5, <1>6, <1>7, <1>8 DEF GetReplyIs, ReplyRead

LEMMA NextRead == TypeInv /\ ReadInv /\ [Next]_vars => ReadInv'
  <1> SUFFICES ASSUME TypeInv, TypeInv', ReadInv, [Next]_vars PROVE ReadInv'
    BY NextTyped
  <1>1. ASSUME NEW s, NEW op, NEW p, StartIs(s, op, p) PROVE ReadInv'
    <2> DEFINE n == Len(call')
    <2>1. /\ Calls' = Calls \cup {n} /\ \A d \in Calls : call'[d] = call[d]
          /\ call'[n].got = {} /\ UNCHANGED wire
      BY <1>1 DEF StartIs, Makes
    <2> HIDE DEF n
    <2>2. \A d \in Calls : (IsGet(d)' <=> IsGet(d)) /\ (RejectedRead(d)' <=> RejectedRead(d))
      BY <2>1 DEF IsGet, RejectedRead
    <2>3. \A r \in wire : r.by \in Calls
      BY DEF TypeInv, IsSent
    <2>4. (\A d \in Calls : call[d].got = {} \/ (IsGet(d) /\ call[d].pc = "waiting"))'
      BY <2>1, <2>2 DEF ReadInv
    <2>5. (\A r \in wire : r.op.kind = "get" => call[r.by].pc = "waiting" \/ RejectedRead(r.by))'
      BY <2>1, <2>2, <2>3 DEF ReadInv
    <2>6. (\A r \in wire : r.op.kind = "get" => \A x \in call[r.by].got : x[1] # r.file[2])'
      BY <2>1, <2>3 DEF ReadInv
    <2>7. (\A r, q \in wire : r.op.kind = "get" /\ r.by = q.by /\ r.file = q.file => r = q)'
      BY <2>1 DEF ReadInv
    <2> QED BY <2>4, <2>5, <2>6, <2>7 DEF ReadInv
  <1>2. ASSUME NEW r, NEW a, NEW reply, NEW etag, Handles(r, a, reply, etag) PROVE ReadInv'
    <2>1. PICK c \in Calls : c = r.by /\ r.op = call[c].op
      BY <1>2 DEF Handles, TypeInv, IsSent
    <2>2. /\ r \in wire /\ a.by = c /\ a.file = r.file /\ a.op = r.op /\ UNCHANGED call
          /\ wire' = (wire \ {r}) \cup (IF Heard(r) THEN {a} ELSE {})
      BY <1>2, <2>1 DEF Handles, Replied
    <2>3. \A q \in wire : q.by = c /\ IsGet(c) => q.op.kind = "get"
      BY DEF TypeInv, IsSent, IsGet
    <2>4. ASSUME IsGet(c), NEW q \in wire', q.by = c
          PROVE  /\ call[c].pc = "waiting" \/ RejectedRead(c)
                 /\ \A x \in call[c].got : x[1] # q.file[2]
      <3>1. PICK w \in wire : w.by = c /\ w.file = q.file
        BY <2>1, <2>2, <2>4
      <3> QED BY <2>3, <2>4, <3>1 DEF ReadInv
    <2>5. ASSUME IsGet(c), NEW q \in wire', NEW w \in wire', q.by = c, w.by = c, q.file = w.file
          PROVE  q = w
      <3>1. \A u, v \in wire : u.by = c /\ v.by = c /\ u.file = v.file => u = v
        BY <2>3, <2>5 DEF ReadInv
      <3> QED BY <2>1, <2>2, <2>5, <3>1
    <2>6. \A q \in wire' : q \in wire \/ q.by = c
      BY <2>2
    <2>7. call'[c].got = {} \/ (IsGet(c) /\ call'[c].pc = "waiting")
      BY <2>2 DEF ReadInv
    <2>8. RejectedRead(c)' <=> RejectedRead(c)
      BY <2>2 DEF RejectedRead
    <2> QED BY <2>2, <2>4, <2>5, <2>6, <2>7, <2>8, ReadKept
  <1>e. ASSUME NEW c, NEW pc, NEW error, Ends(c, pc, error), wire' \subseteq wire,
               ~IsGet(c) \/ call[c].pc \in {"ready", "connecting"}
        PROVE  ReadInv'
    <2>1. c \in Calls /\ Moves(c) /\ call'[c].got = {}
      BY <1>e DEF Ends, Moves
    <2>2. IsGet(c) => \A q \in wire : q.by # c
      <3>1. \A q \in wire : q.by = c /\ IsGet(c) => q.op.kind = "get"
        BY DEF TypeInv, IsSent, IsGet
      <3> QED BY <1>e, <3>1 DEF ReadInv, RejectedRead
    <2> QED BY <1>e, <2>1, <2>2, ReadKept
  <1>3. ASSUME NEW c, PutBeginsIs(c) PROVE ReadInv'
    <2>1. CASE Ends(c, "rejected", "signedOut") /\ UNCHANGED wire
      BY <1>3, <1>e, <2>1 DEF PutBeginsIs
    <2>2. CASE /\ Sets(c, "waiting", 1, session[S(c)])
               /\ Sends(c, 1, session[S(c)].etags[call[c].path])
      BY <1>3, <2>2, SendsRead DEF PutBeginsIs
    <2> QED BY <1>3, <2>1, <2>2 DEF PutBeginsIs
  <1>4. ASSUME NEW c, RequestBeginsIs(c) PROVE ReadInv'
    BY <1>4, SendsRead DEF RequestBeginsIs
  <1>5. ASSUME NEW c, ConnectedIs(c) PROVE ReadInv'
    <2>1. CASE Ends(c, "rejected", "signedOut") /\ UNCHANGED wire
      BY <1>5, <1>e, <2>1 DEF ConnectedIs
    <2>2. CASE Sets(c, "ready", 1, call[c].snap) /\ UNCHANGED wire
      <3>1. c \in Calls /\ Moves(c) /\ call[c].got = {} /\ call'[c].got = {}
        BY <1>5, <2>2 DEF ConnectedIs, Sets, ReadInv
      <3>2. IsGet(c) => \A q \in wire : q.by # c
        <4>1. \A q \in wire : q.by = c /\ IsGet(c) => q.op.kind = "get"
          BY DEF TypeInv, IsSent, IsGet
        <4> QED BY <1>5, <4>1 DEF ReadInv, RejectedRead, ConnectedIs
      <3> QED BY <2>2, <3>1, <3>2, ReadKept
    <2>3. CASE Sets(c, "waiting", 2, call[c].snap) /\ Sends(c, 2, call[c].snap.etags[call[c].path])
      BY <1>5, <2>3, SendsRead DEF ConnectedIs
    <2> QED BY <1>5, <2>1, <2>2, <2>3 DEF ConnectedIs
  <1>6. ASSUME NEW c, ConnectFailsIs(c) PROVE ReadInv'
    BY <1>6, <1>e DEF ConnectFailsIs
  <1>7. ASSUME NEW c, PutResolvesIs(c) PROVE ReadInv'
    BY <1>7, <1>e DEF PutResolvesIs, IsPut, IsGet, Unserved
  <1>8. ASSUME NEW c, NEW r, PutFailsIs(c, r) PROVE ReadInv'
    <2>1. c \in Calls /\ Moves(c) /\ ~IsGet(c) /\ call'[c].got \in {call[c].got, {}} /\ wire' \subseteq wire
      BY <1>8 DEF PutFailsIs, StartsOver, Sets, Ends, IsPut, IsGet, Unserved
    <2> QED BY <2>1, ReadApart
  <1>9. ASSUME NEW c, NEW r, DeleteContinuesIs(c, r) PROVE ReadInv'
    <2>1. /\ c \in Calls /\ (Moves(c) \/ UNCHANGED call) /\ ~IsGet(c)
          /\ call'[c].got \in {call[c].got, {}} /\ \A q \in wire' : q \in wire \/ q.by = c
      BY <1>9 DEF DeleteContinuesIs, IsDelete, IsGet, Ends, Asks
    <2> QED BY <2>1, ReadApart
  <1>10. ASSUME NEW c, NEW r, DeleteFailsIs(c, r) PROVE ReadInv'
    <2>1. c \in Calls /\ Moves(c) /\ ~IsGet(c) /\ call'[c].got \in {call[c].got, {}} /\ wire' \subseteq wire
      BY <1>10 DEF DeleteFailsIs, StartsOver, Sets, Ends, IsDelete, IsGet
    <2> QED BY <2>1, ReadApart
  <1>11. ASSUME NEW r, GetReplyIs(r) PROVE ReadInv'
    BY <1>11, GetReplyRead
  <1>u. ASSUME UNCHANGED <<call, wire>> PROVE ReadInv'
    BY <1>u DEF ReadInv, IsGet, RejectedRead, Calls
  <1>12. ASSUME NEW s, SignOutIs(s) PROVE ReadInv'
    BY <1>12, <1>u DEF SignOutIs
  <1>13. CASE Quiet
    BY <1>13, <1>u DEF Quiet
  <1> QED BY <1>1, <1>2, <1>3, <1>4, <1>5, <1>6, <1>7, <1>8, <1>9, <1>10, <1>11, <1>12, <1>13,
             NextShape

\* What has ended stays as it is, so who is alone was.
LEMMA AloneBefore ==
    ASSUME TypeInv, KeepsCalls, \A d \in Calls : ~Running(d) => call'[d].pc = call[d].pc
    PROVE  \A c \in Calls : Alone(c)' => Alone(c)
  <1>1. \A d \in Calls : RejectedRead(d) => RejectedRead(d)'
    BY DEF RejectedRead, Running, KeepsCalls
  <1>2. \A d \in Calls : d \in Calls' /\ S(d)' = S(d) /\ call'[d].path = call[d].path
    BY DEF KeepsCalls, S
  <1> QED BY <1>1, <1>2 DEF Alone

\* The deletes that are remembered, and what is left to say of the stores.
Forgotten(c) == IsDelete(c) /\ call[c].pc = "resolved" /\ Alone(c)

\* The only call a session has under way is its last.
LEMMA LastRuns ==
    ASSUME TypeInv, ForgetInv, NEW c \in Calls, Running(c), NEW d \in Calls, S(d) = S(c), d # c
    PROVE  d < c /\ ~Running(d)
  <1>1. c \in Nat /\ d \in Nat
    BY CallFacts
  <1>2. d <= c /\ (Running(d) => c <= d)
    BY DEF ForgetInv
  <1> QED BY <1>1, <1>2

\* Call c moves, and the stores keep what was forgotten.
LEMMA ForgetKept ==
    ASSUME TypeInv, ForgetInv, NEW c, Moves(c),
           call'[c].snap \in {call[c].snap, session[S(c)], SignedOut},
           Running(c)' \/ call'[c].snap = SignedOut,
           \A d \in Calls : Forgotten(d) /\ Alone(d)' => session'[S(d)].etags[call[d].path] = Absent,
           IsDelete(c) /\ call'[c].pc = "resolved" => session'[S(c)].etags[call[c].path] = Absent
    PROVE  ForgetInv'
  <1>1. /\ c \in Calls /\ Running(c) /\ Calls' = Calls
        /\ \A d \in Calls : d # c => call'[d] = call[d]
        /\ \A d \in Calls : S(d)' = S(d) /\ call'[d].op = call[d].op /\ call'[d].path = call[d].path
    BY DEF Moves, S
  <1>2. \A d \in Calls : (d # c => (Running(d)' <=> Running(d))) /\ (Running(d)' => Running(d))
    BY <1>1 DEF Running
  <1>3. (\A d \in Calls : Running(d) => \A e \in Calls : S(e) = S(d) => e <= d)'
    BY <1>1, <1>2 DEF ForgetInv
  <1>4. (\A d \in Calls : ~Running(d) => call[d].snap = SignedOut)'
    BY <1>1, <1>2 DEF ForgetInv, SignedOut
  <1>5. \A d \in Calls : Alone(d)' => Alone(d)
    BY <1>1, StepKeepsCalls, AloneBefore
  <1>6. \A p \in Paths : SignedOut.etags[p] = Absent
    BY SignedOutTyped
  <1>7. ASSUME NEW d \in Calls, IsDelete(d), call'[d].pc = "resolved", Alone(d)'
        PROVE  /\ session'[S(d)].etags[call[d].path] = Absent
               /\ \A e \in Calls : S(e) = S(d) => call'[e].snap.etags[call[d].path] = Absent
    <2>0. call[d].path \in Paths
      BY CallFacts DEF CallType
    <2>1. CASE d = c
      <3>1. \A e \in Calls : S(e) = S(d) /\ e # c => call'[e].snap = SignedOut
        BY <1>1, <2>1, LastRuns DEF ForgetInv
      <3>2. ~Running(c)'
        BY <1>7, <2>1 DEF Running
      <3> QED BY <1>6, <1>7, <2>0, <2>1, <3>1, <3>2
    <2>2. CASE d # c
      <3>1. Forgotten(d)
        BY <1>1, <1>5, <1>7, <2>2 DEF Forgotten
      <3>2. /\ session[S(d)].etags[call[d].path] = Absent
            /\ \A e \in Calls : S(e) = S(d) => call[e].snap.etags[call[d].path] = Absent
        BY <3>1 DEF ForgetInv, Forgotten, IsDelete
      <3>3. \A e \in Calls : S(e) = S(d) => call'[e].snap.etags[call[d].path] = Absent
        BY <1>1, <1>6, <2>0, <3>2
      <3> QED BY <1>7, <3>1, <3>3
    <2> QED BY <2>1, <2>2
  <1>8. (\A d \in Calls : call[d].op.kind = "delete" /\ call[d].pc = "resolved" /\ Alone(d) =>
           /\ session[S(d)].etags[call[d].path] = Absent
           /\ \A e \in Calls : S(e) = S(d) => call[e].snap.etags[call[d].path] = Absent)'
    <2> SUFFICES ASSUME NEW d \in Calls, call'[d].op.kind = "delete", call'[d].pc = "resolved", Alone(d)'
                 PROVE  /\ session'[S(d)'].etags[call'[d].path] = Absent
                        /\ \A e \in Calls : S(e)' = S(d)' => call'[e].snap.etags[call'[d].path] = Absent
      BY <1>1
    <2> QED BY <1>1, <1>7 DEF IsDelete
  <1> QED BY <1>3, <1>4, <1>8 DEF ForgetInv

\* No call moves.
LEMMA ForgetStays ==
    ASSUME TypeInv, ForgetInv, UNCHANGED call,
           \A d \in Calls : Forgotten(d) => session'[S(d)].etags[call[d].path] = Absent
    PROVE  ForgetInv'
  <1>1. /\ Calls' = Calls
        /\ \A d \in Calls : S(d)' = S(d) /\ (Running(d)' <=> Running(d)) /\ (Alone(d)' <=> Alone(d))
    BY DEF Calls, S, Running, Alone, RejectedRead
  <1>2. (\A c \in Calls : Running(c) => \A d \in Calls : S(d) = S(c) => d <= c)'
    BY <1>1 DEF ForgetInv
  <1>3. (\A c \in Calls : ~Running(c) => call[c].snap = SignedOut)'
    BY <1>1 DEF ForgetInv, SignedOut
  <1>4. ASSUME NEW d \in Calls, IsDelete(d), call[d].pc = "resolved", Alone(d)
        PROVE  /\ session'[S(d)].etags[call[d].path] = Absent
               /\ \A e \in Calls : S(e) = S(d) => call[e].snap.etags[call[d].path] = Absent
    BY <1>4 DEF ForgetInv, Forgotten, IsDelete
  <1>5. (\A d \in Calls : call[d].op.kind = "delete" /\ call[d].pc = "resolved" /\ Alone(d) =>
           /\ session[S(d)].etags[call[d].path] = Absent
           /\ \A e \in Calls : S(e) = S(d) => call[e].snap.etags[call[d].path] = Absent)'
    BY <1>1, <1>4 DEF IsDelete
  <1> QED BY <1>2, <1>3, <1>5 DEF ForgetInv

\* A call is made: nothing of its session is under way.
LEMMA StartForgets ==
    ASSUME TypeInv, ForgetInv, MaxParallel = 1, NEW s, NEW op, NEW p, StartIs(s, op, p)
    PROVE  ForgetInv'
  <1> DEFINE n == Len(call')
             R == {c \in Calls : S(c) = s /\ Running(c)}
  <1>1. R = {}
    <2>1. IsFiniteSet(Calls)
      BY CallFacts, FS_Interval
    <2>2. IsFiniteSet(R)
      BY <2>1, FS_Subset
    <2>3. Cardinality(R) \in Nat /\ Cardinality(R) < 1
      BY <2>2, FS_CardinalityType DEF StartIs
    <2> QED BY <2>2, <2>3, FS_EmptySet
  <1>2. /\ Calls' = Calls \cup {n} /\ n \notin Calls
        /\ \A d \in Calls : call'[d] = call[d] /\ d < n
        /\ call'[n].session = s /\ call'[n].snap = SignedOut /\ call'[n].pc \in {"ready", "connecting"}
        /\ n \in Nat /\ UNCHANGED session
    BY <1>1, CallFacts DEF StartIs, Makes
  <1> HIDE DEF n
  <1>3. \A d \in Calls : S(d)' = S(d) /\ (Running(d)' <=> Running(d)) /\ d \in Nat /\ d <= n
    BY <1>2, CallFacts DEF S, Running
  <1>4. (\A c \in Calls : Running(c) => \A d \in Calls : S(d) = S(c) => d <= c)'
    BY <1>1, <1>2, <1>3 DEF ForgetInv, S
  <1>5. (\A c \in Calls : ~Running(c) => call[c].snap = SignedOut)'
    BY <1>2, <1>3 DEF ForgetInv, SignedOut, Running
  <1>6. \A d \in Calls : Alone(d)' => Alone(d) /\ (s # S(d) \/ call'[n].path # call[d].path)
    <2>1. KeepsCalls /\ \A d \in Calls : call'[d].pc = call[d].pc
      BY <1>2 DEF KeepsCalls, S
    <2>2. \A d \in Calls : Alone(d)' => Alone(d)
      BY <2>1, AloneBefore
    <2>3. \A d \in Calls : Alone(d)' => s # S(d) \/ call'[n].path # call[d].path
      BY <1>2, <1>3 DEF Alone, S
    <2> QED BY <2>2, <2>3
  <1>7. (\A d \in Calls : call[d].op.kind = "delete" /\ call[d].pc = "resolved" /\ Alone(d) =>
           /\ session[S(d)].etags[call[d].path] = Absent
           /\ \A e \in Calls : S(e) = S(d) => call[e].snap.etags[call[d].path] = Absent)'
    <2> SUFFICES ASSUME NEW d \in Calls', call'[d].op.kind = "delete", call'[d].pc = "resolved", Alone(d)'
                 PROVE  /\ session'[S(d)'].etags[call'[d].path] = Absent
                        /\ \A e \in Calls' : S(e)' = S(d)' => call'[e].snap.etags[call'[d].path] = Absent
      OBVIOUS
    <2>1. d \in Calls /\ call'[d] = call[d] /\ Alone(d) /\ call[d].path \in Paths
      BY <1>2, <1>6, CallFacts DEF CallType
    <2>2. /\ session[S(d)].etags[call[d].path] = Absent
          /\ \A e \in Calls : S(e) = S(d) => call[e].snap.etags[call[d].path] = Absent
      BY <2>1 DEF ForgetInv
    <2>3. SignedOut.etags[call[d].path] = Absent
      BY <2>1, SignedOutTyped
    <2>4. S(d)' = S(d) /\ session'[S(d)'].etags[call'[d].path] = Absent
      BY <1>2, <1>3, <2>1, <2>2
    <2>5. ASSUME NEW e \in Calls', S(e)' = S(d)' PROVE call'[e].snap.etags[call'[d].path] = Absent
      <3>1. CASE e \in Calls
        BY <1>2, <1>3, <2>1, <2>2, <2>5, <3>1
      <3>2. CASE e = n
        BY <1>2, <2>1, <2>3, <3>2
      <3> QED BY <1>2, <3>1, <3>2
    <2> QED BY <2>4, <2>5
  <1> QED BY <1>4, <1>5, <1>7 DEF ForgetInv

LEMMA NextForgets ==
    ASSUME MaxParallel = 1, TypeInv, ReadInv, ForgetInv, [Next]_vars
    PROVE  ForgetInv'
  <1>f. \A d \in Calls : Forgotten(d) =>
           /\ session[S(d)].etags[call[d].path] = Absent
           /\ \A e \in Calls : S(e) = S(d) => call[e].snap.etags[call[d].path] = Absent
    BY DEF Forgotten, IsDelete, ForgetInv
  <1>p. \A d \in Calls : call[d].path \in Paths /\ S(d) \in Sessions /\ d \in Nat
    BY CallFacts DEF CallType, S
  <1>k. ASSUME UNCHANGED session \/ KeepsEtags
        PROVE  \A d \in Calls : Forgotten(d) => session'[S(d)].etags[call[d].path] = Absent
    BY <1>f, <1>k, <1>p DEF KeepsEtags
  <1>m. ASSUME NEW c, Moves(c), UNCHANGED session \/ KeepsEtags,
               call'[c].snap \in {call[c].snap, session[S(c)], SignedOut},
               Running(c)' \/ call'[c].snap = SignedOut,
               ~(IsDelete(c) /\ call'[c].pc = "resolved")
        PROVE  ForgetInv'
    BY <1>k, <1>m, ForgetKept
  <1>1. ASSUME NEW s, NEW op, NEW p, StartIs(s, op, p) PROVE ForgetInv'
    BY <1>1, StartForgets
  <1>2. ASSUME NEW r, NEW a, NEW reply, NEW etag, Handles(r, a, reply, etag) PROVE ForgetInv'
    BY <1>2, <1>f, ForgetStays DEF Handles
  <1>3. ASSUME NEW c, PutBeginsIs(c) PROVE ForgetInv'
    BY <1>3, <1>m DEF PutBeginsIs, Sets, Ends, Running
  <1>4. ASSUME NEW c, RequestBeginsIs(c) PROVE ForgetInv'
    BY <1>4, <1>m DEF RequestBeginsIs, Sets, Running
  <1>5. ASSUME NEW c, ConnectedIs(c) PROVE ForgetInv'
    <2>1. /\ Moves(c) /\ (UNCHANGED session \/ KeepsEtags)
          /\ call'[c].snap \in {call[c].snap, SignedOut}
          /\ Running(c)' \/ call'[c].snap = SignedOut
          /\ call'[c].pc # "resolved"
      BY <1>5 DEF ConnectedIs, Sets, Ends, Running
    <2> QED BY <1>m, <2>1
  <1>6. ASSUME NEW c, ConnectFailsIs(c) PROVE ForgetInv'
    BY <1>6, <1>m DEF ConnectFailsIs, Ends
  <1>7. ASSUME NEW c, PutResolvesIs(c) PROVE ForgetInv'
    <2>1. /\ c \in Calls /\ Running(c) /\ Moves(c) /\ call'[c].snap = SignedOut /\ IsPut(c)
      BY <1>7 DEF PutResolvesIs, Ends, Running
    <2>2. ASSUME NEW d \in Calls, Forgotten(d), Alone(d)'
          PROVE  session'[S(d)].etags[call[d].path] = Absent
      <3>1. CASE UNCHANGED session
        BY <1>f, <2>2, <3>1
      <3>2. CASE Notes(S(c), call[c].snap.etags, call[c].path, c) /\ S(d) # S(c)
        BY <1>f, <1>p, <2>2, <3>2 DEF Notes
      <3>3. CASE Notes(S(c), call[c].snap.etags, call[c].path, c) /\ S(d) = S(c)
        <4>1. d # c
          BY <2>1, <2>2 DEF Forgotten, IsDelete, IsPut
        <4>2. d < c
          BY <2>1, <3>3, <4>1, LastRuns
        <4>3. Alone(d)
          BY <2>2 DEF Forgotten
        <4>4. call[c].path # call[d].path
          BY <1>p, <2>1, <3>3, <4>2, <4>3 DEF Alone
        <4>5. session'[S(d)].etags[call[d].path] = call[c].snap.etags[call[d].path]
          BY <1>p, <3>3, <4>4 DEF Notes
        <4> QED BY <1>f, <2>1, <2>2, <3>3, <4>5
      <3> QED BY <1>7, <3>1, <3>2, <3>3 DEF PutResolvesIs
    <2> QED BY <2>1, <2>2, ForgetKept DEF IsPut, IsDelete
  <1>8. ASSUME NEW c, NEW r, PutFailsIs(c, r) PROVE ForgetInv'
    <2>1. /\ Moves(c) /\ UNCHANGED session /\ call'[c].snap \in {call[c].snap, SignedOut}
          /\ Running(c)' \/ call'[c].snap = SignedOut
          /\ call'[c].pc # "resolved"
      BY <1>8 DEF PutFailsIs, StartsOver, Sets, Ends, Running
    <2> QED BY <1>m, <2>1
  <1>9. ASSUME NEW c, NEW r, DeleteContinuesIs(c, r) PROVE ForgetInv'
    <2>1. CASE UNCHANGED <<session, call>>
      BY <1>f, <2>1, ForgetStays
    <2>2. CASE /\ Ends(c, "resolved", "none")
               /\ Notes(S(c), session[S(c)].etags, call[c].path, Absent)
      <3>1. c \in Calls /\ Moves(c) /\ call'[c].snap = SignedOut
        BY <2>2 DEF Ends, Moves
      <3>2. \A d \in Calls : Forgotten(d) => session'[S(d)].etags[call[d].path] = Absent
        BY <1>f, <1>p, <2>2 DEF Notes
      <3>3. session'[S(c)].etags[call[c].path] = Absent
        BY <1>p, <2>2, <3>1 DEF Notes
      <3> QED BY <3>1, <3>2, <3>3, ForgetKept
    <2> QED BY <1>9, <2>1, <2>2 DEF DeleteContinuesIs
  <1>10. ASSUME NEW c, NEW r, DeleteFailsIs(c, r) PROVE ForgetInv'
    <2>1. /\ Moves(c) /\ UNCHANGED session /\ call'[c].snap \in {call[c].snap, SignedOut}
          /\ Running(c)' \/ call'[c].snap = SignedOut
          /\ call'[c].pc # "resolved"
      BY <1>10 DEF DeleteFailsIs, StartsOver, Sets, Ends, Running
    <2> QED BY <1>m, <2>1
  <1>11. ASSUME NEW r, GetReplyIs(r) PROVE ForgetInv'
    <2>1. PICK c \in Calls : c = r.by /\ IsGet(c)
      BY <1>11 DEF GetReplyIs, TypeInv, IsSent, IsGet
    <2>2. call[c].pc = "waiting" \/ RejectedRead(c)
      BY <1>11, <2>1 DEF GetReplyIs, ReadInv
    <2>3. ASSUME NEW d \in Calls, Forgotten(d)
          PROVE  session'[S(d)].etags[call[d].path] = Absent
      <3>1. CASE UNCHANGED session
        BY <1>f, <2>3, <3>1
      <3>2. CASE Notes(S(c), session[S(c)].etags, call[c].path, r.etag) /\ S(d) # S(c)
        BY <1>f, <1>p, <2>3, <3>2 DEF Notes
      <3>3. CASE Notes(S(c), session[S(c)].etags, call[c].path, r.etag) /\ S(d) = S(c)
        <4>1. d # c /\ Alone(d)
          BY <2>1, <2>3 DEF Forgotten, IsDelete, IsGet
        <4>2. call[c].pc = "waiting" => d < c
          BY <3>3, <4>1, LastRuns DEF Running
        <4>3. call[c].path # call[d].path
          BY <1>p, <2>2, <3>3, <4>1, <4>2 DEF Alone
        <4>4. session'[S(d)].etags[call[d].path] = session[S(d)].etags[call[d].path]
          BY <1>p, <3>3, <4>3 DEF Notes
        <4> QED BY <1>f, <2>3, <4>4
      <3> QED BY <1>11, <2>1, <3>1, <3>2, <3>3 DEF GetReplyIs, ReplyNoted
    <2>4. CASE UNCHANGED call
      BY <2>3, <2>4, ForgetStays
    <2>5. CASE Reads(c, Got(r)) \/ \E pc, error : Ends(c, pc, error)
      <3>1. Moves(c) /\ call'[c].snap \in {call[c].snap, SignedOut} /\ ~IsDelete(c)
        BY <2>1, <2>5 DEF Reads, Ends, IsGet, IsDelete
      <3>2. Running(c)' \/ call'[c].snap = SignedOut
        BY <2>5 DEF Reads, Ends, Moves, Running
      <3> QED BY <2>3, <3>1, <3>2, ForgetKept
    <2> QED BY <1>11, <2>1, <2>4, <2>5 DEF GetReplyIs, ReplyRead
  <1>12. ASSUME NEW s, SignOutIs(s) PROVE ForgetInv'
    <2>1. \A d \in Calls : Forgotten(d) => session'[S(d)].etags[call[d].path] = Absent
      BY <1>12, <1>f, <1>p DEF SignOutIs
    <2> QED BY <1>12, <2>1, ForgetStays DEF SignOutIs
  <1>13. CASE Quiet
    BY <1>13, <1>f, ForgetStays DEF Quiet
  <1> QED BY <1>1, <1>2, <1>3, <1>4, <1>5, <1>6, <1>7, <1>8, <1>9, <1>10, <1>11, <1>12, <1>13,
             NextShape

\* In a session that makes one call at a time, a resolved deleteFile leaves no etag of
\* the path, whatever the calls of other sessions do and whatever arrives late.
THEOREM DeletesAreForgotten == MaxParallel = 1 => (Spec => []DeletedIsForgotten)
  <1> SUFFICES ASSUME MaxParallel = 1 PROVE Spec => []DeletedIsForgotten
    OBVIOUS
  <1>1. Init => ReadInv /\ ForgetInv
    BY DEF Init, ReadInv, ForgetInv, Calls
  <1>2. TypeInv /\ ReadInv /\ ForgetInv /\ [Next]_vars => (ReadInv /\ ForgetInv)'
    BY NextRead, NextForgets
  <1>3. ForgetInv => DeletedIsForgotten
    BY DEF ForgetInv, DeletedIsForgotten, Alone, RejectedRead
  <1> QED BY <1>1, <1>2, <1>3, Typed, PTL DEF Spec
=============================================================================
