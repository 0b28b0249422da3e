------------------------------ MODULE InferTask ------------------------------
(***************************************************************************)
(* Inference tasks.  An application submits one with submitInferenceTask   *)
(* or submitEncryptedInferenceTask of the FunaiNodeApi client              *)
(* (packages/api), or builds the transaction itself with makeInfer and     *)
(* gives it to submitInferenceTask of packages/transactions; then it waits *)
(* with waitForInferenceResult.  All of them sign through makeInfer, with  *)
(* its queries (fetchNonce, fetchFeeEstimate).                             *)
(*                                                                         *)
(* Each call is an application that submits, submits again with the same   *)
(* options if that failed, and waits for the task it was told.  All calls  *)
(* use one account.  The node, the signer service and the inference nodes  *)
(* behind it are external: a submission whose request failed for the       *)
(* client may be lost, or arrive at any later time.                        *)
(***************************************************************************)
EXTENDS Integers, Sequences, FiniteSets, FiniteSetsExt

CONSTANTS
    Calls,         \* applications
    Options,       \* the options of each call
    Ends,          \* how a task may end
    NoNonce,       \* the nonce option is left out
    Timeout,       \* timeoutMs, in ticks of the clock
    PollInterval,  \* pollIntervalMs, in ticks
    MaxTries,      \* bound: submissions by an application
    MaxFaults      \* bound: requests that fail

ASSUME TaskAssumption ==
    /\ Options \in [Calls -> [via: {"plain", "encrypted", "built"}, fee: BOOLEAN,
                              nonce: Nat \cup {NoNonce}]]
    /\ Ends \subseteq {"completed", "failed", "timeout"}
    /\ NoNonce \notin Nat
    /\ {Timeout, PollInterval, MaxFaults} \subseteq Nat /\ MaxTries \in Nat \ {0}

VARIABLES
    call,    \* the calls: where each is, and what it has read
    tasks,   \* the submissions the service took on, in order, and their status
    stray,   \* submissions under way that no client waits for
    mined,   \* the account's nonce in the chain
    faults   \* requests that failed so far

vars == <<call, tasks, stray, mined, faults>>
service == <<tasks, stray, mined, faults>>

NoReply == [kind |-> "none", value |-> 0]
Idle(o) == [phase |-> "idle", opt |-> o, try |-> 0, reply |-> NoReply, txNonce |-> NoNonce,
            task |-> 0, elapsed |-> 0, timer |-> 0, outcome |-> "none",
            late |-> 0, seen |-> 0, fellBack |-> FALSE]

Ended   == {"resolved", "rejected"}
Awaits  == {"key", "fee", "rate", "nonce", "account", "submit", "poll"}
Phases  == {"idle", "sleep"} \cup Awaits \cup Ended

Init ==
    /\ call = [c \in Calls |-> Idle(Options[c])]
    /\ tasks = <<>> /\ stray = {}
    /\ mined = 0 /\ faults = 0

-----------------------------------------------------------------------------
(* What is submitted.                                                      *)

Plain(c)          == <<"plain", c>>
Encrypted(c, try) == <<"encrypted", c, try>>  \* ephemeral keys: new every time
Hash(x)           == <<"hash", x>>

\* Mutation: a nonce of zero is taken for none.
TruthyNonce(o) == o.nonce \notin {NoNonce, 0}

\* Mutation: the nonce is never fetched.
NeverFetched(o) == TRUE

\* makeUnsignedInfer: nonce == null.
NonceGiven(o) == o.nonce # NoNonce

\* The client's submit calls hand the builder an own fee and an own nonce: one that
\* was left out overwrites the builder's default, and intToBigInt(undefined) throws.
LeavesOut(o) == o.via # "built" /\ (~o.fee \/ o.nonce = NoNonce)

\* The nonce field of the request: options.nonce ? ... : undefined, or the one in the
\* transaction.
RequestNonce(w) ==
    IF w.opt.via = "built" THEN w.txNonce
    ELSE IF w.opt.nonce \in {NoNonce, 0} THEN NoNonce ELSE w.opt.nonce

Encrypts(o) == o.via = "encrypted"

\* The input in the request, and in the transaction.
apiUserInput(c, try, o) == IF Encrypts(o) THEN Encrypted(c, try) ELSE Plain(c)

\* Mutation: the placeholder is made of the plaintext.
HashOfPlaintext(c, try, o) == IF Encrypts(o) THEN Hash(Plain(c)) ELSE Plain(c)

txUserInput(c, try, o) ==
    IF Encrypts(o) THEN Hash(apiUserInput(c, try, o)) ELSE apiUserInput(c, try, o)

Submission(c) ==
    LET w == call[c]
    IN  [by |-> c, try |-> w.try, encrypted |-> Encrypts(w.opt),
         txNonce |-> w.txNonce, nonce |-> RequestNonce(w),
         txInput |-> txUserInput(c, w.try, w.opt),
         input   |-> apiUserInput(c, w.try, w.opt)]

-----------------------------------------------------------------------------
(* Awaiting a reply.                                                       *)

\* What c does next: it sends a request and awaits the reply, or it is over.
Goes(c, phase)   == [call[c] EXCEPT !.phase = phase, !.reply = NoReply, !.outcome = "none"]
Rejects(c, why)  == [Goes(c, "rejected") EXCEPT !.outcome = why]
Becomes(c, w)    == call' = [call EXCEPT ![c] = w] /\ UNCHANGED service

Answered(c, phase) == call[c].phase = phase /\ call[c].reply.kind # "none"
ReplyIs(c, kind)   == call[c].reply.kind = kind

\* Mutation: the account's nonce is asked for at once.
AccountAtOnce(o) == IF NonceGiven(o) THEN "submit" ELSE "account"

AfterFee(o) == IF NonceGiven(o) THEN "submit" ELSE "nonce"

\* makeInfer: its first query, or none.
Makes(c) ==
    LET o == call[c].opt
    IN  IF LeavesOut(o) THEN Rejects(c, "badOption")
        ELSE Goes(c, IF o.fee THEN AfterFee(o) ELSE "fee")

\* The call begins, for the first time or again.
Begins(c) ==
    LET o == call[c].opt
    IN  Becomes(c, [(IF Encrypts(o) THEN Goes(c, "key") ELSE Makes(c)) EXCEPT
                        !.try = @ + 1, !.txNonce = o.nonce,
                        !.fellBack = FALSE, !.seen = Len(tasks)])

Submit(c) == call[c].phase = "idle" /\ Begins(c)

\* External: the application repeats a submission that was rejected.
SubmitAgain(c) ==
    /\ call[c].phase = "rejected" /\ call[c].task = 0
    /\ call[c].try < MaxTries
    /\ Begins(c)

-----------------------------------------------------------------------------
(* Submitting.                                                             *)

\* getSignerPublicKey; then the input and the context are encrypted.
KeyFetched(c) ==
    /\ Answered(c, "key")
    /\ Becomes(c, IF ReplyIs(c, "ok") THEN Makes(c) ELSE Rejects(c, "noKey"))

\* fetchFeeEstimate falls back when there is no estimate, and only then.
FeeEstimated(c) ==
    /\ Answered(c, "fee")
    /\ Becomes(c, CASE ReplyIs(c, "ok")         -> Goes(c, AfterFee(call[c].opt))
                    [] ReplyIs(c, "noEstimate") -> Goes(c, "rate")
                    [] OTHER                    -> Rejects(c, "noFee"))

FeeRateFetched(c) ==
    /\ Answered(c, "rate")
    /\ Becomes(c, IF ReplyIs(c, "ok") THEN Goes(c, AfterFee(call[c].opt))
                  ELSE Rejects(c, "noFee"))

\* fetchNonce: _getNonceApi, and the account's nonce when that fails.
NonceFetched(c) ==
    /\ Answered(c, "nonce")
    /\ Becomes(c, IF ReplyIs(c, "ok")
                  THEN [Goes(c, "submit") EXCEPT !.txNonce = call[c].reply.value]
                  ELSE [Goes(c, "account") EXCEPT !.fellBack = TRUE])

AccountFetched(c) ==
    /\ Answered(c, "account")
    /\ Becomes(c, IF ReplyIs(c, "ok")
                  THEN [Goes(c, "submit") EXCEPT !.txNonce = call[c].reply.value]
                  ELSE Rejects(c, "noNonce"))

\* submitInferTask, or submitInferenceTask of packages/transactions; the application
\* then waits for the task it is told.
Submitted(c) ==
    /\ Answered(c, "submit")
    /\ Becomes(c, IF ReplyIs(c, "ok")
                  THEN [Goes(c, "poll") EXCEPT !.task = call[c].reply.value]
                  ELSE Rejects(c, "notSubmitted"))

-----------------------------------------------------------------------------
(* waitForInferenceResult.                                                 *)

\* Mutations: the time is checked before the status; it is never checked.
TimeoutFirst(status, elapsed) ==
    IF elapsed > Timeout THEN "gaveUp" ELSE IF status = "pending" THEN "none" ELSE status
NeverGivesUp(status, elapsed) == IF status = "pending" THEN "none" ELSE status

Verdict(status, elapsed) ==
    CASE status # "pending" -> status
      [] status = "pending" /\ elapsed > Timeout -> "gaveUp"
      [] OTHER -> "none"

\* One round of the loop: the status, the time, the pause.
PollAnswered(c) ==
    /\ Answered(c, "poll")
    /\ LET w       == call[c]
           verdict == Verdict(w.reply.value, w.elapsed)
       IN  Becomes(c, CASE ~ReplyIs(c, "ok")       -> Rejects(c, "queryFailed")
                        [] ReplyIs(c, "ok") /\ verdict = "completed" ->
                              [w EXCEPT !.phase = "resolved", !.outcome = verdict]
                        [] ReplyIs(c, "ok") /\ verdict = "none" ->
                              [Goes(c, "sleep") EXCEPT !.timer = PollInterval]
                        [] OTHER -> [w EXCEPT !.phase = "rejected", !.outcome = verdict])

IsLate(w) == w.elapsed > Timeout

\* Mutation: the clock starts with every round.
AwakeAnew(w) == [w EXCEPT !.phase = "poll", !.elapsed = 0]

\* late counts the polls that begin after the deadline.
Awake(w) == [w EXCEPT !.phase = "poll", !.late = IF IsLate(w) /\ @ < 2 THEN @ + 1 ELSE @]

\* The timer of the pause fires, now or later.
Wake(c) ==
    /\ call[c].phase = "sleep" /\ call[c].timer = 0
    /\ Becomes(c, Awake(call[c]))

\* Time passes for the calls that wait; once a deadline is over, how long does
\* not matter.
Ticked(w) ==
    IF w.phase \notin {"poll", "sleep"} THEN w
    ELSE [w EXCEPT !.elapsed = IF IsLate(w) THEN @ ELSE @ + 1,
                   !.timer   = IF @ = 0 THEN 0 ELSE @ - 1]

Tick ==
    /\ \E c \in Calls : Ticked(call[c]) # call[c]
    /\ call' = [c \in Calls |-> Ticked(call[c])]
    /\ UNCHANGED service

-----------------------------------------------------------------------------
(* The node and the service (external).                                    *)

Used == {tasks[i].sub.txNonce : i \in DOMAIN tasks}

\* possible_next_nonce counts the transactions that are not mined yet.
possible_next_nonce == Max({mined - 1} \cup Used) + 1

Reply(c, kind, value) ==
    call' = [call EXCEPT ![c].reply = [kind |-> kind, value |-> value]]

TakesOn(sub) == tasks' = Append(tasks, [sub |-> sub, status |-> "pending"])

Pending(c, phase) == call[c].phase = phase /\ ReplyIs(c, "none")

ServeQuery(c) ==
    /\ \/ /\ \E phase \in {"key", "fee", "rate"} : Pending(c, phase)
          /\ Reply(c, "ok", 0)
       \/ Pending(c, "fee") /\ Reply(c, "noEstimate", 0)
       \/ Pending(c, "account") /\ Reply(c, "ok", mined)
       \/ /\ Pending(c, "nonce")
          /\ call' = [call EXCEPT ![c].reply = [kind |-> "ok", value |-> possible_next_nonce],
                                  ![c].seen  = Len(tasks)]
       \/ Pending(c, "poll") /\ Reply(c, "ok", tasks[call[c].task].status)
    /\ UNCHANGED service

\* A transaction at a nonce that was used is refused; any other becomes a task,
\* and pays.
ServeSubmission(c) ==
    /\ Pending(c, "submit")
    /\ IF call[c].txNonce \in Used
       THEN Reply(c, "refused", 0) /\ UNCHANGED tasks
       ELSE Reply(c, "ok", Len(tasks) + 1) /\ TakesOn(Submission(c))
    /\ UNCHANGED <<stray, mined, faults>>

\* The request fails for the client; a submission may still arrive.
Fault(c) ==
    /\ call[c].phase \in Awaits /\ ReplyIs(c, "none")
    /\ faults < MaxFaults /\ faults' = faults + 1
    /\ Reply(c, "failed", 0)
    /\ stray' = IF call[c].phase = "submit" THEN stray \cup {Submission(c)} ELSE stray
    /\ UNCHANGED <<tasks, mined>>

Arrive(sub) ==
    /\ stray' = stray \ {sub}
    /\ IF sub.txNonce \in Used THEN UNCHANGED tasks ELSE TakesOn(sub)
    /\ UNCHANGED <<call, mined, faults>>

Mine ==
    /\ mined \in Used
    /\ mined' = mined + 1
    /\ UNCHANGED <<call, tasks, stray, faults>>

\* An inference node reports the result with completeTask, or the task fails or
\* runs out of its own time.
End(i, status) ==
    /\ tasks[i].status = "pending"
    /\ tasks' = [tasks EXCEPT ![i].status = status]
    /\ UNCHANGED <<call, stray, mined, faults>>

-----------------------------------------------------------------------------
Resume(c) ==
    \/ KeyFetched(c)
    \/ FeeEstimated(c)
    \/ FeeRateFetched(c)
    \/ NonceFetched(c)
    \/ AccountFetched(c)
    \/ Submitted(c)
    \/ PollAnswered(c)
    \/ Wake(c)

Next ==
    \/ \E c \in Calls : Submit(c)
    \/ \E c \in Calls : SubmitAgain(c)
    \/ \E c \in Calls : Resume(c)
    \/ Tick
    \/ \E c \in Calls : ServeQuery(c)
    \/ \E c \in Calls : ServeSubmission(c)
    \/ \E c \in Calls : Fault(c)
    \/ \E sub \in stray : Arrive(sub)
    \/ Mine
    \/ \E i \in DOMAIN tasks, status \in Ends : End(i, status)

\* The event loop runs what is ready, time passes, every request is answered.
\* Nothing makes a task end.
Fairness ==
    /\ WF_vars(Tick)
    /\ \A c \in Calls : WF_vars(Resume(c)) /\ WF_vars(ServeQuery(c) \/ ServeSubmission(c))

Spec == Init /\ [][Next]_vars
FairSpec == Spec /\ Fairness

-----------------------------------------------------------------------------
(* Properties.                                                             *)

\* Type correctness: where a call is, and what the service has.
TypeOK ==
    /\ \A c \in Calls :
          LET w == call[c]
          IN  /\ w.phase \in Phases /\ w.opt = Options[c]
              /\ w.try \in 0..MaxTries /\ w.task \in 0..Len(tasks)
              /\ w.txNonce \in Nat \cup {NoNonce}
              /\ w.elapsed \in 0..Timeout + 1 /\ w.timer \in 0..PollInterval
              /\ w.phase \in {"poll", "sleep", "resolved"} => w.task # 0
    /\ \A i \in DOMAIN tasks : tasks[i].sub.txNonce \in Nat
    /\ mined \in Nat /\ faults \in 0..MaxFaults

\* An application that names the nonce pays once, however often it repeats a
\* submission whose reply was lost or that arrives late: the nonce option ends
\* up in the transaction, zero included.
PaysOnceAtItsNonce ==
    \A c \in Calls : call[c].opt.nonce # NoNonce =>
        Cardinality({i \in DOMAIN tasks : tasks[i].sub.by = c}) <= 1

\* A transaction whose application built it with makeInfer and left the nonce to
\* fetchNonce is refused only if another took the nonce meanwhile, or fetchNonce
\* fell back to the account's nonce, which does not count what is not mined yet.
RefusalHasCause ==
    \A c \in Calls :
        (call[c].phase = "submit" /\ ReplyIs(c, "refused") /\ call[c].opt.nonce = NoNonce) =>
            \/ call[c].fellBack
            \/ \E i \in DOMAIN tasks :
                  i > call[c].seen /\ tasks[i].sub.txNonce = call[c].txNonce

\* What the service took on is what was signed: the nonce beside the transaction
\* is the transaction's, if there is one, and its input is the input sent or, of
\* encrypted input, its hash, whichever attempt arrived.
TaskMatchesTransaction ==
    \A i \in DOMAIN tasks :
        LET sub == tasks[i].sub
        IN  /\ sub.nonce \in {NoNonce, sub.txNonce}
            /\ sub.txInput = IF sub.encrypted THEN Hash(sub.input) ELSE sub.input

\* A wait tells how the task ended, and gives up only on a task that had not
\* ended when it last asked, after the timeout.
OutcomeIsTrue ==
    \A c \in Calls :
        LET w == call[c]
        IN  /\ w.outcome \in {"completed", "failed", "timeout"} =>
                  tasks[w.task].status = w.outcome
            /\ w.phase = "resolved" => w.outcome = "completed"
            /\ w.outcome = "gaveUp" => w.reply.value = "pending" /\ IsLate(w)

\* A wait asks at most once after its timeout, however late its timers are.
OneLatePoll == \A c \in Calls : call[c].late <= 1

\* What a call leaves out is filled in, as "set a nonce manually if you don't want
\* builder to fetch" has it: no call is rejected for an option it may leave out.
LeftOutIsFilledIn == \A c \in Calls : call[c].outcome # "badOption"

\* Every call ends, although its task may never.
EveryCallReturns ==
    \A c \in Calls : call[c].phase \notin {"idle"} \cup Ended ~> call[c].phase \in Ended
=============================================================================
