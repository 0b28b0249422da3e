---------------------------- MODULE InferTaskProof ----------------------------
(***************************************************************************)
(* Theorems about InferTask, for every set of calls and their options, any *)
(* timeout and interval, and any number of submissions and faults.         *)
(***************************************************************************)
EXTENDS InferTask, TLAPS, SequenceTheorems, FiniteSetTheorems

-----------------------------------------------------------------------------
(* The inductive invariant.                                                *)

Statuses == {"pending"} \cup Ends
Kinds    == {"none", "ok", "failed", "refused", "noEstimate"}
Outcomes == {"none", "completed", "failed", "timeout", "gaveUp", "noKey", "noFee", "noNonce",
             "notSubmitted", "queryFailed", "badOption"}

OptionSets ==
    [via: {"plain", "encrypted", "built"}, fee: BOOLEAN, nonce: Nat \cup {NoNonce}]

CallRecords ==
    [phase: Phases, opt: OptionSets, try: 0..MaxTries,
     reply: [kind: Kinds, value: Nat \cup Statuses], txNonce: Nat \cup {NoNonce},
     task: Nat, elapsed: 0..Timeout + 1, timer: 0..PollInterval, outcome: Outcomes,
     late: 0..2, seen: Nat, fellBack: BOOLEAN]

Sealed == {"encrypted"} \X Calls \X Nat
Inputs == ({"plain"} \X Calls) \cup Sealed \cup ({"hash"} \X Sealed)

\* What a submission carries agrees with the options of the call that made it.
Signed(sub) ==
    /\ sub.nonce \in {NoNonce, sub.txNonce}
    /\ sub.txInput = IF sub.encrypted THEN Hash(sub.input) ELSE sub.input
    /\ Options[sub.by].nonce # NoNonce => sub.txNonce = Options[sub.by].nonce

Submissions ==
    {sub \in [by: Calls, try: Nat, encrypted: BOOLEAN, txNonce: Nat,
              nonce: Nat \cup {NoNonce}, txInput: Inputs, input: Inputs] : Signed(sub)}

TaskRecords == [sub: Submissions, status: Statuses]

HasTop(S) == \E m \in S : \A n \in S : n <= m

NoncesOf(ts) == {ts[i].sub.txNonce : i \in 1..Len(ts)}

\* No two tasks were paid at the same nonce, and the nonces have a greatest one.
TasksOK(ts) ==
    /\ ts \in Seq(TaskRecords)
    /\ \A i, j \in 1..Len(ts) : ts[i].sub.txNonce = ts[j].sub.txNonce => i = j
    /\ HasTop({-1} \cup NoncesOf(ts))

\* None of the tasks that c saw was paid at nonce n.
Unseen(w, n, ts) == \A i \in 1..w.seen : ts[i].sub.txNonce # n

\* The nonce of a call: the option, or what fetchNonce returned.
NonceOK(w, ts) ==
    /\ w.opt.nonce # NoNonce /\ w.phase # "idle" => w.txNonce = w.opt.nonce
    /\ w.phase \in {"nonce", "account"} => w.opt.nonce = NoNonce
    /\ w.phase = "account" => w.fellBack
    /\ w.phase = "submit" => w.txNonce \in Nat
    /\ w.phase \in {"nonce", "account"} /\ w.reply.kind = "ok" => w.reply.value \in Nat
    /\ w.phase = "nonce" /\ w.reply.kind = "ok" => Unseen(w, w.reply.value, ts)
    /\ w.phase = "submit" /\ w.opt.nonce = NoNonce /\ ~w.fellBack => Unseen(w, w.txNonce, ts)
    /\ w.phase = "submit" /\ w.reply.kind = "refused" => w.txNonce \in NoncesOf(ts)

\* What a call was told of its task is so.
ToldOK(w, ts) ==
    /\ w.task \in 0..Len(ts) /\ w.seen \in 0..Len(ts)
    /\ w.phase \in {"poll", "sleep", "resolved"} => w.task # 0
    /\ w.phase = "sleep" => w.reply = NoReply
    /\ w.phase = "submit" /\ w.reply.kind = "ok" => w.reply.value \in 1..Len(ts)
    /\ w.phase = "poll" /\ w.reply.kind = "ok" =>
          /\ w.reply.value \in Statuses
          /\ w.reply.value # "pending" => ts[w.task].status = w.reply.value

\* What a call returned is so, and it polled once after its deadline, if at all.
OutcomeOK(w, ts) ==
    /\ w.outcome \in {"completed", "failed", "timeout"} =>
          w.task # 0 /\ ts[w.task].status = w.outcome
    /\ w.phase = "resolved" => w.outcome = "completed"
    /\ w.outcome = "gaveUp" => w.reply.value = "pending" /\ IsLate(w)
    /\ w.outcome # "none" => w.phase \in Ended
    /\ w.late \in 0..1
    /\ w.late = 1 => /\ IsLate(w)
                     /\ w.phase = "poll" \/ (w.phase \in Ended /\ w.task # 0)

CallOK(c, w, ts) ==
    /\ w \in CallRecords /\ w.opt = Options[c]
    /\ w.phase = "idle" => w.try = 0
    /\ NonceOK(w, ts) /\ ToldOK(w, ts) /\ OutcomeOK(w, ts)

Inv ==
    /\ DOMAIN call = Calls /\ call = [c \in Calls |-> call[c]]
    /\ \A c \in Calls : CallOK(c, call[c], tasks)
    /\ TasksOK(tasks)
    /\ stray \subseteq Submissions
    /\ mined \in Nat /\ faults \in 0..MaxFaults

-----------------------------------------------------------------------------
(* Nonces.                                                                 *)

\* A set of naturals with a top, and one more number, have a greatest element.
LEMMA MaxIsGreatest ==
    ASSUME NEW S \in SUBSET Nat, HasTop({-1} \cup S), NEW m \in Nat
    PROVE  /\ Max({m - 1} \cup S) \in {m - 1} \cup S
           /\ \A n \in {m - 1} \cup S : Max({m - 1} \cup S) >= n
  <1> DEFINE T == {m - 1} \cup S
  <1>1. PICK t \in {-1} \cup S : \A n \in {-1} \cup S : n <= t
    BY DEF HasTop
  <1>2. \E x \in T : \A y \in T : x >= y
    <2>1. CASE t \in S /\ t >= m - 1
      BY <1>1, <2>1
    <2>2. CASE ~(t \in S /\ t >= m - 1)
      <3>1. \A n \in S : n <= m - 1
        BY <1>1, <2>2
      <3> QED BY <3>1
    <2> QED BY <2>1, <2>2
  <1> QED BY <1>2 DEF Max

\* The nonces of the tasks are natural numbers, and Used is what they are.
LEMMA UsedIsNonces ==
    ASSUME TasksOK(tasks)
    PROVE  Used = NoncesOf(tasks) /\ Used \subseteq Nat
  <1>1. DOMAIN tasks = 1..Len(tasks) /\ \A i \in 1..Len(tasks) : tasks[i] \in TaskRecords
    BY DEF TasksOK
  <1> QED BY <1>1 DEF Used, NoncesOf, TaskRecords, Submissions

\* The nonce the node offers has not been used.
LEMMA NextNonceIsFree ==
    ASSUME TasksOK(tasks), mined \in Nat
    PROVE  possible_next_nonce \in Nat /\ possible_next_nonce \notin NoncesOf(tasks)
  <1> DEFINE M == Max({mined - 1} \cup Used)
  <1>1. Used \in SUBSET Nat /\ Used = NoncesOf(tasks) /\ HasTop({-1} \cup Used)
    BY UsedIsNonces DEF TasksOK
  <1>2. M \in {mined - 1} \cup Used /\ \A n \in {mined - 1} \cup Used : M >= n
    BY <1>1, MaxIsGreatest
  <1>3. possible_next_nonce = M + 1
    BY DEF possible_next_nonce
  <1> HIDE DEF M
  <1> QED BY <1>1, <1>2, <1>3

-----------------------------------------------------------------------------
(* How the tasks change.                                                   *)

\* The tasks with one more.
Joined(ts, sub) == Append(ts, [sub |-> sub, status |-> "pending"])

\* A task at a nonce that was not used joins the others, which do not change.
LEMMA TaskJoins ==
    ASSUME NEW ts, TasksOK(ts), NEW sub \in Submissions, sub.txNonce \notin NoncesOf(ts)
    PROVE  /\ TasksOK(Joined(ts, sub)) /\ Len(Joined(ts, sub)) = Len(ts) + 1
           /\ \A i \in 1..Len(ts) : Joined(ts, sub)[i] = ts[i]
  <1> DEFINE us == Joined(ts, sub)
             t == [sub |-> sub, status |-> "pending"]
  <1>1. ts \in Seq(TaskRecords) /\ Len(ts) \in Nat
    BY DEF TasksOK
  <1>2. t \in TaskRecords /\ t.sub = sub
    BY DEF TaskRecords, Statuses
  <1>3. /\ us \in Seq(TaskRecords) /\ Len(us) = Len(ts) + 1
        /\ \A i \in 1..Len(ts) : us[i] = ts[i]
        /\ us[Len(ts) + 1] = t
    BY <1>1, <1>2, AppendProperties DEF Joined
  <1> HIDE DEF t, us
  <1>4. NoncesOf(us) = NoncesOf(ts) \cup {sub.txNonce}
    BY <1>1, <1>2, <1>3 DEF NoncesOf
  <1>5. \A i, j \in 1..Len(us) : us[i].sub.txNonce = us[j].sub.txNonce => i = j
    <2>1. \A i, j \in 1..Len(ts) : us[i].sub.txNonce = us[j].sub.txNonce => i = j
      BY <1>3 DEF TasksOK
    <2>2. \A i \in 1..Len(ts) : us[i].sub.txNonce # us[Len(ts) + 1].sub.txNonce
      BY <1>2, <1>3 DEF NoncesOf
    <2>3. 1..Len(us) = 1..Len(ts) \cup {Len(ts) + 1}
      BY <1>1, <1>3
    <2> QED BY <2>1, <2>2, <2>3
  <1>6. HasTop({-1} \cup NoncesOf(us))
    <2>1. sub.txNonce \in Nat /\ NoncesOf(ts) \subseteq Nat
      <3>1. \A x \in Submissions : x.txNonce \in Nat
        BY DEF Submissions
      <3>2. \A i \in 1..Len(ts) : ts[i] \in TaskRecords
        BY <1>1, ElementOfSeq
      <3>3. \A i \in 1..Len(ts) : ts[i].sub \in Submissions
        BY <3>2 DEF TaskRecords
      <3> QED BY <3>1, <3>3 DEF NoncesOf
    <2>2. PICK m \in {-1} \cup NoncesOf(ts) : \A n \in {-1} \cup NoncesOf(ts) : n <= m
      BY DEF TasksOK, HasTop
    <2>3. CASE sub.txNonce <= m
      BY <1>4, <2>1, <2>2, <2>3 DEF HasTop
    <2>4. CASE ~(sub.txNonce <= m)
      <3>1. \A n \in {-1} \cup NoncesOf(us) : n <= sub.txNonce
        BY <1>4, <2>1, <2>2, <2>4
      <3>2. sub.txNonce \in {-1} \cup NoncesOf(us)
        BY <1>4
      <3> QED BY <3>1, <3>2 DEF HasTop
    <2> QED BY <2>3, <2>4
  <1> QED BY <1>3, <1>4, <1>5, <1>6 DEF TasksOK, us

\* A task ends: its submission stays, and so do the other tasks.
LEMMA TaskEnds ==
    ASSUME NEW ts, TasksOK(ts), NEW i \in 1..Len(ts), NEW status \in Statuses,
           NEW us, us = [ts EXCEPT ![i].status = status]
    PROVE  /\ TasksOK(us) /\ Len(us) = Len(ts)
           /\ \A j \in 1..Len(ts) : us[j].sub = ts[j].sub /\ (j # i => us[j] = ts[j])
           /\ NoncesOf(us) = NoncesOf(ts)
  <1> DEFINE t == [ts[i] EXCEPT !.status = status]
  <1>1. ts \in Seq(TaskRecords) /\ ts[i] \in TaskRecords
    BY DEF TasksOK
  <1>2. t \in TaskRecords /\ t.sub = ts[i].sub
    BY <1>1 DEF TaskRecords
  <1>3. us = [ts EXCEPT ![i] = t]
    OBVIOUS
  <1> HIDE DEF t
  <1>4. us \in Seq(TaskRecords) /\ Len(us) = Len(ts) /\ us[i] = t
    BY <1>1, <1>2, <1>3, ExceptSeq
  <1>5. \A j \in 1..Len(ts) : us[j].sub = ts[j].sub /\ (j # i => us[j] = ts[j])
    BY <1>1, <1>2, <1>3
  <1>6. NoncesOf(us) = NoncesOf(ts)
    BY <1>4, <1>5 DEF NoncesOf
  <1>7. \A j, k \in 1..Len(us) : us[j].sub.txNonce = us[k].sub.txNonce => j = k
    BY <1>4, <1>5 DEF TasksOK
  <1>8. TasksOK(us)
    <2>1. HasTop({-1} \cup NoncesOf(us))
      BY <1>6 DEF TasksOK
    <2> QED BY <1>4, <1>7, <2>1 DEF TasksOK
  <1> QED BY <1>4, <1>5, <1>6, <1>8

\* What a call was told stays so when tasks join or end.
LEMMA CallSurvives ==
    ASSUME NEW c \in Calls, NEW w, NEW ts, NEW us, CallOK(c, w, ts),
           Len(ts) \in Nat, Len(us) \in Nat, Len(us) >= Len(ts),
           \A i \in 1..Len(ts) : /\ us[i].sub = ts[i].sub
                                 /\ ts[i].status # "pending" => us[i].status = ts[i].status
    PROVE  CallOK(c, w, us)
  <1>1. w \in CallRecords /\ w.opt = Options[c] /\ w.task \in Nat /\ w.seen \in Nat
    BY DEF CallOK, CallRecords
  <1>2. NoncesOf(ts) \subseteq NoncesOf(us)
    BY DEF NoncesOf
  <1>3. w.seen <= Len(ts) /\ w.task <= Len(ts)
    BY <1>1 DEF CallOK, ToldOK
  <1>4. \A n : Unseen(w, n, ts) => Unseen(w, n, us)
    BY <1>1, <1>3 DEF Unseen
  <1>5. NonceOK(w, us)
    BY <1>2, <1>4 DEF CallOK, NonceOK
  <1>6. ToldOK(w, us)
    BY <1>1, <1>3 DEF CallOK, ToldOK, Ended
  <1>7. OutcomeOK(w, us)
    BY <1>1, <1>3 DEF CallOK, OutcomeOK
  <1> QED BY <1>1, <1>5, <1>6, <1>7 DEF CallOK

-----------------------------------------------------------------------------
(* How a call changes.                                                     *)

\* The invariant stays when a call changes to a record that is right.
LEMMA CallChanges ==
    ASSUME Inv, NEW c \in Calls, NEW w, CallOK(c, w, tasks),
           call' = [call EXCEPT ![c] = w], UNCHANGED <<tasks, stray, mined>>,
           faults' \in 0..MaxFaults
    PROVE  Inv'
  <1>1. call' = [d \in Calls |-> IF d = c THEN w ELSE call[d]]
    BY DEF Inv
  <1>2. DOMAIN call' = Calls /\ call' = [d \in Calls |-> call'[d]]
    BY <1>1
  <1>3. \A d \in Calls : CallOK(d, call'[d], tasks)
    BY <1>1 DEF Inv
  <1>4. \A d \in Calls : CallOK(d, call'[d], tasks')
    BY <1>3
  <1>5. TasksOK(tasks')
    BY DEF Inv
  <1> QED BY <1>2, <1>4, <1>5 DEF Inv

\* v is w but for the phase, the reply and the outcome.
SameBut(v, w) ==
    /\ v.opt = w.opt /\ v.try = w.try /\ v.txNonce = w.txNonce /\ v.task = w.task
    /\ v.elapsed = w.elapsed /\ v.timer = w.timer
    /\ v.late = w.late /\ v.seen = w.seen /\ v.fellBack = w.fellBack

\* What Goes changes: the phase, the reply and the outcome.
LEMMA GoesOn ==
    ASSUME NEW c \in Calls, call[c] \in CallRecords, NEW phase \in Phases
    PROVE  /\ Goes(c, phase) \in CallRecords
           /\ Goes(c, phase).phase = phase /\ Goes(c, phase).reply = NoReply
           /\ Goes(c, phase).outcome = "none" /\ SameBut(Goes(c, phase), call[c])
  <1>1. NoReply \in [kind: Kinds, value: Nat \cup Statuses] /\ "none" \in Outcomes
    BY DEF NoReply, Kinds, Outcomes
  <1> QED BY <1>1 DEF Goes, CallRecords, SameBut

\* What Rejects changes: the phase, the reply and the outcome.
LEMMA RejectsWith ==
    ASSUME NEW c \in Calls, call[c] \in CallRecords, NEW why \in Outcomes
    PROVE  /\ Rejects(c, why) \in CallRecords
           /\ Rejects(c, why).phase = "rejected" /\ Rejects(c, why).reply = NoReply
           /\ Rejects(c, why).outcome = why /\ SameBut(Rejects(c, why), call[c])
  <1> DEFINE g == Goes(c, "rejected")
  <1>1. "rejected" \in Phases
    BY DEF Phases, Ended
  <1>2. g \in CallRecords /\ g.phase = "rejected" /\ g.reply = NoReply /\ SameBut(g, call[c])
    BY <1>1, GoesOn
  <1>3. Rejects(c, why) = [g EXCEPT !.outcome = why]
    BY DEF Rejects
  <1> HIDE DEF g
  <1> QED BY <1>2, <1>3 DEF CallRecords, SameBut

\* Where the builder takes a call: it rejects options that leave something out, or goes
\* to the first query that the options leave to it.
LEMMA MakesIs ==
    ASSUME NEW c
    PROVE  \/ Makes(c) = Rejects(c, "badOption")
           \/ \E p \in {"fee", "nonce", "submit"} :
                 /\ Makes(c) = Goes(c, p)
                 /\ p = "nonce" => call[c].opt.nonce = NoNonce
                 /\ p = "submit" => call[c].opt.nonce # NoNonce
  BY DEF Makes, AfterFee, NonceGiven

\* A call that begins.
LEMMA BeginsKeeps ==
    ASSUME Inv, NEW c \in Calls, Begins(c),
           call[c].phase = "idle" \/ (call[c].phase = "rejected" /\ call[c].task = 0),
           call[c].try < MaxTries
    PROVE  Inv'
  <1> DEFINE o == call[c].opt
             g == IF Encrypts(o) THEN Goes(c, "key") ELSE Makes(c)
             w == [g EXCEPT !.try = @ + 1, !.txNonce = o.nonce,
                            !.fellBack = FALSE, !.seen = Len(tasks)]
  <1>1. CallOK(c, call[c], tasks) /\ call[c] \in CallRecords /\ o \in OptionSets
    BY DEF Inv, CallOK, CallRecords
  <1>2. /\ g \in CallRecords /\ g.reply = NoReply /\ SameBut(g, call[c])
        /\ g.phase \in {"key", "fee", "submit", "nonce", "rejected"}
        /\ g.outcome = IF g.phase = "rejected" THEN "badOption" ELSE "none"
        /\ g.phase = "nonce" => o.nonce = NoNonce
        /\ g.phase = "submit" => o.nonce # NoNonce
    <2>1. {"key", "fee", "submit", "nonce"} \subseteq Phases /\ "badOption" \in Outcomes
      BY DEF Phases, Awaits, Outcomes
    <2>2. CASE g = Goes(c, "key")
      BY <1>1, <2>1, <2>2, GoesOn
    <2>3. CASE g = Rejects(c, "badOption")
      BY <1>1, <2>1, <2>3, RejectsWith
    <2>4. ASSUME NEW p \in {"fee", "nonce", "submit"}, g = Goes(c, p),
                 p = "nonce" => o.nonce = NoNonce, p = "submit" => o.nonce # NoNonce
          PROVE  <1>2!:
      BY <1>1, <2>1, <2>4, GoesOn
    <2> QED BY <2>2, <2>3, <2>4, MakesIs
  <1>5. Len(tasks) \in Nat
    BY DEF Inv, TasksOK
  <1>6. /\ w.phase = g.phase /\ w.reply = NoReply /\ w.opt = o /\ w.task = call[c].task
        /\ w.late = call[c].late /\ w.elapsed = call[c].elapsed
        /\ w.outcome = g.outcome /\ w.seen = Len(tasks) /\ w.txNonce = o.nonce
        /\ w.fellBack = FALSE /\ w \in CallRecords
    <2>1. call[c].try + 1 \in 0..MaxTries /\ o.nonce \in Nat \cup {NoNonce}
      BY <1>1, TaskAssumption DEF CallRecords, OptionSets
    <2> HIDE DEF g
    <2>2. g.try + 1 \in 0..MaxTries
      BY <1>2, <2>1 DEF SameBut
    <2> QED BY <1>2, <1>5, <2>1, <2>2 DEF CallRecords, SameBut
  <1> HIDE DEF w, g
  <1>7. NonceOK(w, tasks)
    BY <1>1, <1>2, <1>6 DEF NonceOK, NoReply, OptionSets
  <1>8. ToldOK(w, tasks)
    BY <1>1, <1>2, <1>5, <1>6 DEF ToldOK, NoReply, CallOK
  <1>9. OutcomeOK(w, tasks)
    BY <1>1, <1>2, <1>6 DEF OutcomeOK, CallOK, Ended
  <1>10. CallOK(c, w, tasks)
    BY <1>1, <1>2, <1>6, <1>7, <1>8, <1>9 DEF CallOK
  <1> QED BY <1>10, CallChanges DEF Begins, Becomes, service, w, g, Inv

\* A call that goes on to its next request, before it waits for a task.
LEMMA GoesKeeps ==
    ASSUME Inv, NEW c \in Calls, call[c].phase \in Awaits \ {"poll"},
           NEW w \in CallRecords, w.phase \in Awaits \ {"poll"}, w.reply = NoReply,
           w.opt = call[c].opt, w.task = call[c].task, w.elapsed = call[c].elapsed,
           w.outcome = "none", w.late = call[c].late, w.seen = call[c].seen,
           NonceOK(w, tasks), Becomes(c, w)
    PROVE  Inv'
  <1>1. CallOK(c, call[c], tasks)
    BY DEF Inv
  <1>2. w.phase \notin Ended \cup {"sleep", "idle", "poll"}
    BY DEF Awaits, Ended
  <1>3. call[c].phase \notin Ended \cup {"poll"}
    BY DEF Awaits, Ended
  <1>4. ToldOK(w, tasks)
    BY <1>1, <1>2 DEF CallOK, ToldOK, NoReply, Ended
  <1>5. OutcomeOK(w, tasks)
    BY <1>1, <1>2, <1>3 DEF CallOK, OutcomeOK, Ended
  <1>6. CallOK(c, w, tasks)
    BY <1>1, <1>2, <1>4, <1>5 DEF CallOK
  <1> QED BY <1>6, CallChanges DEF Becomes, service, Inv

\* A call that fails, for a reason of its own.
LEMMA RejectsKeeps ==
    ASSUME Inv, NEW c \in Calls, call[c].phase \in Awaits,
           NEW why \in {"noKey", "noFee", "noNonce", "notSubmitted", "queryFailed", "badOption"},
           Becomes(c, Rejects(c, why))
    PROVE  Inv'
  <1> DEFINE w == Rejects(c, why)
  <1>1. CallOK(c, call[c], tasks) /\ call[c] \in CallRecords
    BY DEF Inv, CallOK
  <1>2. why \in Outcomes
    BY DEF Outcomes
  <1>3. /\ w \in CallRecords /\ w.phase = "rejected" /\ w.reply = NoReply /\ w.outcome = why
        /\ SameBut(w, call[c])
    BY <1>1, <1>2, RejectsWith
  <1> HIDE DEF w
  <1>5. /\ w \in CallRecords /\ w.phase = "rejected" /\ w.reply = NoReply /\ w.outcome = why
        /\ w.opt = call[c].opt /\ w.task = call[c].task /\ w.elapsed = call[c].elapsed
        /\ w.late = call[c].late /\ w.seen = call[c].seen /\ w.txNonce = call[c].txNonce
    BY <1>3 DEF SameBut
  <1>6. call[c].phase \notin Ended \cup {"sleep", "idle"}
    BY DEF Awaits, Ended
  <1>7. NonceOK(w, tasks)
    BY <1>1, <1>5, <1>6 DEF CallOK, NonceOK, NoReply
  <1>8. ToldOK(w, tasks)
    BY <1>1, <1>5 DEF CallOK, ToldOK, NoReply
  <1>9. OutcomeOK(w, tasks)
    BY <1>1, <1>5, <1>6 DEF CallOK, OutcomeOK, ToldOK, IsLate, Ended
  <1>10. CallOK(c, w, tasks)
    BY <1>1, <1>5, <1>7, <1>8, <1>9 DEF CallOK
  <1> QED BY <1>10, CallChanges DEF Becomes, service, Inv, w

\* The next request, when it is made of the phase alone.
LEMMA NextRequestKeeps ==
    ASSUME Inv, NEW c \in Calls, call[c].phase \in {"key", "fee", "rate"},
           NEW phase \in {"fee", "rate", "nonce", "submit"},
           phase = "nonce" => call[c].opt.nonce = NoNonce,
           phase = "submit" => call[c].opt.nonce # NoNonce,
           Becomes(c, Goes(c, phase))
    PROVE  Inv'
  <1> DEFINE w == Goes(c, phase)
  <1>1. CallOK(c, call[c], tasks) /\ call[c] \in CallRecords
    BY DEF Inv, CallOK
  <1>2. phase \in Phases /\ phase \in Awaits \ {"poll"} /\ call[c].phase \in Awaits \ {"poll"}
    BY DEF Phases, Awaits
  <1>3. /\ w \in CallRecords /\ w.phase = phase /\ w.reply = NoReply /\ w.outcome = "none"
        /\ SameBut(w, call[c])
    BY <1>1, <1>2, GoesOn
  <1> HIDE DEF w
  <1>4. w.opt.nonce \in Nat \cup {NoNonce}
    BY <1>3 DEF CallRecords, OptionSets
  <1>5. NonceOK(w, tasks)
    BY <1>1, <1>3, <1>4 DEF CallOK, NonceOK, NoReply, SameBut
  <1> QED BY <1>2, <1>3, <1>5, GoesKeeps DEF SameBut, w

\* What comes after the fee.
LEMMA NextPhases ==
    ASSUME NEW o
    PROVE  /\ AfterFee(o) \in {"nonce", "submit"}
           /\ AfterFee(o) = "nonce" => o.nonce = NoNonce
           /\ AfterFee(o) = "submit" => o.nonce # NoNonce
  BY DEF AfterFee, NonceGiven

\* The replies before the nonce's.
LEMMA PreparesKeeps ==
    ASSUME Inv, NEW c \in Calls, KeyFetched(c) \/ FeeEstimated(c) \/ FeeRateFetched(c)
    PROVE  Inv'
  <1> DEFINE o == call[c].opt
  <1>1. CASE KeyFetched(c)
    <2>1. call[c].phase = "key" /\ call[c].phase \in Awaits
      BY <1>1 DEF KeyFetched, Answered, Awaits
    <2>2. CASE Becomes(c, Makes(c))
      <3>1. CASE Makes(c) = Rejects(c, "badOption")
        BY <2>1, <2>2, <3>1, RejectsKeeps
      <3>2. ASSUME NEW p \in {"fee", "nonce", "submit"}, Makes(c) = Goes(c, p),
                   p = "nonce" => o.nonce = NoNonce, p = "submit" => o.nonce # NoNonce
            PROVE  Inv'
        BY <2>1, <2>2, <3>2, NextRequestKeeps
      <3> QED BY <3>1, <3>2, MakesIs
    <2>3. CASE Becomes(c, Rejects(c, "noKey"))
      BY <2>1, <2>3, RejectsKeeps
    <2> QED BY <1>1, <2>2, <2>3 DEF KeyFetched
  <1>2. CASE FeeEstimated(c)
    <2>1. call[c].phase = "fee" /\ call[c].phase \in Awaits
      BY <1>2 DEF FeeEstimated, Answered, Awaits
    <2>2. CASE Becomes(c, Goes(c, AfterFee(o)))
      BY <2>1, <2>2, NextPhases, NextRequestKeeps
    <2>3. CASE Becomes(c, Goes(c, "rate"))
      BY <2>1, <2>3, NextRequestKeeps
    <2>4. CASE Becomes(c, Rejects(c, "noFee"))
      BY <2>1, <2>4, RejectsKeeps
    <2> QED BY <1>2, <2>2, <2>3, <2>4 DEF FeeEstimated
  <1>3. CASE FeeRateFetched(c)
    <2>1. call[c].phase = "rate" /\ call[c].phase \in Awaits
      BY <1>3 DEF FeeRateFetched, Answered, Awaits
    <2>2. CASE Becomes(c, Goes(c, AfterFee(o)))
      BY <2>1, <2>2, NextPhases, NextRequestKeeps
    <2>3. CASE Becomes(c, Rejects(c, "noFee"))
      BY <2>1, <2>3, RejectsKeeps
    <2> QED BY <1>3, <2>2, <2>3 DEF FeeRateFetched
  <1> QED BY <1>1, <1>2, <1>3

\* The nonce arrives, or the account's is asked for instead.
LEMMA NonceKeeps ==
    ASSUME Inv, NEW c \in Calls, NonceFetched(c) \/ AccountFetched(c)
    PROVE  Inv'
  <1>1. CallOK(c, call[c], tasks) /\ call[c] \in CallRecords
    BY DEF Inv, CallOK
  <1>2. {"submit", "account"} \subseteq Phases /\ {"submit", "account"} \subseteq Awaits \ {"poll"}
    BY DEF Phases, Awaits
  <1>3. call[c].phase \in {"nonce", "account"} /\ call[c].phase \in Awaits \ {"poll"}
    BY DEF NonceFetched, AccountFetched, Answered, Awaits
  <1>4. call[c].opt.nonce = NoNonce /\ (call[c].phase = "account" => call[c].fellBack)
    BY <1>1, <1>3 DEF CallOK, NonceOK
  <1>5. CASE /\ ReplyIs(c, "ok")
             /\ Becomes(c, [Goes(c, "submit") EXCEPT !.txNonce = call[c].reply.value])
    <2> DEFINE g == Goes(c, "submit")
               w == [g EXCEPT !.txNonce = call[c].reply.value]
    <2>1. /\ g \in CallRecords /\ g.phase = "submit" /\ g.reply = NoReply
          /\ g.outcome = "none" /\ SameBut(g, call[c])
      BY <1>1, <1>2, GoesOn
    <2>2. call[c].reply.value \in Nat
      BY <1>1, <1>3, <1>5 DEF CallOK, NonceOK, ReplyIs
    <2>3. call[c].phase = "nonce" => Unseen(call[c], call[c].reply.value, tasks)
      BY <1>1, <1>5 DEF CallOK, NonceOK, ReplyIs
    <2> HIDE DEF g
    <2>4. /\ w \in CallRecords /\ w.phase = "submit" /\ w.reply = NoReply
          /\ w.txNonce = call[c].reply.value
          /\ w.opt = call[c].opt /\ w.task = call[c].task /\ w.elapsed = call[c].elapsed
          /\ w.outcome = "none" /\ w.late = call[c].late /\ w.seen = call[c].seen
          /\ w.fellBack = call[c].fellBack
      BY <2>1, <2>2 DEF CallRecords, SameBut
    <2>5. Becomes(c, w)
      BY <1>5 DEF g
    <2> HIDE DEF w
    <2>6. NonceOK(w, tasks)
      BY <1>3, <1>4, <2>2, <2>3, <2>4 DEF NonceOK, NoReply, Unseen
    <2> QED BY <1>2, <1>3, <2>4, <2>5, <2>6, GoesKeeps
  <1>6. CASE Becomes(c, [Goes(c, "account") EXCEPT !.fellBack = TRUE])
    <2> DEFINE g == Goes(c, "account")
               w == [g EXCEPT !.fellBack = TRUE]
    <2>1. /\ g \in CallRecords /\ g.phase = "account" /\ g.reply = NoReply
          /\ g.outcome = "none" /\ SameBut(g, call[c])
      BY <1>1, <1>2, GoesOn
    <2> HIDE DEF g
    <2>2. /\ w \in CallRecords /\ w.phase = "account" /\ w.reply = NoReply /\ w.fellBack
          /\ w.opt = call[c].opt /\ w.task = call[c].task /\ w.elapsed = call[c].elapsed
          /\ w.outcome = "none" /\ w.late = call[c].late /\ w.seen = call[c].seen
      BY <2>1 DEF CallRecords, SameBut
    <2>3. Becomes(c, w)
      BY <1>6 DEF g
    <2> HIDE DEF w
    <2>4. NonceOK(w, tasks)
      BY <1>4, <2>2 DEF NonceOK, NoReply
    <2> QED BY <1>2, <1>3, <2>2, <2>3, <2>4, GoesKeeps
  <1>7. CASE Becomes(c, Rejects(c, "noNonce"))
    BY <1>3, <1>7, RejectsKeeps
  <1> QED BY <1>5, <1>6, <1>7 DEF NonceFetched, AccountFetched

\* The service takes the submission on or refuses it; the call then polls, or ends.
LEMMA SubmittedKeeps == ASSUME Inv, NEW c \in Calls, Submitted(c) PROVE Inv'
  <1>1. CallOK(c, call[c], tasks) /\ call[c] \in CallRecords
    BY DEF Inv, CallOK
  <1>2. "poll" \in Phases /\ call[c].phase = "submit" /\ call[c].phase \in Awaits
    BY DEF Phases, Awaits, Submitted, Answered
  <1>3. CASE /\ ReplyIs(c, "ok")
             /\ Becomes(c, [Goes(c, "poll") EXCEPT !.task = call[c].reply.value])
    <2> DEFINE g == Goes(c, "poll")
               w == [g EXCEPT !.task = call[c].reply.value]
    <2>1. /\ g \in CallRecords /\ g.phase = "poll" /\ g.reply = NoReply
          /\ g.outcome = "none" /\ SameBut(g, call[c])
      BY <1>1, <1>2, GoesOn
    <2>2. call[c].reply.value \in 1..Len(tasks) /\ Len(tasks) \in Nat
      BY <1>1, <1>2, <1>3 DEF CallOK, ToldOK, ReplyIs, Inv, TasksOK
    <2> HIDE DEF g
    <2>3. /\ w \in CallRecords /\ w.phase = "poll" /\ w.reply = NoReply
          /\ w.task = call[c].reply.value
          /\ w.opt = call[c].opt /\ w.elapsed = call[c].elapsed /\ w.txNonce = call[c].txNonce
          /\ w.outcome = "none" /\ w.late = call[c].late /\ w.seen = call[c].seen
      <3>1. w \in CallRecords
        BY <2>1, <2>2 DEF CallRecords
      <3>2. w.task = call[c].reply.value /\ w.phase = "poll" /\ w.reply = NoReply
        BY <2>1 DEF CallRecords
      <3>3. /\ w.opt = g.opt /\ w.elapsed = g.elapsed /\ w.txNonce = g.txNonce
            /\ w.outcome = g.outcome /\ w.late = g.late /\ w.seen = g.seen
        BY <2>1 DEF CallRecords
      <3> QED BY <2>1, <3>1, <3>2, <3>3 DEF SameBut
    <2>4. Becomes(c, w)
      BY <1>3 DEF g
    <2> HIDE DEF w
    <2>5. NonceOK(w, tasks)
      BY <1>1, <1>2, <2>3 DEF CallOK, NonceOK, NoReply
    <2>6. ToldOK(w, tasks)
      BY <1>1, <2>2, <2>3 DEF CallOK, ToldOK, NoReply
    <2>7. OutcomeOK(w, tasks)
      BY <1>1, <1>2, <2>3 DEF CallOK, OutcomeOK, Ended
    <2>8. CallOK(c, w, tasks)
      BY <1>1, <2>3, <2>5, <2>6, <2>7 DEF CallOK
    <2> QED BY <2>4, <2>8, CallChanges DEF Becomes, service, Inv
  <1>4. CASE Becomes(c, Rejects(c, "notSubmitted"))
    BY <1>2, <1>4, RejectsKeeps
  <1> QED BY <1>3, <1>4 DEF Submitted

\* The verdict on a status is a way to end, or to give up when it is late; or there is
\* none, which a late status leaves no room for.
LEMMA VerdictIs ==
    ASSUME NEW status \in Statuses, NEW elapsed \in 0..Timeout + 1
    PROVE  /\ Verdict(status, elapsed) \in {"none", "gaveUp", "completed", "failed", "timeout"}
           /\ Verdict(status, elapsed) \in {"completed", "failed", "timeout"} =>
                 status = Verdict(status, elapsed)
           /\ Verdict(status, elapsed) = "gaveUp" => status = "pending" /\ elapsed > Timeout
           /\ Verdict(status, elapsed) = "none" => ~(elapsed > Timeout)
  BY TaskAssumption DEF Verdict, Statuses

\* One round of the loop.
LEMMA PollKeeps == ASSUME Inv, NEW c \in Calls, PollAnswered(c) PROVE Inv'
  <1> DEFINE v == call[c]
             verdict == Verdict(v.reply.value, v.elapsed)
  <1>1. CallOK(c, v, tasks) /\ v \in CallRecords
    BY DEF Inv, CallOK
  <1>2. v.phase = "poll" /\ v.phase \in Awaits
    BY DEF Awaits, PollAnswered, Answered
  <1>3. CASE Becomes(c, Rejects(c, "queryFailed"))
    BY <1>2, <1>3, RejectsKeeps
  <1>4. ASSUME ReplyIs(c, "ok")
        PROVE  /\ v.reply.value \in Statuses /\ v.task # 0 /\ v.task \in 0..Len(tasks)
               /\ v.reply.value # "pending" => tasks[v.task].status = v.reply.value
               /\ v.elapsed \in 0..Timeout + 1 /\ v.outcome = "none"
    BY <1>1, <1>2, <1>4 DEF CallOK, ToldOK, OutcomeOK, ReplyIs, Ended, CallRecords
  <1>5. ASSUME ReplyIs(c, "ok"), NEW p \in Ended, verdict # "none",
               p = "resolved" => verdict = "completed",
               Becomes(c, [v EXCEPT !.phase = p, !.outcome = verdict])
        PROVE  Inv'
    <2> DEFINE w == [v EXCEPT !.phase = p, !.outcome = verdict]
    <2>1. /\ verdict \in {"gaveUp", "completed", "failed", "timeout"}
          /\ verdict \in {"completed", "failed", "timeout"} => v.reply.value = verdict
          /\ verdict = "gaveUp" => v.reply.value = "pending" /\ IsLate(v)
      BY <1>4, <1>5, VerdictIs DEF IsLate
    <2>2. verdict \in Outcomes /\ p \in Phases
      BY <2>1 DEF Outcomes, Phases
    <2> HIDE DEF verdict
    <2>3. /\ w \in CallRecords /\ w.phase = p /\ w.outcome = verdict /\ w.reply = v.reply
          /\ w.opt = v.opt /\ w.task = v.task /\ w.elapsed = v.elapsed /\ w.late = v.late
          /\ w.seen = v.seen /\ w.txNonce = v.txNonce
      BY <1>1, <2>2 DEF CallRecords
    <2>4. Becomes(c, w)
      BY <1>5 DEF verdict
    <2> HIDE DEF w, v
    <2>5. p \notin {"nonce", "account", "submit", "poll", "sleep", "idle"}
      BY DEF Ended
    <2>6. NonceOK(w, tasks)
      BY <1>1, <1>2, <2>3, <2>5 DEF CallOK, NonceOK
    <2>7. ToldOK(w, tasks)
      BY <1>1, <1>4, <1>5, <2>3, <2>5 DEF CallOK, ToldOK
    <2>8. verdict # "pending"
      BY <2>1
    <2>9. verdict \in {"completed", "failed", "timeout"} => tasks[v.task].status = verdict
      BY <1>4, <1>5, <2>1, <2>8
    <2>10. OutcomeOK(w, tasks)
      BY <1>1, <1>4, <1>5, <2>1, <2>3, <2>9 DEF CallOK, OutcomeOK, IsLate
    <2>11. CallOK(c, w, tasks)
      BY <1>1, <2>3, <2>5, <2>6, <2>7, <2>10 DEF CallOK
    <2> QED BY <2>4, <2>11, CallChanges DEF Becomes, service, Inv
  <1>6. CASE /\ ReplyIs(c, "ok") /\ verdict = "none"
             /\ Becomes(c, [Goes(c, "sleep") EXCEPT !.timer = PollInterval])
    <2> DEFINE g == Goes(c, "sleep")
               w == [g EXCEPT !.timer = PollInterval]
    <2>1. "sleep" \in Phases /\ PollInterval \in 0..PollInterval
      BY TaskAssumption DEF Phases
    <2>2. /\ g \in CallRecords /\ g.phase = "sleep" /\ g.reply = NoReply
          /\ g.outcome = "none" /\ SameBut(g, v)
      BY <1>1, <2>1, GoesOn
    <2>3. ~IsLate(v)
      BY <1>4, <1>6, VerdictIs DEF IsLate
    <2> HIDE DEF g, verdict
    <2>4. /\ w \in CallRecords /\ w.phase = "sleep" /\ w.reply = NoReply
          /\ w.opt = v.opt /\ w.task = v.task /\ w.elapsed = v.elapsed /\ w.late = v.late
          /\ w.seen = v.seen /\ w.txNonce = v.txNonce /\ w.outcome = "none"
      BY <2>1, <2>2 DEF CallRecords, SameBut
    <2>5. Becomes(c, w)
      BY <1>6 DEF g
    <2> HIDE DEF w, v
    <2>6. NonceOK(w, tasks)
      BY <1>1, <1>2, <2>4 DEF CallOK, NonceOK
    <2>7. ToldOK(w, tasks)
      BY <1>1, <1>4, <1>6, <2>4 DEF CallOK, ToldOK
    <2>8. OutcomeOK(w, tasks)
      BY <1>1, <1>4, <1>6, <2>3, <2>4 DEF CallOK, OutcomeOK, IsLate
    <2>9. CallOK(c, w, tasks)
      BY <1>1, <2>4, <2>6, <2>7, <2>8 DEF CallOK
    <2> QED BY <2>5, <2>9, CallChanges DEF Becomes, service, Inv
  <1>7. "resolved" \in Ended /\ "rejected" \in Ended /\ "rejected" # "resolved"
    BY DEF Ended
  <1>8. CASE ReplyIs(c, "ok") /\ verdict = "completed"
    <2>1. Becomes(c, [v EXCEPT !.phase = "resolved", !.outcome = verdict])
      BY <1>8 DEF PollAnswered
    <2> QED BY <1>5, <1>7, <1>8, <2>1
  <1>9. CASE ReplyIs(c, "ok") /\ verdict # "completed" /\ verdict # "none"
    <2>1. Becomes(c, [v EXCEPT !.phase = "rejected", !.outcome = verdict])
      BY <1>9 DEF PollAnswered
    <2> QED BY <1>5, <1>7, <1>9, <2>1
  <1>10. CASE ReplyIs(c, "ok") /\ verdict = "none"
    <2>1. Becomes(c, [Goes(c, "sleep") EXCEPT !.timer = PollInterval])
      BY <1>10 DEF PollAnswered
    <2> QED BY <1>6, <1>10, <2>1
  <1>11. CASE ~ReplyIs(c, "ok")
    BY <1>3, <1>11 DEF PollAnswered
  <1> QED BY <1>8, <1>9, <1>10, <1>11

\* The pause is over.
LEMMA WakeKeeps == ASSUME Inv, NEW c \in Calls, Wake(c) PROVE Inv'
  <1> DEFINE v == call[c]
             w == Awake(v)
  <1>1. CallOK(c, v, tasks) /\ v \in CallRecords /\ v.phase = "sleep"
    BY DEF Inv, CallOK, Wake
  <1>2. "poll" \in Phases /\ v.late \in 0..2
    BY <1>1 DEF Phases, Awaits, CallRecords
  <1>3. v.late = 0 /\ v.task # 0 /\ v.outcome = "none"
    BY <1>1 DEF CallOK, ToldOK, OutcomeOK, Ended
  <1>4. /\ w \in CallRecords /\ w.phase = "poll" /\ w.reply = v.reply
        /\ w.opt = v.opt /\ w.task = v.task /\ w.elapsed = v.elapsed
        /\ w.late = IF IsLate(v) THEN 1 ELSE 0
        /\ w.seen = v.seen /\ w.txNonce = v.txNonce /\ w.outcome = v.outcome
    <2> DEFINE l == IF IsLate(v) THEN 1 ELSE 0
    <2>1. w = [v EXCEPT !.phase = "poll", !.late = l] /\ l \in 0..2
      BY <1>3 DEF Awake
    <2> HIDE DEF w
    <2> QED BY <1>1, <1>2, <2>1 DEF CallRecords
  <1>5. Becomes(c, w)
    BY DEF Wake
  <1> HIDE DEF w, v
  <1>6. NonceOK(w, tasks)
    BY <1>1, <1>4 DEF CallOK, NonceOK
  <1>7. w.reply.kind = "none"
    BY <1>1, <1>4 DEF CallOK, ToldOK, NoReply
  <1>8. ToldOK(w, tasks)
    BY <1>1, <1>3, <1>4, <1>7 DEF CallOK, ToldOK
  <1>9. OutcomeOK(w, tasks)
    BY <1>1, <1>3, <1>4 DEF CallOK, OutcomeOK, IsLate
  <1>10. CallOK(c, w, tasks)
    BY <1>1, <1>4, <1>6, <1>8, <1>9 DEF CallOK
  <1> QED BY <1>5, <1>10, CallChanges DEF Becomes, service, Inv

-----------------------------------------------------------------------------
(* Time, the node and the service.                                         *)

\* Time passes for every call.
LEMMA TickKeeps == Inv /\ Tick => Inv'
  <1> SUFFICES ASSUME Inv, Tick PROVE Inv'
    OBVIOUS
  <1>1. ASSUME NEW c \in Calls PROVE CallOK(c, Ticked(call[c]), tasks)
    <2> DEFINE v == call[c]
               w == Ticked(v)
    <2>1. CallOK(c, v, tasks) /\ v \in CallRecords
      BY <1>1 DEF Inv, CallOK
    <2>2. CASE v.phase \notin {"poll", "sleep"}
      BY <2>1, <2>2 DEF Ticked
    <2>3. CASE v.phase \in {"poll", "sleep"}
      <3> DEFINE e == IF IsLate(v) THEN v.elapsed ELSE v.elapsed + 1
                 t == IF v.timer = 0 THEN 0 ELSE v.timer - 1
      <3>1. w = [v EXCEPT !.elapsed = e, !.timer = t]
        BY <2>3 DEF Ticked
      <3>2. v.elapsed \in 0..Timeout + 1 /\ v.timer \in 0..PollInterval
        BY <2>1 DEF CallRecords
      <3>3. e \in 0..Timeout + 1 /\ t \in 0..PollInterval /\ (v.elapsed > Timeout => e > Timeout)
        BY <3>2, TaskAssumption DEF IsLate
      <3> HIDE DEF w, e, t, v
      <3>4. /\ w \in CallRecords /\ w.phase = v.phase /\ w.reply = v.reply /\ w.elapsed = e
            /\ w.opt = v.opt /\ w.task = v.task /\ w.late = v.late /\ w.seen = v.seen
            /\ w.txNonce = v.txNonce /\ w.outcome = v.outcome /\ w.fellBack = v.fellBack
            /\ w.try = v.try
        BY <2>1, <3>1, <3>3 DEF CallRecords
      <3>5. NonceOK(w, tasks)
        BY <2>1, <2>3, <3>4 DEF CallOK, NonceOK
      <3>6. ToldOK(w, tasks)
        BY <2>1, <3>4 DEF CallOK, ToldOK
      <3>7. OutcomeOK(w, tasks)
        BY <2>1, <3>3, <3>4 DEF CallOK, OutcomeOK, IsLate
      <3>8. CallOK(c, w, tasks)
        BY <2>1, <3>4, <3>5, <3>6, <3>7 DEF CallOK
      <3> QED BY <3>8 DEF w, v
    <2> QED BY <2>2, <2>3
  <1>2. call' = [c \in Calls |-> Ticked(call[c])] /\ UNCHANGED <<tasks, stray, mined, faults>>
    BY DEF Tick, service
  <1>3. DOMAIN call' = Calls /\ call' = [c \in Calls |-> call'[c]]
    BY <1>2
  <1>4. \A c \in Calls : CallOK(c, call'[c], tasks')
    BY <1>1, <1>2
  <1>5. TasksOK(tasks')
    BY <1>2 DEF Inv
  <1> QED BY <1>2, <1>3, <1>4, <1>5 DEF Inv

\* What makes a reply right for a call that waits for it.
RightReply(v, kind, value, ts) ==
    /\ v.phase \in {"nonce", "account"} /\ kind = "ok" => value \in Nat
    /\ v.phase = "nonce" /\ kind = "ok" => Unseen(v, value, ts)
    /\ v.phase = "submit" /\ kind = "refused" => v.txNonce \in NoncesOf(ts)
    /\ v.phase = "submit" /\ kind = "ok" => value \in 1..Len(ts)
    /\ v.phase = "poll" /\ kind = "ok" =>
          value \in Statuses /\ (value # "pending" => ts[v.task].status = value)

\* A call that waits and gets a right reply is as it should be.
LEMMA ReplyIsRight ==
    ASSUME NEW c \in Calls, NEW v, NEW ts, CallOK(c, v, ts), v.phase \in Awaits,
           NEW kind \in Kinds, NEW value \in Nat \cup Statuses, RightReply(v, kind, value, ts),
           NEW w, w = [v EXCEPT !.reply = [kind |-> kind, value |-> value]]
    PROVE  CallOK(c, w, ts)
  <1> DEFINE r == [kind |-> kind, value |-> value]
  <1>1. r \in [kind: Kinds, value: Nat \cup Statuses] /\ r.kind = kind /\ r.value = value
    OBVIOUS
  <1> HIDE DEF r
  <1>2. v \in CallRecords /\ v.phase \notin Ended \cup {"idle", "sleep"}
    BY DEF CallOK, Awaits, Ended
  <1>3. w = [v EXCEPT !.reply = r]
    BY DEF r
  <1>4. /\ w \in CallRecords /\ w.phase = v.phase /\ w.reply = r /\ w.elapsed = v.elapsed
        /\ w.opt = v.opt /\ w.task = v.task /\ w.late = v.late /\ w.seen = v.seen
        /\ w.txNonce = v.txNonce /\ w.outcome = v.outcome /\ w.fellBack = v.fellBack
    BY <1>1, <1>2, <1>3 DEF CallRecords
  <1>5. NonceOK(w, ts)
    BY <1>1, <1>4 DEF CallOK, NonceOK, RightReply, Unseen
  <1>6. ToldOK(w, ts)
    BY <1>1, <1>2, <1>4 DEF CallOK, ToldOK, RightReply
  <1>7. OutcomeOK(w, ts)
    BY <1>2, <1>4 DEF CallOK, OutcomeOK, IsLate
  <1> QED BY <1>4, <1>5, <1>6, <1>7 DEF CallOK

\* A query is answered.
LEMMA QueryKeeps == ASSUME Inv, NEW c \in Calls, ServeQuery(c) PROVE Inv'
  <1> DEFINE v == call[c]
  <1>1. CallOK(c, v, tasks) /\ v \in CallRecords
    BY DEF Inv, CallOK
  <1>2. UNCHANGED <<tasks, stray, mined>> /\ faults' \in 0..MaxFaults
    BY DEF ServeQuery, service, Inv
  <1>3. Kinds = {"none", "ok", "failed", "refused", "noEstimate"}
    BY DEF Kinds
  <1>4. ASSUME v.phase \in Awaits, NEW kind \in Kinds, NEW value \in Nat \cup Statuses,
               RightReply(v, kind, value, tasks), Reply(c, kind, value)
        PROVE  Inv'
    <2> DEFINE w == [v EXCEPT !.reply = [kind |-> kind, value |-> value]]
    <2>1. CallOK(c, w, tasks)
      BY <1>1, <1>4, ReplyIsRight
    <2>2. call' = [call EXCEPT ![c] = w]
      BY <1>4 DEF Reply
    <2> QED BY <1>2, <2>1, <2>2, CallChanges
  <1>5. CASE (\E phase \in {"key", "fee", "rate"} : Pending(c, phase)) /\ Reply(c, "ok", 0)
    <2>1. v.phase \in {"key", "fee", "rate"} /\ v.phase \in Awaits
      BY <1>5 DEF Pending, Awaits
    <2>2. RightReply(v, "ok", 0, tasks)
      BY <2>1 DEF RightReply
    <2> QED BY <1>3, <1>4, <1>5, <2>1, <2>2
  <1>6. CASE Pending(c, "fee") /\ Reply(c, "noEstimate", 0)
    <2>1. v.phase = "fee" /\ v.phase \in Awaits
      BY <1>6 DEF Pending, Awaits
    <2>2. RightReply(v, "noEstimate", 0, tasks)
      BY <2>1 DEF RightReply
    <2> QED BY <1>3, <1>4, <1>6, <2>1, <2>2
  <1>7. CASE Pending(c, "account") /\ Reply(c, "ok", mined)
    <2>1. v.phase = "account" /\ v.phase \in Awaits /\ mined \in Nat
      BY <1>7 DEF Pending, Awaits, Inv
    <2>2. RightReply(v, "ok", mined, tasks)
      BY <2>1 DEF RightReply
    <2> QED BY <1>3, <1>4, <1>7, <2>1, <2>2
  <1>8. CASE /\ Pending(c, "nonce")
             /\ call' = [call EXCEPT ![c].reply = [kind |-> "ok", value |-> possible_next_nonce],
                                     ![c].seen  = Len(tasks)]
    <2> DEFINE n == possible_next_nonce
               u == [v EXCEPT !.seen = Len(tasks)]
               w == [u EXCEPT !.reply = [kind |-> "ok", value |-> n]]
    <2>1. v.phase = "nonce" /\ v.phase \in Awaits /\ v.reply.kind = "none"
      BY <1>8 DEF Pending, Awaits, ReplyIs
    <2>2. n \in Nat /\ n \notin NoncesOf(tasks) /\ Len(tasks) \in Nat
      BY NextNonceIsFree DEF Inv, TasksOK
    <2>3. call' = [call EXCEPT ![c] = w]
      BY <1>8
    <2> HIDE DEF n
    <2>4. /\ u \in CallRecords /\ u.phase = "nonce" /\ u.reply = v.reply /\ u.elapsed = v.elapsed
          /\ u.opt = v.opt /\ u.task = v.task /\ u.late = v.late /\ u.seen = Len(tasks)
          /\ u.txNonce = v.txNonce /\ u.outcome = v.outcome /\ u.fellBack = v.fellBack
      BY <1>1, <2>1, <2>2 DEF CallRecords
    <2> HIDE DEF u
    <2>5. NonceOK(u, tasks)
      BY <1>1, <2>1, <2>4 DEF CallOK, NonceOK
    <2>6. ToldOK(u, tasks)
      BY <1>1, <2>1, <2>2, <2>4 DEF CallOK, ToldOK
    <2>7. OutcomeOK(u, tasks)
      BY <1>1, <2>1, <2>4 DEF CallOK, OutcomeOK, IsLate
    <2>8. CallOK(c, u, tasks)
      BY <1>1, <2>4, <2>5, <2>6, <2>7 DEF CallOK
    <2>9. RightReply(u, "ok", n, tasks)
      BY <2>2, <2>4 DEF RightReply, Unseen, NoncesOf
    <2>10. CallOK(c, w, tasks)
      BY <1>3, <2>1, <2>2, <2>4, <2>8, <2>9, ReplyIsRight
    <2> QED BY <1>2, <2>3, <2>10, CallChanges
  <1>9. CASE Pending(c, "poll") /\ Reply(c, "ok", tasks[call[c].task].status)
    <2>1. v.phase = "poll" /\ v.phase \in Awaits
      BY <1>9 DEF Pending, Awaits
    <2>2. v.task \in 1..Len(tasks)
      BY <1>1, <2>1 DEF CallOK, ToldOK, Inv, TasksOK
    <2>3. tasks[v.task] \in TaskRecords
      BY <2>2, ElementOfSeq DEF Inv, TasksOK
    <2>4. tasks[v.task].status \in Statuses
      BY <2>3 DEF TaskRecords
    <2>5. RightReply(v, "ok", tasks[v.task].status, tasks)
      BY <2>1, <2>4 DEF RightReply
    <2> QED BY <1>3, <1>4, <1>9, <2>1, <2>4, <2>5
  <1> QED BY <1>5, <1>6, <1>7, <1>8, <1>9 DEF ServeQuery

\* What a call submits is what its options say, at its nonce.
LEMMA SubmissionIsSigned ==
    ASSUME Inv, NEW c \in Calls, call[c].phase = "submit"
    PROVE  Submission(c) \in Submissions /\ Submission(c).txNonce = call[c].txNonce
  <1> DEFINE w == call[c]
             o == w.opt
             x == apiUserInput(c, w.try, o)
             y == txUserInput(c, w.try, o)
             n == RequestNonce(w)
             e == Encrypts(o)
             s == Submission(c)
  <1>1. CallOK(c, w, tasks) /\ w \in CallRecords /\ o = Options[c] /\ o \in OptionSets
    BY DEF Inv, CallOK, CallRecords
  <1>2. w.txNonce \in Nat /\ (o.nonce # NoNonce => w.txNonce = o.nonce)
    BY <1>1 DEF CallOK, NonceOK
  <1>3. w.try \in Nat /\ e \in BOOLEAN /\ o.nonce \in Nat \cup {NoNonce}
    BY <1>1, TaskAssumption DEF CallRecords, OptionSets, Encrypts
  <1>4. n \in Nat \cup {NoNonce} /\ n \in {NoNonce, w.txNonce}
    BY <1>2, <1>3 DEF RequestNonce
  <1>5. x \in Inputs /\ y \in Inputs /\ y = IF e THEN Hash(x) ELSE x
    <2>1. Plain(c) \in Inputs /\ Encrypted(c, w.try) \in Inputs /\ Hash(Encrypted(c, w.try)) \in Inputs
      BY <1>3 DEF Plain, Encrypted, Hash, Inputs, Sealed
    <2> QED BY <2>1, <1>3 DEF apiUserInput, txUserInput
  <1>6. s = [by |-> c, try |-> w.try, encrypted |-> e, txNonce |-> w.txNonce,
             nonce |-> n, txInput |-> y, input |-> x]
    BY DEF Submission
  <1> HIDE DEF s, x, y, n, e, w, o
  <1>7. Signed(s)
    BY <1>1, <1>2, <1>4, <1>5, <1>6 DEF Signed
  <1>8. s \in [by: Calls, try: Nat, encrypted: BOOLEAN, txNonce: Nat,
               nonce: Nat \cup {NoNonce}, txInput: Inputs, input: Inputs]
    BY <1>2, <1>3, <1>4, <1>5, <1>6
  <1>9. s.txNonce = w.txNonce
    BY <1>6
  <1> QED BY <1>7, <1>8, <1>9 DEF Submissions, s, w

\* Tasks join or end, and every call is still right.
LEMMA CallsSurvive ==
    ASSUME Inv, NEW us, TasksOK(us), Len(us) >= Len(tasks),
           \A i \in 1..Len(tasks) :
              /\ us[i].sub = tasks[i].sub
              /\ tasks[i].status # "pending" => us[i].status = tasks[i].status
    PROVE  \A c \in Calls : CallOK(c, call[c], us)
  <1>1. Len(us) \in Nat /\ Len(tasks) \in Nat
    BY DEF Inv, TasksOK
  <1> QED BY <1>1, CallSurvives DEF Inv

\* The service takes a submission on.
LEMMA TakenOn ==
    ASSUME Inv, NEW sub \in Submissions, sub.txNonce \notin Used, TakesOn(sub)
    PROVE  /\ TasksOK(tasks') /\ Len(tasks') = Len(tasks) + 1 /\ Len(tasks) \in Nat
           /\ \A c \in Calls : CallOK(c, call[c], tasks')
  <1>1. TasksOK(tasks) /\ sub.txNonce \notin NoncesOf(tasks) /\ Len(tasks) \in Nat
    BY UsedIsNonces DEF Inv, TasksOK
  <1> DEFINE us == Joined(tasks, sub)
  <1>2. /\ TasksOK(us) /\ Len(us) = Len(tasks) + 1
        /\ \A i \in 1..Len(tasks) : us[i] = tasks[i]
    BY <1>1, TaskJoins
  <1>3. tasks' = us
    BY DEF TakesOn, Joined
  <1> HIDE DEF us
  <1>4. \A c \in Calls : CallOK(c, call[c], us)
    BY <1>1, <1>2, CallsSurvive
  <1> QED BY <1>1, <1>2, <1>3, <1>4

\* The node answers a submission: refused, or a task.
LEMMA ServeSubmissionKeeps == ASSUME Inv, NEW c \in Calls, ServeSubmission(c) PROVE Inv'
  <1> DEFINE v == call[c]
  <1>1. v.phase = "submit" /\ v.phase \in Awaits /\ UNCHANGED <<stray, mined, faults>>
    BY DEF ServeSubmission, Pending, Awaits
  <1>2. {"refused", "ok"} \subseteq Kinds
    BY DEF Kinds
  <1>3. CASE v.txNonce \in Used /\ Reply(c, "refused", 0) /\ UNCHANGED tasks
    <2> DEFINE w == [v EXCEPT !.reply = [kind |-> "refused", value |-> 0]]
    <2>1. RightReply(v, "refused", 0, tasks)
      BY <1>1, <1>3, UsedIsNonces DEF RightReply, Inv
    <2>2. CallOK(c, w, tasks)
      BY <1>1, <1>2, <2>1, ReplyIsRight DEF Inv
    <2>3. call' = [call EXCEPT ![c] = w]
      BY <1>3 DEF Reply
    <2> QED BY <1>1, <1>3, <2>2, <2>3, CallChanges DEF Inv
  <1>4. CASE /\ v.txNonce \notin Used
             /\ Reply(c, "ok", Len(tasks) + 1) /\ TakesOn(Submission(c))
    <2> DEFINE n == Len(tasks) + 1
               w == [v EXCEPT !.reply = [kind |-> "ok", value |-> n]]
    <2>1. Submission(c) \in Submissions /\ Submission(c).txNonce = v.txNonce
      BY <1>1, SubmissionIsSigned
    <2>2. /\ TasksOK(tasks') /\ Len(tasks') = n /\ n \in Nat /\ n \in 1..n
          /\ \A d \in Calls : CallOK(d, call[d], tasks')
      BY <1>4, <2>1, TakenOn
    <2>3. call' = [call EXCEPT ![c] = w]
      BY <1>4 DEF Reply
    <2> HIDE DEF n
    <2>4. RightReply(v, "ok", n, tasks')
      BY <1>1, <2>2 DEF RightReply
    <2>5. CallOK(c, w, tasks')
      BY <1>1, <1>2, <2>2, <2>4, ReplyIsRight
    <2> HIDE DEF w
    <2>6. call' = [d \in Calls |-> IF d = c THEN w ELSE call[d]]
      BY <2>3 DEF Inv
    <2>7. \A d \in Calls : CallOK(d, call'[d], tasks')
      BY <2>2, <2>5, <2>6
    <2> QED BY <1>1, <2>2, <2>6, <2>7 DEF Inv
  <1> QED BY <1>3, <1>4 DEF ServeSubmission

\* A request fails for its client; its submission may still arrive.
LEMMA FaultKeeps == ASSUME Inv, NEW c \in Calls, Fault(c) PROVE Inv'
  <1> DEFINE v == call[c]
             w == [v EXCEPT !.reply = [kind |-> "failed", value |-> 0]]
  <1>1. v.phase \in Awaits /\ UNCHANGED <<tasks, mined>> /\ faults' \in 0..MaxFaults
    BY TaskAssumption DEF Fault, Inv
  <1>2. RightReply(v, "failed", 0, tasks) /\ "failed" \in Kinds
    BY DEF RightReply, Kinds
  <1>3. CallOK(c, w, tasks)
    BY <1>1, <1>2, ReplyIsRight DEF Inv
  <1>4. call' = [call EXCEPT ![c] = w]
    BY DEF Fault, Reply
  <1> HIDE DEF w
  <1>5. call' = [d \in Calls |-> IF d = c THEN w ELSE call[d]]
    BY <1>4 DEF Inv
  <1>6. \A d \in Calls : CallOK(d, call'[d], tasks')
    BY <1>1, <1>3, <1>5 DEF Inv
  <1>7. stray' \subseteq Submissions
    BY SubmissionIsSigned DEF Fault, Inv
  <1> QED BY <1>1, <1>5, <1>6, <1>7 DEF Inv

\* A submission that was under way arrives.
LEMMA ArriveKeeps == ASSUME Inv, NEW sub \in stray, Arrive(sub) PROVE Inv'
  <1>1. sub \in Submissions /\ stray' \subseteq Submissions /\ UNCHANGED <<call, mined, faults>>
    BY DEF Arrive, Inv
  <1>2. CASE UNCHANGED tasks
    BY <1>1, <1>2 DEF Inv
  <1>3. CASE sub.txNonce \notin Used /\ TakesOn(sub)
    BY <1>1, <1>3, TakenOn DEF Inv
  <1> QED BY <1>2, <1>3 DEF Arrive

\* A transaction is mined.
LEMMA MineKeeps == Inv /\ Mine => Inv'
  BY DEF Inv, Mine

\* A task ends.
LEMMA EndKeeps ==
    ASSUME Inv, NEW i \in DOMAIN tasks, NEW status \in Ends, End(i, status)
    PROVE  Inv'
  <1>1. TasksOK(tasks) /\ i \in 1..Len(tasks) /\ status \in Statuses /\ Len(tasks) \in Nat
    BY DEF Inv, TasksOK, Statuses
  <1> DEFINE us == [tasks EXCEPT ![i].status = status]
  <1>2. /\ TasksOK(us) /\ Len(us) = Len(tasks)
        /\ \A j \in 1..Len(tasks) : us[j].sub = tasks[j].sub /\ (j # i => us[j] = tasks[j])
    BY <1>1, TaskEnds
  <1>3. /\ tasks[i].status = "pending" /\ tasks' = us
        /\ UNCHANGED <<call, stray, mined, faults>>
    BY DEF End
  <1> HIDE DEF us
  <1>4. \A j \in 1..Len(tasks) :
           tasks[j].status # "pending" => us[j].status = tasks[j].status
    BY <1>2, <1>3
  <1>5. \A c \in Calls : CallOK(c, call[c], us)
    BY <1>1, <1>2, <1>4, CallsSurvive
  <1> QED BY <1>2, <1>3, <1>5 DEF Inv

-----------------------------------------------------------------------------
(* The invariant is invariant.                                             *)

\* It holds at the start.
LEMMA InitInv == Init => Inv
  <1> SUFFICES ASSUME Init PROVE Inv
    OBVIOUS
  <1>1. call = [c \in Calls |-> Idle(Options[c])] /\ tasks = <<>> /\ stray = {}
    BY DEF Init
  <1>2. tasks \in Seq(TaskRecords) /\ Len(tasks) = 0
    BY <1>1
  <1>3. TasksOK(tasks)
    BY <1>2 DEF TasksOK, HasTop, NoncesOf
  <1>4. ASSUME NEW c \in Calls PROVE CallOK(c, call[c], tasks)
    <2> DEFINE w == call[c]
    <2>1. Options[c] \in OptionSets
      BY TaskAssumption DEF OptionSets
    <2>2. /\ "idle" \in Phases /\ "none" \in Outcomes /\ NoReply.kind = "none"
          /\ NoReply \in [kind: Kinds, value: Nat \cup Statuses]
      BY DEF Phases, Outcomes, NoReply, Kinds
    <2>3. /\ w.phase = "idle" /\ w.opt = Options[c] /\ w.try = 0 /\ w.reply = NoReply
          /\ w.txNonce = NoNonce /\ w.task = 0 /\ w.elapsed = 0 /\ w.timer = 0
          /\ w.outcome = "none" /\ w.late = 0 /\ w.seen = 0 /\ w.fellBack = FALSE
      BY <1>1 DEF Idle
    <2>4. w \in CallRecords
      BY <1>1, <2>1, <2>2, TaskAssumption DEF Idle, CallRecords
    <2> HIDE DEF w
    <2>5. NonceOK(w, tasks)
      BY <2>3 DEF NonceOK
    <2>6. ToldOK(w, tasks)
      BY <1>2, <2>3 DEF ToldOK
    <2>7. OutcomeOK(w, tasks)
      BY <2>3 DEF OutcomeOK
    <2> QED BY <2>3, <2>4, <2>5, <2>6, <2>7 DEF CallOK, w
  <1>5. mined \in Nat /\ faults \in 0..MaxFaults
    BY TaskAssumption DEF Init
  <1> QED BY <1>1, <1>3, <1>4, <1>5 DEF Inv

\* Every action keeps it.
LEMMA NextInv == Inv /\ [Next]_vars => Inv'
  <1> SUFFICES ASSUME Inv, [Next]_vars PROVE Inv'
    OBVIOUS
  <1>1. ASSUME NEW c \in Calls, Submit(c) PROVE Inv'
    <2>1. call[c].phase = "idle" /\ Begins(c)
      BY <1>1 DEF Submit
    <2>2. call[c].try < MaxTries
      BY <2>1, TaskAssumption DEF Inv, CallOK
    <2> QED BY <2>1, <2>2, BeginsKeeps
  <1>2. ASSUME NEW c \in Calls, SubmitAgain(c) PROVE Inv'
    BY <1>2, BeginsKeeps DEF SubmitAgain
  <1>3. ASSUME NEW c \in Calls, Resume(c) PROVE Inv'
    BY <1>3, PreparesKeeps, NonceKeeps, SubmittedKeeps, PollKeeps, WakeKeeps DEF Resume
  <1>4. CASE Tick
    BY <1>4, TickKeeps
  <1>5. ASSUME NEW c \in Calls, ServeQuery(c) PROVE Inv'
    BY <1>5, QueryKeeps
  <1>6. ASSUME NEW c \in Calls, ServeSubmission(c) PROVE Inv'
    BY <1>6, ServeSubmissionKeeps
  <1>7. ASSUME NEW c \in Calls, Fault(c) PROVE Inv'
    BY <1>7, FaultKeeps
  <1>8. ASSUME NEW sub \in stray, Arrive(sub) PROVE Inv'
    BY <1>8, ArriveKeeps
  <1>9. CASE Mine
    BY <1>9, MineKeeps
  <1>10. ASSUME NEW i \in DOMAIN tasks, NEW status \in Ends, End(i, status) PROVE Inv'
    BY <1>10, EndKeeps
  <1>11. CASE UNCHANGED vars
    BY <1>11 DEF vars, Inv
  <1> QED BY <1>1, <1>2, <1>3, <1>4, <1>5, <1>6, <1>7, <1>8, <1>9, <1>10, <1>11 DEF Next

\* So it always holds.
LEMMA Invariance == Spec => []Inv
  BY InitInv, NextInv, PTL DEF Spec

-----------------------------------------------------------------------------
(* What follows.                                                           *)

\* Calls and tasks are what the model says they are.
THEOREM TasksTypeCorrect == Spec => []TypeOK
  <1>1. ASSUME Inv PROVE TypeOK
    <2>1. ASSUME NEW c \in Calls
          PROVE  /\ call[c].phase \in Phases /\ call[c].opt = Options[c]
                 /\ call[c].try \in 0..MaxTries /\ call[c].task \in 0..Len(tasks)
                 /\ call[c].txNonce \in Nat \cup {NoNonce}
                 /\ call[c].elapsed \in 0..Timeout + 1 /\ call[c].timer \in 0..PollInterval
                 /\ call[c].phase \in {"poll", "sleep", "resolved"} => call[c].task # 0
      BY <1>1, <2>1 DEF Inv, CallOK, CallRecords, ToldOK
    <2>2. Used \subseteq Nat
      BY <1>1, UsedIsNonces DEF Inv
    <2>3. \A i \in DOMAIN tasks : tasks[i].sub.txNonce \in Nat
      BY <2>2 DEF Used
    <2> QED BY <1>1, <2>1, <2>3 DEF Inv, TypeOK
  <1> QED BY <1>1, Invariance, PTL

\* A transaction that its application built and left the nonce of to makeInfer is refused
\* only if another one took the fetched nonce meanwhile, or it is the account's own: the
\* nonce the node offered was not used by any transaction it knew of.
THEOREM RefusedForCause == Spec => []RefusalHasCause
  <1>1. ASSUME Inv, NEW c \in Calls, call[c].phase = "submit", ReplyIs(c, "refused"),
               call[c].opt.nonce = NoNonce, ~call[c].fellBack
        PROVE  \E i \in DOMAIN tasks :
                  i > call[c].seen /\ tasks[i].sub.txNonce = call[c].txNonce
    <2>1. CallOK(c, call[c], tasks) /\ DOMAIN tasks = 1..Len(tasks) /\ Len(tasks) \in Nat
      BY <1>1 DEF Inv, TasksOK
    <2>2. call[c].txNonce \in NoncesOf(tasks) /\ Unseen(call[c], call[c].txNonce, tasks)
      BY <1>1, <2>1 DEF CallOK, NonceOK, ReplyIs
    <2>3. PICK i \in 1..Len(tasks) : tasks[i].sub.txNonce = call[c].txNonce
      BY <2>2 DEF NoncesOf
    <2>4. call[c].seen \in Nat /\ i \notin 1..call[c].seen
      BY <2>1, <2>2, <2>3 DEF CallOK, CallRecords, Unseen
    <2> QED BY <2>1, <2>3, <2>4
  <1>2. Inv => RefusalHasCause
    BY <1>1 DEF RefusalHasCause
  <1> QED BY <1>2, Invariance, PTL

\* What the service took on is what was signed, whichever attempt arrived and however
\* late: each submission is checked against the options of the call that made it.
THEOREM TasksAreAsSigned == Spec => []TaskMatchesTransaction
  <1>1. ASSUME Inv PROVE TaskMatchesTransaction
    <2>1. DOMAIN tasks = 1..Len(tasks) /\ \A i \in 1..Len(tasks) : tasks[i] \in TaskRecords
      BY <1>1, ElementOfSeq DEF Inv, TasksOK
    <2>2. \A i \in DOMAIN tasks : Signed(tasks[i].sub)
      BY <2>1 DEF TaskRecords, Submissions
    <2> QED BY <2>2 DEF Signed, TaskMatchesTransaction
  <1> QED BY <1>1, Invariance, PTL

\* A set of numbers with no two different members has at most one.
LEMMA AtMostOne ==
    ASSUME NEW S, \A i, j \in S : i = j
    PROVE  Cardinality(S) <= 1
  <1>1. CASE S = {}
    BY <1>1, FS_EmptySet
  <1>2. CASE S # {}
    <2>1. PICK x \in S : TRUE
      BY <1>2
    <2>2. S = {x}
      BY <2>1
    <2>3. Cardinality({x}) = 1
      BY FS_Singleton
    <2> QED BY <2>2, <2>3
  <1> QED BY <1>1, <1>2

\* An application that names its nonce pays at most once, for any number of repeated,
\* lost and late submissions: they all carry the nonce, and no two tasks share one.
THEOREM NamedNoncePaysOnce == Spec => []PaysOnceAtItsNonce
  <1>1. ASSUME Inv, NEW c \in Calls, call[c].opt.nonce # NoNonce
        PROVE  Cardinality({i \in DOMAIN tasks : tasks[i].sub.by = c}) <= 1
    <2> DEFINE S == {i \in DOMAIN tasks : tasks[i].sub.by = c}
    <2>1. Options[c].nonce # NoNonce
      BY <1>1 DEF Inv, CallOK
    <2>2. DOMAIN tasks = 1..Len(tasks) /\ \A i \in 1..Len(tasks) : tasks[i] \in TaskRecords
      BY <1>1, ElementOfSeq DEF Inv, TasksOK
    <2>3. \A i \in 1..Len(tasks) : Signed(tasks[i].sub)
      BY <2>2 DEF TaskRecords, Submissions
    <2>4. \A i \in S : i \in 1..Len(tasks) /\ tasks[i].sub.txNonce = Options[c].nonce
      BY <2>1, <2>2, <2>3 DEF Signed
    <2>5. \A i, j \in S : i = j
      BY <1>1, <2>4 DEF Inv, TasksOK
    <2> QED BY <2>5, AtMostOne
  <1>2. Inv => PaysOnceAtItsNonce
    BY <1>1 DEF PaysOnceAtItsNonce
  <1> QED BY <1>2, Invariance, PTL

\* A wait tells how the task ended, or gives up late on one that had not ended when it
\* last asked.
THEOREM OutcomesAreTrue == Spec => []OutcomeIsTrue
  <1>1. Inv => OutcomeIsTrue
    BY DEF Inv, CallOK, OutcomeOK, OutcomeIsTrue
  <1> QED BY <1>1, Invariance, PTL

\* However late the timers are, a wait asks at most once after its timeout.
THEOREM AtMostOneLatePoll == Spec => []OneLatePoll
  <1>1. Inv => OneLatePoll
    BY DEF Inv, CallOK, OutcomeOK, OneLatePoll
  <1> QED BY <1>1, Invariance, PTL
=============================================================================
