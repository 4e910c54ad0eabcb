-------------------------- MODULE RetriedCall_proofs --------------------------
(***************************************************************************)
(* What a call returns is true of the server, for any number of retries.   *)
(* A result rests on the reply of the last attempt, so the invariant says  *)
(* what a reply that has arrived, and has not been looked at yet, shows;   *)
(* and of a POST, that the server has not applied it while it is on its    *)
(* way, since it is on its way once. Then the call, seen from outside, is  *)
(* shown to implement RemoteCall.                                          *)
(***************************************************************************)
EXTENDS RetriedCall, TLAPS

\* What an answer shows of the server.
AnswerIsTrue ==
    call.at = "answered" =>
        /\ Succeeds(call.op, reply) =>
              /\ call.op \in Creating => applied > 0
              /\ call.op = "get" => lately
              /\ call.op = "delete" => ~lately
        /\ reply.status = 404 => ~lately

\* A POST is sent once, and not applied when the answer is that its target is missing.
PostIsFresh ==
    call.op = "post" =>
        /\ call.at = "sent" => applied = 0
        /\ applied <= 1
        /\ call.at = "answered" /\ IsWaiting(reply) => applied = 0

WaitingIsUnapplied == Returned("waiting") => applied = 0

IInv == /\ TypeOK /\ AnswerIsTrue /\ PostIsFresh
        /\ OkMeansDone /\ MissingMeansAbsent /\ WaitingIsUnapplied

-----------------------------------------------------------------------------
\* Every operation is tried at least once.
LEMMA AttemptsType == \A op \in Ops : Attempts(op) \in Nat /\ Attempts(op) >= 1
  BY CallAssumption DEF Attempts, GetAttempts, MigrateAttempts, SendAttempts, Default, Ops

\* Answers of the server, and their absence, are replies.
LEMMA ReplyType ==
  /\ \A s \in {200, 201, 202, 204, 400, 404, 425, 429, 500}, b \in Bodies :
        [status |-> s, body |-> b] \in Replies
  /\ \A b \in Failures : [status |-> 0, body |-> b] \in Replies
  BY DEF Replies

\* Nothing is in progress at first.
LEMMA Initially == Init => IInv
<1> SUFFICES ASSUME Init PROVE IInv
  OBVIOUS
<1>1. TypeOK
  <2>1. NoReply \in Replies /\ NoCall \in Calls
    BY DEF NoReply, Replies, Failures, NoCall, Calls, Ops
  <2>2. NoCall.op \in Ops /\ NoCall.attempt = 0
    BY DEF NoCall, Ops
  <2>3. 0 \in 0..MaxCalls
    BY CallAssumption
  <2>4. NoCall.attempt <= Attempts(NoCall.op)
    BY <2>2, AttemptsType
  <2>5. [op |-> "get", kind |-> "none"] \in Results
    BY DEF Results, Ops
  <2> QED
    BY <2>1, <2>3, <2>4, <2>5 DEF Init, TypeOK
<1> QED
  BY <1>1 DEF Init, IInv, AnswerIsTrue, PostIsFresh, OkMeansDone, MissingMeansAbsent,
              WaitingIsUnapplied, Returned, NoCall

\* A call that begins has done nothing yet.
LEMMA BeginPreserves == IInv /\ Begin => IInv'
<1> SUFFICES ASSUME IInv, Begin PROVE IInv'
  OBVIOUS
<1>1. PICK op \in Ops : call' = [op |-> op, attempt |-> 1, at |-> "sent"]
  BY DEF Begin
<1>2. TypeOK'
  <2>1. call' \in Calls /\ call'.attempt <= Attempts(call'.op)
    BY <1>1, AttemptsType DEF Calls
  <2>2. calls' \in 0..MaxCalls
    BY CallAssumption DEF IInv, TypeOK, Begin
  <2> QED
    BY <2>1, <2>2 DEF IInv, TypeOK, Begin
<1> QED
  BY <1>1, <1>2 DEF Begin, IInv, AnswerIsTrue, PostIsFresh, OkMeansDone,
                    MissingMeansAbsent, WaitingIsUnapplied, Returned

\* An attempt that is over keeps its operation and its number.
LEMMA AnsweredType ==
  ASSUME TypeOK, NEW r \in Replies, Answered(r)
  PROVE  /\ call' \in Calls /\ call'.attempt <= Attempts(call'.op)
         /\ reply' = r /\ call'.op = call.op /\ call'.at = "answered"
  BY DEF TypeOK, Calls, Answered

\* What the server says of what it did, or does not say.
LEMMA AppliesPreserves == IInv /\ ServerApplies => IInv'
<1> SUFFICES ASSUME IInv, ServerApplies PROVE IInv'
  OBVIOUS
<1>1. PICK r \in Replies : Answered(r) /\ r.status \in {0, 200, 201, 202, 204, 500}
  <2>1. CASE \E s \in {200, 201, 202, 204, 500}, b \in Bodies :
               Answered([status |-> s, body |-> b])
    <3>1. PICK s \in {200, 201, 202, 204, 500}, b \in Bodies :
            Answered([status |-> s, body |-> b])
      BY <2>1
    <3>2. [status |-> s, body |-> b] \in Replies
      BY ReplyType
    <3> QED
      BY <3>1, <3>2
  <2>2. CASE \E b \in Failures : Answered([status |-> 0, body |-> b])
    BY <2>2, ReplyType
  <2> QED
    BY <2>1, <2>2 DEF ServerApplies
<1>2. TypeOK /\ applied \in Nat /\ applied' = applied + 1
  BY DEF IInv, TypeOK, ServerApplies
<1>3. /\ call' \in Calls /\ call'.attempt <= Attempts(call'.op)
      /\ reply' = r /\ call'.op = call.op /\ call'.at = "answered"
  BY <1>1, <1>2, AnsweredType
<1>4. TypeOK'
  BY <1>2, <1>3 DEF TypeOK, ServerApplies
<1>5. AnswerIsTrue'
  <2>1. call.op # "get" /\ (call.op = "delete" => ~lately')
    BY DEF ServerApplies, Creating
  <2>2. r.status # 404 /\ applied' > 0
    BY <1>1, <1>2
  <2> QED
    BY <1>3, <2>1, <2>2 DEF AnswerIsTrue
<1>6. PostIsFresh'
  <2>1. call.op = "post" => applied = 0
    BY DEF IInv, PostIsFresh, ServerApplies
  <2>2. ~IsWaiting(r)
    BY <1>1 DEF IsWaiting
  <2> QED
    BY <1>2, <1>3, <2>1, <2>2 DEF PostIsFresh
<1> QED
  BY <1>3, <1>4, <1>5, <1>6
     DEF IInv, OkMeansDone, MissingMeansAbsent, WaitingIsUnapplied, Returned

\* A server that does nothing tells of a success only what it finds, and of nothing
\* there only when there is nothing.
LEMMA RefusesPreserves == IInv /\ ServerRefuses => IInv'
<1> SUFFICES ASSUME IInv, ServerRefuses PROVE IInv'
  OBVIOUS
<1>1. PICK r \in Replies :
        /\ Answered(r)
        /\ \/ call.op = "get" /\ r.status = (IF exists THEN 200 ELSE 404)
           \/ call.op = "delete" /\ ~exists /\ r.status = 404
           \/ r.status \in {400, 425, 429, 500}
  <2>1. PICK b \in Bodies :
          \/ call.op = "get" /\ Answered([status |-> IF exists THEN 200 ELSE 404, body |-> b])
          \/ call.op = "delete" /\ ~exists /\ Answered([status |-> 404, body |-> b])
          \/ \E s \in {400, 425, 429, 500} : Answered([status |-> s, body |-> b])
    BY DEF ServerRefuses
  <2> QED
    BY <2>1, ReplyType
<1>2. TypeOK /\ lately' = exists /\ applied' = applied
  BY DEF IInv, ServerRefuses
<1>3. /\ call' \in Calls /\ call'.attempt <= Attempts(call'.op)
      /\ reply' = r /\ call'.op = call.op /\ call'.at = "answered"
  BY <1>1, <1>2, AnsweredType
<1>4. TypeOK'
  BY <1>2, <1>3 DEF TypeOK, ServerRefuses
<1>5. AnswerIsTrue'
  BY <1>1, <1>2, <1>3 DEF AnswerIsTrue, Succeeds, GetSucceeds, PostSucceeds, DeleteSucceeds,
                          SendSucceeds, MigrateSucceeds, Creating
<1>6. PostIsFresh'
  <2>1. call.op = "post" => applied = 0
    BY DEF IInv, PostIsFresh, ServerRefuses
  <2> QED
    BY <1>2, <1>3, <2>1 DEF PostIsFresh
<1> QED
  BY <1>3, <1>4, <1>5, <1>6
     DEF IInv, OkMeansDone, MissingMeansAbsent, WaitingIsUnapplied, Returned

\* Without an answer nothing is learnt.
LEMMA UnreachedPreserves == IInv /\ Unreached => IInv'
<1> SUFFICES ASSUME IInv, Unreached PROVE IInv'
  OBVIOUS
<1>1. PICK r \in Replies : Answered(r) /\ r.status = 0
  BY ReplyType DEF Unreached
<1>2. TypeOK /\ applied' = applied
  BY DEF IInv, Unreached
<1>3. /\ call' \in Calls /\ call'.attempt <= Attempts(call'.op)
      /\ reply' = r /\ call'.op = call.op /\ call'.at = "answered"
  BY <1>1, <1>2, AnsweredType
<1>4. TypeOK'
  BY <1>2, <1>3 DEF TypeOK, Unreached
<1>5. AnswerIsTrue'
  BY <1>1, <1>3 DEF AnswerIsTrue, Succeeds, GetSucceeds, PostSucceeds, DeleteSucceeds,
                    SendSucceeds, MigrateSucceeds
<1>6. PostIsFresh'
  <2>1. call.op = "post" => applied = 0
    BY DEF IInv, PostIsFresh, Unreached
  <2> QED
    BY <1>2, <1>3, <2>1 DEF PostIsFresh
<1> QED
  BY <1>3, <1>4, <1>5, <1>6
     DEF IInv, OkMeansDone, MissingMeansAbsent, WaitingIsUnapplied, Returned

\* A POST is not repeated, and no other call's attempts matter to the invariant.
LEMMA RetryPreserves == IInv /\ Retry => IInv'
<1> SUFFICES ASSUME IInv, Retry PROVE IInv'
  OBVIOUS
<1>1. call' = [op |-> call.op, attempt |-> call.attempt + 1, at |-> "sent"]
  BY DEF Retry
<1>2. call.op \in Ops /\ call.attempt \in Nat /\ call.attempt < Attempts(call.op)
  BY DEF IInv, TypeOK, Calls, Retry
<1>3. TypeOK'
  <2>1. call' \in Calls
    BY <1>1, <1>2 DEF Calls
  <2>2. call'.attempt <= Attempts(call'.op)
    BY <1>1, <1>2, AttemptsType
  <2> QED
    BY <2>1, <2>2 DEF IInv, TypeOK, Retry
<1>4. call.op # "post"
  BY DEF Retry, Repeats
<1> QED
  BY <1>1, <1>3, <1>4 DEF Retry, IInv, AnswerIsTrue, PostIsFresh, OkMeansDone,
                          MissingMeansAbsent, WaitingIsUnapplied, Returned

\* The result is made of a true answer.
LEMMA ReturnPreserves == IInv /\ Return => IInv'
<1> SUFFICES ASSUME IInv, Return PROVE IInv'
  OBVIOUS
<1>1. /\ call.at = "answered" /\ call.op \in Ops /\ call' = NoCall
      /\ result' = [op |-> call.op, kind |-> Kind(call.op, reply)]
      /\ UNCHANGED <<exists, lately, reply, applied, calls>>
  BY DEF IInv, TypeOK, Calls, Return
<1>2. TypeOK'
  <2>1. NoCall \in Calls /\ NoCall.attempt = 0 /\ NoCall.op \in Ops
    BY DEF NoCall, Calls, Ops
  <2>2. result' \in Results
    BY <1>1 DEF Results, Kind
  <2> QED
    BY <1>1, <2>1, <2>2, AttemptsType DEF IInv, TypeOK
<1>3. OkMeansDone'
  <2>1. Kind(call.op, reply) = "ok" => Succeeds(call.op, reply)
    BY DEF Kind
  <2> QED
    BY <1>1, <2>1 DEF OkMeansDone, Returned, IInv, AnswerIsTrue
<1>4. MissingMeansAbsent'
  <2>1. Kind(call.op, reply) = "missing" => reply.status = 404
    BY DEF Kind
  <2> QED
    BY <1>1, <2>1 DEF MissingMeansAbsent, Returned, IInv, AnswerIsTrue
<1>5. WaitingIsUnapplied'
  <2>1. Kind(call.op, reply) = "waiting" => call.op = "post" /\ IsWaiting(reply)
    BY DEF Kind
  <2> QED
    BY <1>1, <2>1 DEF WaitingIsUnapplied, Returned, IInv, PostIsFresh
<1> QED
  BY <1>1, <1>2, <1>3, <1>4, <1>5 DEF IInv, AnswerIsTrue, PostIsFresh, NoCall

\* Other hands change what exists, and no answer is about that.
LEMMA OtherPreserves == IInv /\ (Outside \/ UNCHANGED vars) => IInv'
<1> SUFFICES ASSUME IInv, Outside \/ UNCHANGED vars PROVE IInv'
  OBVIOUS
<1>1. exists' \in BOOLEAN /\ UNCHANGED <<lately, call, reply, applied, result, calls>>
  BY DEF IInv, TypeOK, Outside, vars
<1> QED
  BY <1>1 DEF IInv, TypeOK, AnswerIsTrue, PostIsFresh, OkMeansDone, MissingMeansAbsent,
              WaitingIsUnapplied, Returned

-----------------------------------------------------------------------------
\* The invariant holds in every state.
THEOREM CallInvariant == Spec => []IInv
<1>1. IInv /\ [Next]_vars => IInv'
  BY BeginPreserves, AppliesPreserves, RefusesPreserves, UnreachedPreserves,
     RetryPreserves, ReturnPreserves, OtherPreserves DEF Next, Step
<1> QED
  BY Initially, <1>1, PTL DEF Spec

\* Types, and no call makes more attempts than its client allows.
THEOREM CallTypeCorrect == Spec => []TypeOK
<1>1. IInv => TypeOK
  BY DEF IInv
<1> QED
  BY CallInvariant, <1>1, PTL

\* A success that a client reports was one, whichever attempt brought it.
THEOREM SuccessIsReal == Spec => []OkMeansDone
<1>1. IInv => OkMeansDone
  BY DEF IInv
<1> QED
  BY CallInvariant, <1>1, PTL

\* "Not found" is reported only of what the server did not have.
THEOREM MissingIsAbsent == Spec => []MissingMeansAbsent
<1>1. IInv => MissingMeansAbsent
  BY DEF IInv
<1> QED
  BY CallInvariant, <1>1, PTL

\* A POST to the operator is applied at most once per call.
THEOREM PostsAreOnce == Spec => []PostedOnce
<1>1. IInv => PostedOnce
  <2> SUFFICES ASSUME IInv PROVE PostedOnce
    OBVIOUS
  <2>1. call.op = "post" => applied <= 1
    BY DEF IInv, PostIsFresh, TypeOK, Calls
  <2> QED
    BY <2>1 DEF IInv, PostedOnce, WaitingIsUnapplied
<1> QED
  BY CallInvariant, <1>1, PTL

-----------------------------------------------------------------------------
(* The refinement of RemoteCall. No attempt takes effect twice, and what   *)
(* the caller has seen follows from the answer that has arrived.           *)

AppliedPerAttempt ==
    /\ call.at = "sent"     => applied < call.attempt
    /\ call.at = "answered" => applied <= call.attempt

\* An attempt takes effect at most once, so a call does at most as often as it is sent.
THEOREM EffectsAreCounted == Spec => []AppliedPerAttempt
<1>1. Init => AppliedPerAttempt
  BY DEF Init, AppliedPerAttempt, NoCall
<1>2. TypeOK /\ AppliedPerAttempt /\ [Next]_vars => AppliedPerAttempt'
  <2> SUFFICES ASSUME TypeOK, AppliedPerAttempt, [Next]_vars PROVE AppliedPerAttempt'
    OBVIOUS
  <2>1. applied \in Nat /\ call.attempt \in Nat
    BY DEF TypeOK, Calls
  <2>2. CASE Begin
    BY <2>2 DEF Begin, AppliedPerAttempt
  <2>3. CASE ServerApplies
    <3>1. call'.attempt = call.attempt /\ call'.at = "answered" /\ applied' = applied + 1
          /\ call.at = "sent"
      BY <2>3 DEF ServerApplies, Answered
    <3> QED
      BY <2>1, <3>1 DEF AppliedPerAttempt
  <2>4. CASE ServerRefuses \/ Unreached
    <3>1. call'.attempt = call.attempt /\ call'.at = "answered" /\ applied' = applied
          /\ call.at = "sent"
      BY <2>4 DEF ServerRefuses, Unreached, Answered
    <3> QED
      BY <2>1, <3>1 DEF AppliedPerAttempt
  <2>5. CASE Retry
    <3>1. call'.attempt = call.attempt + 1 /\ call'.at = "sent" /\ applied' = applied
          /\ call.at = "answered"
      BY <2>5 DEF Retry
    <3> QED
      BY <2>1, <3>1 DEF AppliedPerAttempt
  <2>6. CASE Return
    BY <2>6 DEF Return, NoCall, AppliedPerAttempt
  <2>7. CASE Outside \/ UNCHANGED vars
    BY <2>7 DEF Outside, vars, AppliedPerAttempt
  <2> QED
    BY <2>2, <2>3, <2>4, <2>5, <2>6, <2>7 DEF Next, Step
<1> QED
  BY <1>1, <1>2, CallTypeCorrect, PTL DEF Spec

Doing    == IF call.at = "idle" THEN "none" ELSE call.op
Seen     == IF call.at = "answered" /\ reply.status # 0
            THEN IF lately THEN "there" ELSE "absent" ELSE "nothing"
Limiting == [op \in Ops |-> Attempts(op)]

\* A call in progress is one of an operation, and nothing is seen without an answer.
LEMMA CallView ==
    ASSUME TypeOK
    PROVE  /\ call.op \in Ops
           /\ call.at # "idle" => Doing = call.op /\ Doing # "none"
           /\ call.at = "idle" => Doing = "none"
           /\ call.at # "answered" => Seen = "nothing"
BY DEF TypeOK, Calls, Ops, Doing, Seen

\* After an answer the caller has seen what was there when it was given, or nothing.
LEMMA AnswerView ==
    ASSUME TypeOK, NEW r, call.at = "sent", Answered(r)
    PROVE  /\ Doing' = Doing /\ Doing' \in Ops
           /\ Seen' \in {"nothing", Remote!View(lately')}
           /\ r.status = 0 => Seen' = "nothing"
<1>1. reply' = r /\ call'.op = call.op /\ call'.at = "answered" /\ call.op \in Ops
  BY DEF Answered, TypeOK, Calls
<1> QED
  BY <1>1 DEF Doing, Seen, Remote!View

\* What the reconciler and the services are told by a call is what RemoteCall promises.
THEOREM RemoteImplemented == Spec => ResultsAreWarranted
<1> USE DEF Doing, Seen, Limiting
<1>1. Init => Remote!Init
  BY DEF Init, Remote!Init, NoCall, NoReply
<1>2. IInv /\ IInv' /\ AppliedPerAttempt /\ [Next]_vars => [Remote!Next]_(Remote!vars)
  <2> SUFFICES ASSUME IInv, IInv', AppliedPerAttempt, [Next]_vars
               PROVE  Remote!Next \/ UNCHANGED Remote!vars
    OBVIOUS
  <2>1. TypeOK /\ applied \in Nat /\ call.attempt \in Nat /\ call.attempt <= Attempts(call.op)
    BY DEF IInv, TypeOK, Calls
  <2>2. CASE Begin
    <3>1. PICK op \in Ops : call' = [op |-> op, attempt |-> 1, at |-> "sent"]
      BY <2>2 DEF Begin
    <3>2. Remote!Begin
      BY <2>2, <3>1 DEF Begin, Remote!Begin
    <3> QED
      BY <3>2 DEF Remote!Next
  <2> HIDE DEF Doing, Seen, Limiting
  <2>3. CASE ServerApplies
    <3>1. PICK r : Answered(r)
      BY <2>3 DEF ServerApplies
    <3>2. /\ call.at = "sent" /\ call.op # "get" /\ applied' = applied + 1
          /\ lately' = exists' /\ exists' = (call.op \in Creating) /\ result' = result
          /\ call.op = "delete" => exists
      BY <2>3 DEF ServerApplies
    <3>3. Doing' = Doing /\ Doing = call.op /\ Doing \in Ops /\ Seen' \in {"nothing", Remote!View(exists')}
      BY <2>1, <3>1, <3>2, AnswerView, CallView
    <3>4. applied < Limiting[call.op]
      <4>1. Attempts(call.op) \in Nat /\ call.op \in Ops
        BY <2>1, CallView, AttemptsType
      <4> QED
        BY <2>1, <3>2, <4>1 DEF AppliedPerAttempt, Limiting
    <3>5. Remote!Effect
      BY <3>2, <3>3, <3>4 DEF Remote!Effect, Doing, Seen, Limiting
    <3> QED
      BY <3>5 DEF Remote!Next
  <2>4. CASE ServerRefuses
    <3>1. PICK r : Answered(r)
      BY <2>4 DEF ServerRefuses
    <3>2. /\ call.at = "sent" /\ UNCHANGED <<exists, applied, result>> /\ lately' = exists
      BY <2>4 DEF ServerRefuses
    <3>3. Doing' = Doing /\ Doing \in Ops /\ Seen' \in {"nothing", Remote!View(exists)}
      BY <2>1, <3>1, <3>2, AnswerView
    <3>4. Remote!Look
      BY <3>2, <3>3 DEF Remote!Look, Doing, Seen
    <3> QED
      BY <3>4 DEF Remote!Next
  <2>5. CASE Unreached
    <3>1. PICK r : Answered(r) /\ r.status = 0
      BY <2>5 DEF Unreached
    <3>2. call.at = "sent" /\ UNCHANGED <<exists, applied, result>>
      BY <2>5 DEF Unreached
    <3>3. Doing' = Doing /\ Doing \in Ops /\ Seen' = "nothing"
      BY <2>1, <3>1, <3>2, AnswerView
    <3>4. Remote!Look
      BY <3>2, <3>3 DEF Remote!Look, Doing, Seen
    <3> QED
      BY <3>4 DEF Remote!Next
  <2>6. CASE Retry
    <3>1. /\ call.at = "answered" /\ call'.at = "sent" /\ call'.op = call.op
          /\ UNCHANGED <<exists, applied, result>>
      BY <2>6 DEF Retry
    <3>2. Doing' = Doing /\ Doing \in Ops /\ Seen' = "nothing"
      BY <2>1, <3>1, CallView DEF Doing, Seen
    <3>3. Remote!Look
      BY <3>1, <3>2 DEF Remote!Look, Doing, Seen
    <3> QED
      BY <3>3 DEF Remote!Next
  <2>7. CASE Return
    <3>1. /\ call.at = "answered" /\ call'.at = "idle"
          /\ result' = [op |-> call.op, kind |-> Kind(call.op, reply)]
          /\ UNCHANGED <<exists, applied>>
      BY <2>7 DEF Return, NoCall
    <3>2. Doing = call.op /\ Doing \in Ops /\ Doing' = "none" /\ Seen' = "nothing"
      BY <2>1, <3>1, CallView DEF Doing, Seen
    <3>3. /\ Succeeds(call.op, reply) =>
                /\ call.op \in Creating => applied > 0
                /\ call.op = "get" => lately
                /\ call.op = "delete" => ~lately
          /\ reply.status = 404 => ~lately
          /\ call.op = "post" /\ IsWaiting(reply) => applied = 0
      BY <3>1 DEF IInv, AnswerIsTrue, PostIsFresh
    <3>4. /\ call.op \in {"get", "delete"} /\ Succeeds(call.op, reply) => reply.status # 0
          /\ Seen = IF reply.status = 0 THEN "nothing" ELSE IF lately THEN "there" ELSE "absent"
      BY <3>1 DEF Succeeds, GetSucceeds, DeleteSucceeds, Seen
    <3>5. call.op \in Creating \/ call.op \in {"get", "delete"}
      BY <3>2 DEF Ops, Creating
    <3> DEFINE kind == Kind(call.op, reply)
    <3>6. CASE Succeeds(call.op, reply)
      <4>1. kind = "ok"
        BY <3>6 DEF Kind
      <4> HIDE DEF kind
      <4> QED
        BY <3>1, <3>2, <3>3, <3>4, <3>5, <3>6, <4>1
           DEF Remote!Next, Remote!Return, Remote!Warranted, Doing, Seen, kind
    <3>7. CASE ~Succeeds(call.op, reply)
      <4>1. \/ kind = "waiting" /\ call.op = "post" /\ IsWaiting(reply)
            \/ kind = "missing" /\ reply.status = 404
            \/ kind = "error"
        BY <3>7 DEF Kind
      <4> HIDE DEF kind
      <4> QED
        BY <3>1, <3>2, <3>3, <3>4, <4>1
           DEF Remote!Next, Remote!Return, Remote!Warranted, Doing, Seen, kind
    <3> QED
      BY <3>6, <3>7
  <2>8. CASE Outside
    BY <2>8 DEF Outside, Remote!Outside, Remote!Next, Doing, Seen
  <2>9. CASE UNCHANGED vars
    BY <2>9 DEF vars, Remote!vars, Doing, Seen
  <2> QED
    BY <2>2, <2>3, <2>4, <2>5, <2>6, <2>7, <2>8, <2>9 DEF Next, Step
<1> QED
  BY <1>1, <1>2, CallInvariant, EffectsAreCounted, PTL DEF Spec, ResultsAreWarranted, Remote!Spec

-----------------------------------------------------------------------------
(* How long a call may go on: what CallReturns needs beside fairness.      *)

\* The steps a call may still take. An attempt that is sent is one step away from its
\* answer, and each further attempt takes two.
StepsLeft ==
    IF call.at = "idle" THEN 0
    ELSE 2 * (Attempts(call.op) - call.attempt) + (IF call.at = "sent" THEN 2 ELSE 1)

AttemptsAreCounted == call.at # "idle" => call.attempt >= 1

\* Every answer, repetition and return brings a call nearer to its end, and nothing that
\* happens at the server takes it back: 2 * Attempts(op) steps, and it has returned.
CallsRunOut ==
    /\ [](StepsLeft \in Nat /\ StepsLeft <= 2 * Attempts(call.op))
    /\ [][(Step => StepsLeft' < StepsLeft) /\ (Outside => StepsLeft' = StepsLeft)]_vars

\* No call waits, asks or repeats for ever: the half of CallReturns that needs no fairness.
THEOREM CallsAreFinite == Spec => CallsRunOut
<1>1. Init => AttemptsAreCounted
  BY DEF Init, NoCall, AttemptsAreCounted
<1>2. TypeOK /\ AttemptsAreCounted /\ [Next]_vars => AttemptsAreCounted'
  <2> SUFFICES ASSUME TypeOK, AttemptsAreCounted, [Next]_vars PROVE AttemptsAreCounted'
    OBVIOUS
  <2>1. call.attempt \in Nat
    BY DEF TypeOK, Calls
  <2>2. CASE Begin
    BY <2>2 DEF Begin, AttemptsAreCounted
  <2>3. CASE ServerApplies \/ ServerRefuses \/ Unreached
    BY <2>3 DEF ServerApplies, ServerRefuses, Unreached, Answered, AttemptsAreCounted
  <2>4. CASE Retry
    BY <2>1, <2>4 DEF Retry, AttemptsAreCounted
  <2>5. CASE Return \/ Outside \/ UNCHANGED vars
    BY <2>5 DEF Return, Outside, NoCall, vars, AttemptsAreCounted
  <2> QED
    BY <2>2, <2>3, <2>4, <2>5 DEF Next, Step
<1>3. TypeOK => call.attempt \in Nat /\ call.attempt <= Attempts(call.op) /\ Attempts(call.op) \in Nat
  BY AttemptsType DEF TypeOK, Calls
<1>4. TypeOK /\ AttemptsAreCounted => StepsLeft \in Nat /\ StepsLeft <= 2 * Attempts(call.op)
  BY <1>3 DEF StepsLeft, AttemptsAreCounted
<1>5. TypeOK /\ TypeOK' /\ Next => (Step => StepsLeft' < StepsLeft) /\ (Outside => StepsLeft' = StepsLeft)
  <2> SUFFICES ASSUME TypeOK, TypeOK'
               PROVE  (Step => StepsLeft' < StepsLeft) /\ (Outside => StepsLeft' = StepsLeft)
    OBVIOUS
  <2>1. ASSUME ServerApplies \/ ServerRefuses \/ Unreached PROVE StepsLeft' < StepsLeft
    <3>1. /\ call.at = "sent" /\ call'.at = "answered"
          /\ call'.op = call.op /\ call'.attempt = call.attempt
      BY <2>1 DEF ServerApplies, ServerRefuses, Unreached, Answered
    <3> QED
      BY <1>3, <3>1 DEF StepsLeft
  <2>2. ASSUME Retry PROVE StepsLeft' < StepsLeft
    <3>1. /\ call.at = "answered" /\ call'.at = "sent"
          /\ call'.op = call.op /\ call'.attempt = call.attempt + 1
      BY <2>2 DEF Retry
    <3> QED
      BY <1>3, <3>1 DEF StepsLeft
  <2>3. ASSUME Return PROVE StepsLeft' < StepsLeft
    BY <1>3, <2>3 DEF Return, NoCall, StepsLeft
  <2>4. Outside => StepsLeft' = StepsLeft
    BY DEF Outside, StepsLeft
  <2>5. Step => StepsLeft' < StepsLeft
    BY <2>1, <2>2, <2>3 DEF Step
  <2> QED
    BY <2>4, <2>5
<1> DEFINE Nearer == (Step => StepsLeft' < StepsLeft) /\ (Outside => StepsLeft' = StepsLeft)
<1>6. TypeOK /\ TypeOK' /\ [Next]_vars => [Nearer]_vars
  BY <1>5
<1> QED
  BY <1>1, <1>2, <1>4, <1>6, CallTypeCorrect, PTL DEF Spec, CallsRunOut
=============================================================================
